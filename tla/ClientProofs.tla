---------------------------- MODULE ClientProofs ----------------------------
(***************************************************************************)
(* What a tab keeps of the server's data, for any number of rows, queries,  *)
(* changes and failures.                                                    *)
(*   NotificationCache: what is shown in the end is what is stored.         *)
(*   QueryCaches: an answer shown as good has the member's own changes.     *)
(*   WeeklyBuckets: the chart counts by local weeks.                        *)
(* And the type invariants of all the client's parts, the panel's too.      *)
(***************************************************************************)
EXTENDS MCClient, NotificationStreamProofs

Severities == InCache!Severity
TableRow == [severity : Severities, read : BOOLEAN]
PageRecord == [loaded : BOOLEAN, rows : SUBSET Nat, read : SUBSET Nat, unread : Nat]
Fetched == [phase : {"none", "list", "count", "answer"},
            rows : SUBSET Nat, read : SUBSET Nat, unread : Nat]
Event == [type : {"NOTIFICATION"}, row : Nat, severity : Severities, read : BOOLEAN]
         \cup [type : {"SUMMARY"}, severity : Severities]
Mutation == [id : Nat, rows : SUBSET Nat, all : BOOLEAN, done : BOOLEAN, of : SUBSET Severities]

(***************************************************************************)
(* The inductive invariant of the notifications.                            *)
(***************************************************************************)

NoticesTyped ==
    /\ table \in Seq(TableRow) /\ pushed \subseteq DOMAIN table
    /\ events \in Seq(Event)
    /\ cache \in [Severities -> PageRecord] /\ fetch \in [Severities -> Fetched]
    /\ mutations \subseteq Mutation /\ marks \in Nat

IsSummary(e, s) == e.type = "SUMMARY" /\ e.severity = s

\* A row that is kept, fetched, streamed or marked is of the query's severity.
RowsKnown ==
    /\ \A s \in Severities : cache[s].rows \subseteq InCache!Of(s)
                             /\ fetch[s].rows \subseteq InCache!Of(s)
    /\ \A i \in DOMAIN events : events[i].type = "NOTIFICATION" =>
          events[i].row \in InCache!Of(events[i].severity)
    /\ \A m \in mutations : IF m.all THEN m.of = Severities
          ELSE \A n \in m.rows : n \in DOMAIN table /\ table[n].severity \in m.of

\* A summary comes after each row that is streamed, unless the poll brought it.
Announced ==
    \A i \in DOMAIN events :
        events[i].type = "NOTIFICATION" /\ events[i].severity \notin excused =>
            \E j \in DOMAIN events : j > i /\ IsSummary(events[j], events[i].severity)

\* Something is under way that ends in an invalidation of the query.
Pending(s) ==
    \/ \E n \in DOMAIN table \ pushed : table[n].severity = s
    \/ \E i \in DOMAIN events : IsSummary(events[i], s)
    \/ \E m \in mutations : s \in m.of

\* What is fetched so far, and what is shown if nothing is fetched, is what is stored.
Fresh(s) ==
    /\ fetch[s].phase \in {"count", "answer"} =>
          /\ fetch[s].rows = InCache!Newest(InCache!Of(s))
          /\ fetch[s].read = fetch[s].rows \cap InCache!ReadRows
    /\ fetch[s].phase = "answer" =>
          fetch[s].unread = InCache!Cardinality(InCache!Of(s) \ InCache!ReadRows)
    /\ fetch[s].phase = "none" /\ cache[s].loaded =>
          /\ cache[s].rows = InCache!Newest(InCache!Of(s))
          /\ cache[s].read = cache[s].rows \cap InCache!ReadRows
          /\ cache[s].unread = InCache!Cardinality(InCache!Of(s) \ InCache!ReadRows)

UpToDate == \A s \in Severities \ excused : Pending(s) \/ Fresh(s)

NoticesInv == NoticesTyped /\ RowsKnown /\ Announced /\ UpToDate

LEMMA NoticesInit == InCache!Init => NoticesInv
<1> SUFFICES ASSUME InCache!Init PROVE NoticesInv
    OBVIOUS
<1>1. NoticesTyped
    BY DEF InCache!Init, InCache!Empty, InCache!NoFetch, NoticesTyped, PageRecord, Fetched,
           Severities
<1>2. RowsKnown /\ Announced
    BY DEF InCache!Init, InCache!Empty, InCache!NoFetch, RowsKnown, Announced, Severities
<1>3. UpToDate
    BY DEF InCache!Init, InCache!Empty, InCache!NoFetch, UpToDate, Fresh, Severities
<1>4. QED
    BY <1>1, <1>2, <1>3 DEF NoticesInv

(***************************************************************************)
(* The table.                                                               *)
(***************************************************************************)

\* The library's operator under the name that it has in the instance.
LEMMA OneCardinality ==
    ASSUME NEW S
    PROVE  InCache!Cardinality(S) = Cardinality(S)
BY Zenon DEF InCache!Cardinality, Cardinality, InCache!IsFiniteSet, IsFiniteSet

LEMMA PagesFit ==
    ASSUME NoticesTyped, NEW s
    PROVE  /\ InCache!Of(s) \subseteq Nat /\ IsFiniteSet(InCache!Of(s))
           /\ InCache!Newest(InCache!Of(s)) \subseteq InCache!Of(s)
           /\ InCache!Cardinality(InCache!Of(s) \ InCache!ReadRows) \in Nat
<1>1. Len(table) \in Nat /\ DOMAIN table = 1..Len(table)
    BY DEF NoticesTyped
<1>2. IsFiniteSet(DOMAIN table)
    BY <1>1, FS_Interval
<1>3. InCache!Of(s) \subseteq DOMAIN table
    BY DEF InCache!Of
<1>4. IsFiniteSet(InCache!Of(s)) /\ IsFiniteSet(InCache!Of(s) \ InCache!ReadRows)
    <2>1. InCache!Of(s) \ InCache!ReadRows \subseteq DOMAIN table
        BY <1>3
    <2>2. QED
        BY <1>2, <1>3, <2>1, FS_Subset
<1>5. InCache!Cardinality(InCache!Of(s) \ InCache!ReadRows) \in Nat
    BY <1>4, FS_CardinalityType, OneCardinality
<1>6. InCache!Newest(InCache!Of(s)) \subseteq InCache!Of(s)
    BY DEF InCache!Newest
<1>7. QED
    BY <1>1, <1>3, <1>4, <1>5, <1>6

\* A query whose rows, page and fetch are left as they are stays as fresh as it was.
LEMMA FreshStays ==
    ASSUME NEW s \in Severities, Fresh(s), cache'[s] = cache[s], fetch'[s] = fetch[s],
           \A n : n \in InCache!Of(s)' <=> n \in InCache!Of(s),
           \A n \in InCache!Of(s) : n \in InCache!ReadRows' <=> n \in InCache!ReadRows
    PROVE  Fresh(s)'
<1>1. InCache!Of(s)' = InCache!Of(s)
    OBVIOUS
<1>2. InCache!Of(s)' \ InCache!ReadRows' = InCache!Of(s) \ InCache!ReadRows
    OBVIOUS
<1>3. InCache!Newest(InCache!Of(s))' = InCache!Newest(InCache!Of(s))
    BY <1>1 DEF InCache!Newest
<1>4. InCache!Newest(InCache!Of(s)) \subseteq InCache!Of(s)
    BY DEF InCache!Newest
<1>5. \A P \in SUBSET InCache!Of(s) : P \cap InCache!ReadRows' = P \cap InCache!ReadRows
    OBVIOUS
<1>6. InCache!Newest(InCache!Of(s)) \cap InCache!ReadRows'
      = InCache!Newest(InCache!Of(s)) \cap InCache!ReadRows
    BY <1>4, <1>5
<1>7. QED
    BY <1>1, <1>2, <1>3, <1>6 DEF Fresh

(***************************************************************************)
(* The steps of the server.                                                 *)
(***************************************************************************)

LEMMA NoticeCreateKeeps ==
    ASSUME NoticesInv, NEW s \in Severities, InCache!Create(s)
    PROVE  NoticesInv'
<1> DEFINE len == Len(table)
           added == [severity |-> s, read |-> FALSE]
<1>1. /\ table' = Append(table, added) /\ added \in TableRow
      /\ UNCHANGED <<pushed, events, cache, fetch, mutations, marks, failed, excused>>
    BY DEF InCache!Create, TableRow
<1>2. table \in Seq(TableRow) /\ pushed \subseteq DOMAIN table
    BY DEF NoticesInv, NoticesTyped
<1>3. /\ len \in Nat /\ DOMAIN table = 1..len /\ DOMAIN table' = 1..(len + 1)
      /\ \A n \in DOMAIN table : table'[n] = table[n]
      /\ table'[len + 1] = added /\ table' \in Seq(TableRow)
    BY <1>1, <1>2
<1> HIDE DEF len, added
<1>4. /\ len + 1 \in DOMAIN table' \ pushed /\ table'[len + 1].severity = s
      /\ table'[len + 1].read = FALSE /\ DOMAIN table' = DOMAIN table \cup {len + 1}
    BY <1>2, <1>3 DEF added
<1>5. \A t : /\ InCache!Of(t) \subseteq InCache!Of(t)'
             /\ t # s => \A n : n \in InCache!Of(t)' <=> n \in InCache!Of(t)
    BY <1>3, <1>4 DEF InCache!Of
<1>6. \A n \in DOMAIN table : n \in InCache!ReadRows' <=> n \in InCache!ReadRows
    BY <1>3, <1>4 DEF InCache!ReadRows
<1>7. NoticesTyped'
    BY <1>1, <1>3, <1>4 DEF NoticesInv, NoticesTyped
<1>8. RowsKnown' /\ Announced'
    <2>1. RowsKnown'
        BY <1>1, <1>3, <1>4, <1>5 DEF NoticesInv, RowsKnown
    <2>2. Announced'
        BY <1>1 DEF NoticesInv, Announced, IsSummary
    <2>3. QED
        BY <2>1, <2>2
<1>9. UpToDate'
    <2>1. Pending(s)'
        BY <1>1, <1>4 DEF Pending
    <2>2. ASSUME NEW t \in Severities \ excused', t # s PROVE Pending(t)' \/ Fresh(t)'
        <3>1. CASE Pending(t)
            BY <1>1, <1>3, <1>4, <3>1 DEF Pending, IsSummary
        <3>2. CASE ~Pending(t)
            <4>1. Fresh(t)
                BY <1>1, <2>2, <3>2 DEF NoticesInv, UpToDate
            <4>2. \A n \in InCache!Of(t) : n \in InCache!ReadRows' <=> n \in InCache!ReadRows
                BY <1>6 DEF InCache!Of
            <4>3. QED
                BY <1>1, <1>5, <2>2, <4>1, <4>2, FreshStays
        <3>3. QED
            BY <3>1, <3>2
    <2>3. QED
        BY <2>1, <2>2 DEF UpToDate
<1>10. QED
    BY <1>7, <1>8, <1>9 DEF NoticesInv

\* A step that leaves the table alone.
LEMMA SameTable ==
    ASSUME table' = table
    PROVE  /\ \A s : InCache!Of(s)' = InCache!Of(s)
           /\ InCache!ReadRows' = InCache!ReadRows
BY DEF InCache!Of, InCache!ReadRows

LEMMA NoticePushKeeps ==
    ASSUME NoticesInv, NEW n \in InCache!Rows, InCache!Push(n)
    PROVE  NoticesInv'
<1> PICK s : s = table[n].severity
    OBVIOUS
<1> DEFINE len == Len(events)
           e == [type |-> "NOTIFICATION", row |-> n, severity |-> s, read |-> FALSE]
           f == [type |-> "SUMMARY", severity |-> s]
<1>1. /\ n \in DOMAIN table \ pushed /\ events' = events \o <<e, f>> /\ pushed' = pushed \cup {n}
      /\ UNCHANGED <<table, cache, fetch, mutations, marks, failed, excused>>
    BY DEF InCache!Push, InCache!Notification
<1>2. table \in Seq(TableRow) /\ pushed \subseteq DOMAIN table /\ events \in Seq(Event)
    BY DEF NoticesInv, NoticesTyped
<1>3. s \in Severities /\ n \in Nat /\ n \in InCache!Of(s)
    <2>1. n \in Nat /\ table[n] \in TableRow
        BY <1>1, <1>2
    <2>2. QED
        BY <1>1, <2>1 DEF TableRow, InCache!Of
<1>4. /\ e \in Event /\ e.type = "NOTIFICATION" /\ e.severity = s /\ e.row = n
      /\ f \in Event /\ f.type = "SUMMARY" /\ f.severity = s
    BY <1>3 DEF Event
<1> HIDE DEF e, f
<1>5. /\ len \in Nat /\ DOMAIN events = 1..len /\ DOMAIN events' = 1..(len + 2)
      /\ \A i \in 1..len : events'[i] = events[i]
      /\ events'[len + 1] = e /\ events'[len + 2] = f /\ events' \in Seq(Event)
    BY <1>1, <1>2, <1>4
<1> HIDE DEF len
<1>6. NoticesTyped'
    BY <1>1, <1>5 DEF NoticesInv, NoticesTyped
<1>7. RowsKnown'
    <2>1. \A i \in DOMAIN events' : events'[i].type = "NOTIFICATION" =>
              events'[i].row \in InCache!Of(events'[i].severity)
        <3>1. \A i \in DOMAIN events' : i \in 1..len \/ events'[i] \in {e, f}
            BY <1>5
        <3>2. QED
            BY <1>3, <1>4, <1>5, <3>1 DEF NoticesInv, RowsKnown
    <2>2. QED
        BY <1>1, <2>1, SameTable DEF NoticesInv, RowsKnown
<1>8. Announced'
    <2>1. ASSUME NEW i \in DOMAIN events', events'[i].type = "NOTIFICATION",
                 events'[i].severity \notin excused'
          PROVE  \E j \in DOMAIN events' : j > i /\ IsSummary(events'[j], events'[i].severity)
        <3>1. CASE i \in 1..len
            <4>1. PICK j \in DOMAIN events : j > i /\ IsSummary(events[j], events[i].severity)
                BY <1>1, <1>5, <2>1, <3>1 DEF NoticesInv, Announced
            <4>2. QED
                BY <1>5, <3>1, <4>1
        <3>2. CASE i = len + 1
            BY <1>4, <1>5, <3>2 DEF IsSummary
        <3>3. CASE i = len + 2
            BY <1>4, <1>5, <2>1, <3>3
        <3>4. QED
            BY <1>5, <3>1, <3>2, <3>3
    <2>2. QED
        BY <2>1 DEF Announced
<1>9. UpToDate'
    <2>1. Pending(s)'
        BY <1>4, <1>5 DEF Pending, IsSummary
    <2>2. ASSUME NEW t \in Severities \ excused', t # s PROVE Pending(t)' \/ Fresh(t)'
        <3>1. CASE Pending(t)
            <4>1. CASE \E m \in DOMAIN table \ pushed : table[m].severity = t
                BY <1>1, <2>2, <4>1 DEF Pending
            <4>2. CASE \E i \in DOMAIN events : IsSummary(events[i], t)
                BY <1>5, <4>2 DEF Pending
            <4>3. CASE \E m \in mutations : t \in m.of
                BY <1>1, <4>3 DEF Pending
            <4>4. QED
                BY <3>1, <4>1, <4>2, <4>3 DEF Pending
        <3>2. CASE ~Pending(t)
            BY <1>1, <2>2, <3>2, SameTable, FreshStays DEF NoticesInv, UpToDate
        <3>3. QED
            BY <3>1, <3>2
    <2>3. QED
        BY <2>1, <2>2 DEF UpToDate
<1>10. QED
    BY <1>6, <1>7, <1>8, <1>9 DEF NoticesInv

\* A step that leaves the table and the query alone, and ends nothing that is under way.
LEMMA OtherFresh ==
    ASSUME NoticesInv, table' = table, excused \subseteq excused',
           NEW t \in Severities \ excused', cache'[t] = cache[t], fetch'[t] = fetch[t],
           Pending(t) => Pending(t)'
    PROVE  Pending(t)' \/ Fresh(t)'
<1>1. CASE Pending(t)
    BY <1>1
<1>2. CASE ~Pending(t)
    <2>1. Fresh(t)
        BY <1>2 DEF NoticesInv, UpToDate
    <2>2. QED
        BY <2>1, SameTable, FreshStays
<1>3. QED
    BY <1>1, <1>2

LEMMA PollKeeps ==
    ASSUME NoticesInv, NEW n \in InCache!Rows, InCache!Poll(n)
    PROVE  NoticesInv'
<1> PICK s : s = table[n].severity
    OBVIOUS
<1> DEFINE len == Len(events)
           e == InCache!Notification(n, table[n].read)
<1>1. /\ n \in DOMAIN table \ pushed /\ events' = Append(events, e) /\ pushed' = pushed \cup {n}
      /\ excused' = excused \cup {s}
      /\ UNCHANGED <<table, cache, fetch, mutations, marks, failed>>
    BY DEF InCache!Poll
<1>2. table \in Seq(TableRow) /\ pushed \subseteq DOMAIN table /\ events \in Seq(Event)
    BY DEF NoticesInv, NoticesTyped
<1>3. s \in Severities /\ n \in Nat /\ n \in InCache!Of(s) /\ table[n].read \in BOOLEAN
    <2>1. n \in Nat /\ table[n] \in TableRow
        BY <1>1, <1>2
    <2>2. QED
        BY <1>1, <2>1 DEF TableRow, InCache!Of
<1>4. e \in Event /\ e.type = "NOTIFICATION" /\ e.severity = s /\ e.row = n
    BY <1>3 DEF Event, InCache!Notification
<1> HIDE DEF e
<1>5. /\ len \in Nat /\ DOMAIN events = 1..len /\ DOMAIN events' = 1..(len + 1)
      /\ \A i \in 1..len : events'[i] = events[i]
      /\ events'[len + 1] = e /\ events' \in Seq(Event)
    BY <1>1, <1>2, <1>4
<1> HIDE DEF len
<1>6. NoticesTyped'
    BY <1>1, <1>5 DEF NoticesInv, NoticesTyped
<1>7. RowsKnown'
    <2>1. \A i \in DOMAIN events' : events'[i].type = "NOTIFICATION" =>
              events'[i].row \in InCache!Of(events'[i].severity)
        BY <1>3, <1>4, <1>5 DEF NoticesInv, RowsKnown
    <2>2. QED
        BY <1>1, <2>1, SameTable DEF NoticesInv, RowsKnown
<1>8. Announced'
    <2>1. ASSUME NEW i \in DOMAIN events', events'[i].type = "NOTIFICATION",
                 events'[i].severity \notin excused'
          PROVE  \E j \in DOMAIN events' : j > i /\ IsSummary(events'[j], events'[i].severity)
        <3>1. i \in 1..len
            BY <1>1, <1>4, <1>5, <2>1
        <3>2. PICK j \in DOMAIN events : j > i /\ IsSummary(events[j], events[i].severity)
            BY <1>1, <1>5, <2>1, <3>1 DEF NoticesInv, Announced
        <3>3. QED
            BY <1>5, <3>1, <3>2
    <2>2. QED
        BY <2>1 DEF Announced
<1>9. UpToDate'
    <2>1. ASSUME NEW t \in Severities \ excused', Pending(t) PROVE Pending(t)'
        <3>1. CASE \E m \in DOMAIN table \ pushed : table[m].severity = t
            BY <1>1, <2>1, <3>1 DEF Pending
        <3>2. CASE \E i \in DOMAIN events : IsSummary(events[i], t)
            BY <1>5, <3>2 DEF Pending
        <3>3. CASE \E m \in mutations : t \in m.of
            BY <1>1, <3>3 DEF Pending
        <3>4. QED
            BY <2>1, <3>1, <3>2, <3>3 DEF Pending
    <2>2. QED
        BY <1>1, <2>1, OtherFresh DEF UpToDate
<1>10. QED
    BY <1>6, <1>7, <1>8, <1>9 DEF NoticesInv

\* A step of the fetch of one query.
LEMMA FetchKeeps ==
    ASSUME NoticesInv, NEW s \in Severities,
           UNCHANGED <<table, pushed, events, mutations, marks, excused>>,
           cache' \in [Severities -> PageRecord], fetch' \in [Severities -> Fetched],
           cache'[s].rows \subseteq InCache!Of(s), fetch'[s].rows \subseteq InCache!Of(s),
           \A t \in Severities : t # s => cache'[t] = cache[t] /\ fetch'[t] = fetch[t],
           s \in excused \/ Pending(s) \/ Fresh(s)'
    PROVE  NoticesInv'
<1>1. NoticesTyped'
    BY DEF NoticesInv, NoticesTyped
<1>2. RowsKnown'
    <2>1. \A t \in Severities : /\ cache'[t].rows \subseteq InCache!Of(t)
                                /\ fetch'[t].rows \subseteq InCache!Of(t)
        BY DEF NoticesInv, RowsKnown
    <2>2. QED
        BY <2>1, SameTable DEF NoticesInv, RowsKnown
<1>3. Announced'
    BY DEF NoticesInv, Announced
<1>4. \A t : Pending(t)' <=> Pending(t)
    BY DEF Pending
<1>5. UpToDate'
    <2>1. ASSUME NEW t \in Severities \ excused', t # s PROVE Pending(t)' \/ Fresh(t)'
        BY <1>4, <2>1, OtherFresh
    <2>2. QED
        BY <1>4, <2>1 DEF UpToDate
<1>6. QED
    BY <1>1, <1>2, <1>3, <1>5 DEF NoticesInv

LEMMA RestartKeeps ==
    ASSUME NoticesInv, NEW s \in Severities, InCache!FirstFetch(s) \/ InCache!Retry(s)
    PROVE  NoticesInv'
<1>1. /\ fetch \in [Severities -> Fetched] /\ cache \in [Severities -> PageRecord]
      /\ cache[s].rows \subseteq InCache!Of(s) /\ fetch[s].rows \subseteq InCache!Of(s)
    BY DEF NoticesInv, NoticesTyped, RowsKnown
<1>2. /\ UNCHANGED <<table, pushed, events, cache, mutations, marks, excused>>
      /\ \/ fetch' = [fetch EXCEPT ![s] = [fetch[s] EXCEPT !.phase = "list"]]
         \/ fetch' = [fetch EXCEPT ![s] = [InCache!NoFetch EXCEPT !.phase = "list"]]
    BY <1>1 DEF InCache!FirstFetch, InCache!Retry
<1>3. /\ fetch' \in [Severities -> Fetched] /\ fetch'[s].phase = "list"
      /\ fetch'[s].rows \subseteq InCache!Of(s)
      /\ \A t \in Severities : t # s => fetch'[t] = fetch[t]
    <2>1. CASE fetch' = [fetch EXCEPT ![s] = [fetch[s] EXCEPT !.phase = "list"]]
        BY <1>1, <2>1 DEF Fetched
    <2>2. CASE fetch' = [fetch EXCEPT ![s] = [InCache!NoFetch EXCEPT !.phase = "list"]]
        BY <1>1, <2>2 DEF Fetched, InCache!NoFetch
    <2>3. QED
        BY <1>2, <2>1, <2>2
<1>4. Fresh(s)'
    BY <1>3 DEF Fresh
<1>5. QED
    BY <1>1, <1>2, <1>3, <1>4, FetchKeeps

LEMMA ListKeeps ==
    ASSUME NoticesInv, NEW s \in Severities,
           InCache!ListRows(s) \/ InCache!ListCount(s) \/ InCache!Answer(s)
    PROVE  NoticesInv'
<1>1. /\ fetch \in [Severities -> Fetched] /\ cache \in [Severities -> PageRecord]
      /\ cache[s].rows \subseteq InCache!Of(s) /\ fetch[s].rows \subseteq InCache!Of(s)
    BY DEF NoticesInv, NoticesTyped, RowsKnown
<1>2. PICK rows, read, unread : /\ rows = InCache!Newest(InCache!Of(s))
                                /\ read = rows \cap InCache!ReadRows
                                /\ unread = InCache!Cardinality(InCache!Of(s) \ InCache!ReadRows)
    OBVIOUS
<1>3. /\ rows \subseteq InCache!Of(s) /\ rows \subseteq Nat /\ read \subseteq Nat
      /\ unread \in Nat
    <2>1. NoticesTyped
        BY DEF NoticesInv
    <2>2. QED
        BY <1>2, <2>1, PagesFit
<1>4. UNCHANGED <<table, pushed, events, mutations, marks, excused>>
    BY DEF InCache!ListRows, InCache!ListCount, InCache!Answer
<1>5. s \in excused \/ Pending(s) \/ Fresh(s)
    BY DEF NoticesInv, UpToDate
<1>6. /\ InCache!Of(s)' = InCache!Of(s) /\ InCache!ReadRows' = InCache!ReadRows
      /\ InCache!Newest(InCache!Of(s))' = rows
    <2>1. InCache!Of(s)' = InCache!Of(s) /\ InCache!ReadRows' = InCache!ReadRows
        BY <1>4, SameTable
    <2>2. QED
        BY <1>2, <2>1 DEF InCache!Newest
<1>7. Fresh(s)' <=>
         /\ fetch'[s].phase \in {"count", "answer"} =>
               fetch'[s].rows = rows /\ fetch'[s].read = fetch'[s].rows \cap InCache!ReadRows
         /\ fetch'[s].phase = "answer" => fetch'[s].unread = unread
         /\ fetch'[s].phase = "none" /\ cache'[s].loaded =>
               /\ cache'[s].rows = rows /\ cache'[s].read = cache'[s].rows \cap InCache!ReadRows
               /\ cache'[s].unread = unread
    BY <1>2, <1>6 DEF Fresh
<1>8. CASE InCache!ListRows(s)
    <2> DEFINE r == [fetch[s] EXCEPT !.phase = "count", !.rows = rows, !.read = read]
    <2>1. fetch' = [fetch EXCEPT ![s] = r] /\ cache' = cache
        BY <1>2, <1>8 DEF InCache!ListRows
    <2>2. r \in Fetched /\ r.phase = "count" /\ r.rows = rows /\ r.read = read
        BY <1>1, <1>3 DEF Fetched
    <2> HIDE DEF r
    <2>3. /\ fetch' \in [Severities -> Fetched] /\ fetch'[s] = r
          /\ \A t \in Severities : t # s => fetch'[t] = fetch[t]
        BY <1>1, <2>1, <2>2
    <2>4. Fresh(s)'
        <3>1. /\ fetch'[s].phase = "count" /\ fetch'[s].rows = rows
              /\ fetch'[s].read = fetch'[s].rows \cap InCache!ReadRows
            BY <1>2, <2>2, <2>3
        <3>2. QED
            BY <1>7, <3>1
    <2>5. QED
        BY <1>1, <1>3, <1>4, <2>1, <2>2, <2>3, <2>4, FetchKeeps
<1>9. CASE InCache!ListCount(s)
    <2> DEFINE r == [fetch[s] EXCEPT !.phase = "answer", !.unread = unread]
    <2>1. fetch' = [fetch EXCEPT ![s] = r] /\ cache' = cache /\ fetch[s].phase = "count"
        BY <1>2, <1>9 DEF InCache!ListCount
    <2>2. /\ r \in Fetched /\ r.phase = "answer" /\ r.rows = fetch[s].rows
          /\ r.read = fetch[s].read /\ r.unread = unread
        BY <1>1, <1>3 DEF Fetched
    <2> HIDE DEF r
    <2>3. /\ fetch' \in [Severities -> Fetched] /\ fetch'[s] = r
          /\ \A t \in Severities : t # s => fetch'[t] = fetch[t]
        BY <1>1, <2>1, <2>2
    <2>4. ASSUME Fresh(s) PROVE Fresh(s)'
        BY <1>2, <1>7, <2>1, <2>2, <2>3, <2>4 DEF Fresh
    <2>5. QED
        BY <1>1, <1>4, <1>5, <2>1, <2>2, <2>3, <2>4, FetchKeeps
<1>10. CASE InCache!Answer(s)
    <2> DEFINE r == [loaded |-> TRUE, rows |-> fetch[s].rows, read |-> fetch[s].read,
                     unread |-> fetch[s].unread]
    <2>1. /\ cache' = [cache EXCEPT ![s] = r] /\ fetch' = [fetch EXCEPT ![s] = InCache!NoFetch]
          /\ fetch[s].phase = "answer"
        BY <1>10 DEF InCache!Answer
    <2>2. /\ r \in PageRecord /\ r.rows = fetch[s].rows /\ r.read = fetch[s].read
          /\ r.unread = fetch[s].unread
          /\ InCache!NoFetch \in Fetched /\ InCache!NoFetch.phase = "none"
          /\ InCache!NoFetch.rows = {}
        BY <1>1 DEF PageRecord, Fetched, InCache!NoFetch
    <2> HIDE DEF r
    <2>3. /\ cache' \in [Severities -> PageRecord] /\ cache'[s] = r
          /\ fetch' \in [Severities -> Fetched] /\ fetch'[s] = InCache!NoFetch
          /\ \A t \in Severities : t # s => cache'[t] = cache[t] /\ fetch'[t] = fetch[t]
        BY <1>1, <2>1, <2>2
    <2>4. ASSUME Fresh(s) PROVE Fresh(s)'
        BY <1>2, <1>7, <2>1, <2>2, <2>3, <2>4 DEF Fresh
    <2>5. QED
        BY <1>1, <1>4, <1>5, <2>2, <2>3, <2>4, FetchKeeps
<1>11. QED
    BY <1>8, <1>9, <1>10

\* A call marks rows of the queries that it is about, and of no other.
LEMMA MarkReadKeeps ==
    ASSUME NoticesInv, NEW m \in mutations, InCache!MarkRead(m)
    PROVE  NoticesInv'
<1> PICK hit : hit = IF m.all THEN DOMAIN table ELSE m.rows
    OBVIOUS
<1> DEFINE d == [m EXCEPT !.done = TRUE]
<1>1. /\ table' = [n \in DOMAIN table |->
                      IF n \in hit THEN [table[n] EXCEPT !.read = TRUE] ELSE table[n]]
      /\ mutations' = (mutations \ {m}) \cup {d}
      /\ UNCHANGED <<pushed, events, cache, fetch, marks, failed, excused>>
    BY DEF InCache!MarkRead
<1>2. /\ table \in Seq(TableRow) /\ pushed \subseteq DOMAIN table /\ mutations \subseteq Mutation
      /\ IF m.all THEN m.of = Severities
         ELSE \A n \in m.rows : n \in DOMAIN table /\ table[n].severity \in m.of
    BY DEF NoticesInv, NoticesTyped, RowsKnown
<1>3. /\ d \in Mutation /\ d.of = m.of /\ d.all = m.all /\ d.rows = m.rows
      /\ mutations' \subseteq Mutation
    BY <1>1, <1>2 DEF Mutation
<1>4. \A n \in DOMAIN table : n \in hit => table[n].severity \in m.of
    <2>1. \A n \in DOMAIN table : table[n] \in TableRow
        BY <1>2
    <2>2. \A n \in DOMAIN table : table[n].severity \in Severities
        BY <2>1 DEF TableRow
    <2>3. QED
        BY <1>2, <2>2
<1> HIDE DEF d
<1>5. /\ DOMAIN table' = DOMAIN table /\ \A n \in DOMAIN table : table'[n] \in TableRow
      /\ \A n \in DOMAIN table : /\ table'[n].severity = table[n].severity
                                 /\ n \notin hit => table'[n] = table[n]
    <2>1. \A r \in TableRow : LET q == [r EXCEPT !.read = TRUE]
                             IN  q \in TableRow /\ q.severity = r.severity
        BY DEF TableRow
    <2>2. \A n \in DOMAIN table : table[n] \in TableRow
        BY <1>2
    <2>3. QED
        BY <1>1, <2>1, <2>2
<1>6. \A t : InCache!Of(t)' = InCache!Of(t)
    BY <1>5 DEF InCache!Of
<1>7. NoticesTyped'
    <2>1. PICK len \in Nat : DOMAIN table = 1..len
        BY <1>2
    <2>2. table' = [n \in 1..len |-> table'[n]] /\ \A n \in 1..len : table'[n] \in TableRow
        BY <1>1, <1>5, <2>1
    <2>3. table' \in Seq(TableRow)
        BY <2>2
    <2>4. QED
        BY <1>1, <1>3, <1>5, <2>3 DEF NoticesInv, NoticesTyped
<1>8. RowsKnown'
    <2>1. \A o \in mutations' : IF o.all THEN o.of = Severities
              ELSE \A n \in o.rows : n \in DOMAIN table' /\ table'[n].severity \in o.of
        <3>1. \A o \in mutations' : IF o.all THEN o.of = Severities
                  ELSE \A n \in o.rows : n \in DOMAIN table /\ table[n].severity \in o.of
            BY <1>1, <1>2, <1>3 DEF NoticesInv, RowsKnown
        <3>2. QED
            BY <1>5, <3>1
    <2>2. QED
        BY <1>1, <1>6, <2>1 DEF NoticesInv, RowsKnown
<1>9. Announced'
    BY <1>1 DEF NoticesInv, Announced
<1>10. UpToDate'
    <2>1. ASSUME NEW t \in Severities \ excused', ~Pending(t)' PROVE Fresh(t)'
        <3>1. t \notin m.of
            BY <1>1, <1>3, <2>1 DEF Pending
        <3>2. ~Pending(t)
            BY <1>1, <1>3, <1>5, <2>1 DEF Pending
        <3>3. Fresh(t)
            BY <1>1, <2>1, <3>2 DEF NoticesInv, UpToDate
        <3>4. \A n \in InCache!Of(t) : n \in InCache!ReadRows' <=> n \in InCache!ReadRows
            BY <1>4, <1>5, <3>1 DEF InCache!Of, InCache!ReadRows
        <3>5. QED
            BY <1>1, <1>6, <2>1, <3>3, <3>4, FreshStays
    <2>2. QED
        BY <2>1 DEF UpToDate
<1>11. QED
    BY <1>7, <1>8, <1>9, <1>10 DEF NoticesInv

(***************************************************************************)
(* The steps of the client.                                                 *)
(***************************************************************************)

\* The first event is taken off the stream.
LEMMA TailOf ==
    ASSUME NoticesInv, events # <<>>, events' = Tail(events)
    PROVE  /\ 1 \in DOMAIN events /\ Head(events) = events[1] /\ events[1] \in Event
           /\ events' \in Seq(Event)
           /\ \A i \in DOMAIN events' : i + 1 \in DOMAIN events /\ events'[i] = events[i + 1]
           /\ \A i \in DOMAIN events :
                  i = 1 \/ (i - 1 \in DOMAIN events' /\ events'[i - 1] = events[i])
           /\ excused \subseteq excused' => Announced'
<1>1. PICK len \in Nat : len = Len(events) /\ DOMAIN events = 1..len /\ len # 0
    BY DEF NoticesInv, NoticesTyped
<1>2. /\ events \in Seq(Event) /\ Len(events') = len - 1 /\ DOMAIN events' = 1..(len - 1)
      /\ \A i \in 1..(len - 1) : events'[i] = events[i + 1]
    BY <1>1 DEF NoticesInv, NoticesTyped
<1>3. /\ 1 \in DOMAIN events /\ Head(events) = events[1] /\ events[1] \in Event
      /\ events' \in Seq(Event)
    BY <1>1, <1>2
<1>4. \A i \in DOMAIN events' : i + 1 \in DOMAIN events /\ events'[i] = events[i + 1]
    BY <1>1, <1>2
<1>5. \A i \in DOMAIN events : i = 1 \/ (i - 1 \in DOMAIN events' /\ events'[i - 1] = events[i])
    BY <1>1, <1>2
<1>6. ASSUME excused \subseteq excused' PROVE Announced'
    <2>1. ASSUME NEW i \in DOMAIN events', events'[i].type = "NOTIFICATION",
                 events'[i].severity \notin excused'
          PROVE  \E j \in DOMAIN events' : j > i /\ IsSummary(events'[j], events'[i].severity)
        <3>1. PICK j \in DOMAIN events :
                  j > i + 1 /\ IsSummary(events[j], events[i + 1].severity)
            BY <1>4, <1>6, <2>1 DEF NoticesInv, Announced
        <3>2. j - 1 \in DOMAIN events' /\ j - 1 > i /\ events'[j - 1] = events[j]
            BY <1>1, <1>2, <2>1, <3>1
        <3>3. QED
            BY <1>4, <2>1, <3>1, <3>2
    <2>2. QED
        BY <2>1 DEF Announced
<1>7. QED
    BY <1>3, <1>4, <1>5, <1>6

\* A row that is streamed is shown at once; the summary that comes after it sets the page
\* right, whatever it met.
LEMMA OnNotificationKeeps ==
    ASSUME NoticesInv, InCache!OnNotification
    PROVE  NoticesInv'
<1> PICK e : e = Head(events)
    OBVIOUS
<1> PICK s : s = e.severity
    OBVIOUS
<1> DEFINE c == InCache!Prepend(cache[s], e)
<1>1. /\ events # <<>> /\ e.type = "NOTIFICATION" /\ cache' = [cache EXCEPT ![s] = c]
      /\ events' = Tail(events)
      /\ UNCHANGED <<table, pushed, fetch, mutations, marks, failed, excused>>
    BY DEF InCache!OnNotification
<1>2. /\ e = events[1] /\ 1 \in DOMAIN events /\ e \in Event
      /\ events' \in Seq(Event) /\ Announced'
    BY <1>1, TailOf
<1>3. s \in Severities /\ e.row \in Nat /\ e.read \in BOOLEAN /\ e.row \in InCache!Of(s)
    <2>1. e.row \in InCache!Of(s)
        BY <1>1, <1>2 DEF NoticesInv, RowsKnown
    <2>2. QED
        BY <1>1, <1>2, <2>1 DEF Event
<1>4. /\ cache \in [Severities -> PageRecord] /\ cache[s] \in PageRecord
      /\ cache[s].rows \subseteq InCache!Of(s)
    BY <1>3 DEF NoticesInv, NoticesTyped, RowsKnown
<1>5. c \in PageRecord /\ c.rows \subseteq InCache!Of(s)
    <2>1. CASE ~cache[s].loaded \/ e.row \in cache[s].rows
        BY <1>4, <2>1 DEF InCache!Prepend
    <2>2. CASE ~(~cache[s].loaded \/ e.row \in cache[s].rows)
        <3>1. PICK read, unread :
                  c = [cache[s] EXCEPT !.rows = cache[s].rows \cup {e.row}, !.read = read,
                                       !.unread = unread]
                  /\ read \in SUBSET Nat /\ unread \in Nat
            <4>1. cache[s].read \in SUBSET Nat /\ cache[s].unread \in Nat
                BY <1>4 DEF PageRecord
            <4>2. CASE e.read
                <5>1. c = [cache[s] EXCEPT !.rows = cache[s].rows \cup {e.row},
                                           !.read = cache[s].read \cup {e.row},
                                           !.unread = cache[s].unread]
                    BY <2>2, <4>2 DEF InCache!Prepend
                <5> HIDE DEF c
                <5>2. cache[s].read \cup {e.row} \in SUBSET Nat
                    BY <1>3, <4>1
                <5>3. QED
                    BY <4>1, <5>1, <5>2
            <4>3. CASE ~e.read
                <5>1. c = [cache[s] EXCEPT !.rows = cache[s].rows \cup {e.row},
                                           !.read = cache[s].read,
                                           !.unread = cache[s].unread + 1]
                    BY <2>2, <4>3 DEF InCache!Prepend
                <5> HIDE DEF c
                <5>2. cache[s].unread + 1 \in Nat
                    BY <4>1
                <5>3. QED
                    BY <4>1, <5>1, <5>2
            <4>4. QED
                BY <1>3, <4>2, <4>3
        <3> HIDE DEF c
        <3> DEFINE p == cache[s]
                   rows == cache[s].rows \cup {e.row}
        <3>2. p \in PageRecord /\ c = [p EXCEPT !.rows = rows, !.read = read, !.unread = unread]
            BY <1>4, <3>1
        <3>3. rows \in SUBSET Nat /\ rows \subseteq InCache!Of(s)
            BY <1>3, <1>4 DEF PageRecord
        <3> HIDE DEF p, rows
        <3>4. c \in PageRecord
            BY <3>1, <3>2, <3>3 DEF PageRecord
        <3>5. c.rows = rows
            BY <3>2 DEF PageRecord
        <3>6. QED
            BY <3>3, <3>4, <3>5
    <2>3. QED
        BY <2>1, <2>2
<1> HIDE DEF c
<1>6. /\ cache' \in [Severities -> PageRecord] /\ cache'[s].rows \subseteq InCache!Of(s)
      /\ \A t \in Severities : t # s => cache'[t] = cache[t]
    BY <1>1, <1>3, <1>4, <1>5
<1>7. NoticesTyped'
    BY <1>1, <1>2, <1>6 DEF NoticesInv, NoticesTyped
<1>8. RowsKnown'
    <2>1. \A t \in Severities : /\ cache'[t].rows \subseteq InCache!Of(t)
                                /\ fetch'[t].rows \subseteq InCache!Of(t)
        BY <1>1, <1>6 DEF NoticesInv, RowsKnown
    <2>2. \A i \in DOMAIN events' : events'[i].type = "NOTIFICATION" =>
              events'[i].row \in InCache!Of(events'[i].severity)
        BY <1>1, TailOf DEF NoticesInv, RowsKnown
    <2>3. QED
        BY <1>1, <2>1, <2>2, SameTable DEF NoticesInv, RowsKnown
<1>9. UpToDate'
    <2>1. ASSUME NEW t \in Severities, Pending(t) PROVE Pending(t)'
        <3>1. ASSUME NEW i \in DOMAIN events, IsSummary(events[i], t) PROVE Pending(t)'
            <4>1. i # 1
                BY <1>1, <1>2, <3>1 DEF IsSummary
            <4>2. i - 1 \in DOMAIN events' /\ events'[i - 1] = events[i]
                BY <1>1, <4>1, TailOf
            <4>3. QED
                BY <3>1, <4>2 DEF Pending, IsSummary
        <3>2. QED
            BY <1>1, <2>1, <3>1 DEF Pending
    <2>2. ASSUME s \notin excused PROVE Pending(s)
        BY <1>1, <1>2, <2>2 DEF NoticesInv, Announced, Pending
    <2>3. ASSUME NEW t \in Severities \ excused' PROVE Pending(t)' \/ Fresh(t)'
        <3>1. CASE t = s
            BY <1>1, <1>3, <2>1, <2>2, <3>1
        <3>2. CASE t # s
            BY <1>1, <1>6, <2>1, <3>2, OtherFresh
        <3>3. QED
            BY <3>1, <3>2
    <2>4. QED
        BY <2>3 DEF UpToDate
<1>10. QED
    BY <1>2, <1>7, <1>8, <1>9 DEF NoticesInv

\* An invalidation: the queries it is about are fetched from the start, or have nothing yet, or
\* are excused; the others go on.
LEMMA Invalidated ==
    ASSUME NoticesInv, NEW T \in SUBSET Severities, InCache!Invalidate(T),
           table' = table, cache' = cache
    PROVE  /\ excused \subseteq excused' /\ fetch' \in [Severities -> Fetched]
           /\ \A s \in Severities : fetch'[s].rows \subseteq InCache!Of(s)
           /\ \A s \in Severities \ T : fetch'[s] = fetch[s]
           /\ \A s \in T \ excused' : Fresh(s)'
<1> DEFINE new == [InCache!NoFetch EXCEPT !.phase = "list"]
<1>1. /\ fetch \in [Severities -> Fetched]
      /\ \A s \in Severities : fetch[s].rows \subseteq InCache!Of(s)
    BY DEF NoticesInv, NoticesTyped, RowsKnown
<1>2. new \in Fetched /\ new.phase = "list" /\ new.rows = {}
    BY DEF Fetched, InCache!NoFetch
<1>3. /\ fetch' = [s \in Severities |-> IF s \in T /\ cache[s].loaded THEN new ELSE fetch[s]]
      /\ excused' = excused \cup {s \in T : ~cache[s].loaded /\ fetch[s].phase # "none"}
    BY DEF InCache!Invalidate, Severities
<1> HIDE DEF new
<1>4. /\ fetch' \in [Severities -> Fetched]
      /\ \A s \in Severities : fetch'[s] = IF s \in T /\ cache[s].loaded THEN new ELSE fetch[s]
    BY <1>1, <1>2, <1>3
<1>5. \A s \in Severities : fetch'[s].rows \subseteq InCache!Of(s)
    BY <1>1, <1>2, <1>4
<1>6. ASSUME NEW s \in T \ excused' PROVE Fresh(s)'
    <2>1. \/ cache[s].loaded /\ fetch'[s].phase = "list"
          \/ ~cache[s].loaded /\ fetch'[s].phase = "none"
        BY <1>2, <1>3, <1>4, <1>6
    <2>2. QED
        BY <2>1 DEF Fresh
<1>7. QED
    BY <1>3, <1>4, <1>5, <1>6

LEMMA OnSummaryKeeps ==
    ASSUME NoticesInv, InCache!OnSummary
    PROVE  NoticesInv'
<1> PICK e : e = Head(events)
    OBVIOUS
<1> PICK s : s = e.severity
    OBVIOUS
<1>1. /\ events # <<>> /\ e.type = "SUMMARY" /\ InCache!Invalidate({s}) /\ events' = Tail(events)
      /\ UNCHANGED <<table, pushed, cache, mutations, marks, failed>>
    BY DEF InCache!OnSummary
<1>2. e = events[1] /\ e \in Event /\ events' \in Seq(Event)
    BY <1>1, TailOf
<1>3. s \in Severities
    BY <1>1, <1>2 DEF Event
<1>4. /\ excused \subseteq excused' /\ fetch' \in [Severities -> Fetched]
      /\ \A t \in Severities : fetch'[t].rows \subseteq InCache!Of(t)
      /\ \A t \in Severities : t # s => fetch'[t] = fetch[t]
      /\ s \notin excused' => Fresh(s)'
    <2>1. {s} \in SUBSET Severities
        BY <1>3
    <2>2. QED
        BY <1>1, <2>1, Invalidated
<1>5. NoticesTyped'
    BY <1>1, <1>2, <1>4 DEF NoticesInv, NoticesTyped
<1>6. RowsKnown'
    <2>1. \A i \in DOMAIN events' : events'[i].type = "NOTIFICATION" =>
              events'[i].row \in InCache!Of(events'[i].severity)
        BY <1>1, TailOf DEF NoticesInv, RowsKnown
    <2>2. QED
        BY <1>1, <1>4, <2>1, SameTable DEF NoticesInv, RowsKnown
<1>7. Announced'
    BY <1>1, <1>4, TailOf
<1>8. UpToDate'
    <2>1. ASSUME NEW t \in Severities \ excused', t # s PROVE Pending(t)' \/ Fresh(t)'
        <3>1. ASSUME Pending(t) PROVE Pending(t)'
            <4>1. ASSUME NEW i \in DOMAIN events, IsSummary(events[i], t) PROVE Pending(t)'
                <5>1. i # 1
                    BY <1>2, <2>1, <4>1 DEF IsSummary
                <5>2. i - 1 \in DOMAIN events' /\ events'[i - 1] = events[i]
                    BY <1>1, <5>1, TailOf
                <5>3. QED
                    BY <4>1, <5>2 DEF Pending, IsSummary
            <4>2. QED
                BY <1>1, <3>1, <4>1 DEF Pending
        <3>2. QED
            BY <1>1, <1>4, <2>1, <3>1, OtherFresh
    <2>2. QED
        BY <1>4, <2>1 DEF UpToDate
<1>9. QED
    BY <1>5, <1>6, <1>7, <1>8 DEF NoticesInv

\* However a call ends, the queries that it was about are invalidated.
LEMMA SettleKeeps ==
    ASSUME NoticesInv, NEW m \in mutations, InCache!Settle(m)
    PROVE  NoticesInv'
<1>1. /\ InCache!Invalidate(m.of) /\ mutations' = mutations \ {m}
      /\ UNCHANGED <<table, pushed, events, cache, marks>>
    BY DEF InCache!Settle
<1>2. m.of \in SUBSET Severities
    BY DEF NoticesInv, NoticesTyped, Mutation
<1>3. /\ excused \subseteq excused' /\ fetch' \in [Severities -> Fetched]
      /\ \A t \in Severities : fetch'[t].rows \subseteq InCache!Of(t)
      /\ \A t \in Severities \ m.of : fetch'[t] = fetch[t]
      /\ \A t \in m.of \ excused' : Fresh(t)'
    BY <1>1, <1>2, Invalidated
<1>4. NoticesTyped'
    BY <1>1, <1>3 DEF NoticesInv, NoticesTyped
<1>5. RowsKnown'
    BY <1>1, <1>3, SameTable DEF NoticesInv, RowsKnown
<1>6. Announced'
    BY <1>1, <1>3 DEF NoticesInv, Announced
<1>7. UpToDate'
    <2>1. ASSUME NEW t \in Severities \ excused', t \notin m.of PROVE Pending(t)' \/ Fresh(t)'
        <3>1. Pending(t) => Pending(t)'
            BY <1>1, <2>1 DEF Pending
        <3>2. QED
            BY <1>1, <1>3, <2>1, <3>1, OtherFresh
    <2>2. QED
        BY <1>3, <2>1 DEF UpToDate
<1>8. QED
    BY <1>4, <1>5, <1>6, <1>7 DEF NoticesInv

\* The member marks: what is shown changes at once, and a call about it is sent.
LEMMA SendKeeps ==
    ASSUME NoticesInv, NEW m \in Mutation, mutations' = mutations \cup {m},
           UNCHANGED <<table, pushed, events, fetch, excused>>, marks' \in Nat,
           IF m.all THEN m.of = Severities
           ELSE \A n \in m.rows : n \in DOMAIN table /\ table[n].severity \in m.of,
           cache' \in [Severities -> PageRecord],
           \A s \in Severities : /\ cache'[s].rows = cache[s].rows
                                 /\ s \notin m.of => cache'[s] = cache[s]
    PROVE  NoticesInv'
<1>1. NoticesTyped'
    BY DEF NoticesInv, NoticesTyped
<1>2. RowsKnown'
    BY SameTable DEF NoticesInv, RowsKnown
<1>3. Announced'
    BY DEF NoticesInv, Announced
<1>4. UpToDate'
    <2>1. ASSUME NEW t \in Severities \ excused', t \notin m.of PROVE Pending(t)' \/ Fresh(t)'
        <3>1. Pending(t) => Pending(t)'
            BY DEF Pending
        <3>2. QED
            BY <2>1, <3>1, OtherFresh
    <2>2. ASSUME NEW t \in m.of PROVE Pending(t)'
        BY <2>2 DEF Pending
    <2>3. QED
        BY <2>1, <2>2 DEF UpToDate
<1>5. QED
    BY <1>1, <1>2, <1>3, <1>4 DEF NoticesInv

LEMMA MarkAsReadKeeps ==
    ASSUME NoticesInv, NEW n \in InCache!Rows, InCache!MarkAsRead(n)
    PROVE  NoticesInv'
<1>1. PICK s \in Severities :
          /\ n \in cache[s].rows \ cache[s].read
          /\ cache' = [cache EXCEPT ![s] = [cache[s] EXCEPT
                          !.read = cache[s].read \cup {n},
                          !.unread = InCache!Less(cache[s].unread)]]
          /\ mutations' = mutations \cup {[id |-> marks + 1, rows |-> {n}, all |-> FALSE,
                                           done |-> FALSE, of |-> {s}]}
    BY DEF InCache!MarkAsRead, Severities
<1> DEFINE m == [id |-> marks + 1, rows |-> {n}, all |-> FALSE, done |-> FALSE, of |-> {s}]
           c == [cache[s] EXCEPT !.read = cache[s].read \cup {n},
                                 !.unread = InCache!Less(cache[s].unread)]
<1>2. /\ marks \in Nat /\ cache \in [Severities -> PageRecord]
      /\ cache[s].rows \subseteq InCache!Of(s)
      /\ marks' = marks + 1 /\ UNCHANGED <<table, pushed, events, fetch, excused>>
    BY DEF NoticesInv, NoticesTyped, RowsKnown, InCache!MarkAsRead
<1>3. n \in Nat /\ n \in DOMAIN table /\ table[n].severity = s
    <2>1. cache[s].rows \subseteq Nat
        BY <1>2 DEF PageRecord
    <2>2. QED
        BY <1>1, <1>2, <2>1 DEF InCache!Of
<1>4. /\ m \in Mutation /\ ~m.all /\ m.of = {s}
      /\ \A o \in m.rows : o \in DOMAIN table /\ table[o].severity \in m.of
    BY <1>2, <1>3 DEF Mutation
<1>5. c \in PageRecord /\ c.rows = cache[s].rows
    <2>1. InCache!Less(cache[s].unread) \in Nat
        BY <1>2 DEF PageRecord, InCache!Less
    <2>2. QED
        BY <1>2, <1>3, <2>1 DEF PageRecord
<1>6. cache' = [cache EXCEPT ![s] = c] /\ mutations' = mutations \cup {m}
    BY <1>1
<1> HIDE DEF m, c
<1>7. /\ cache' \in [Severities -> PageRecord]
      /\ \A t \in Severities : /\ cache'[t].rows = cache[t].rows
                               /\ t \notin m.of => cache'[t] = cache[t]
    BY <1>2, <1>4, <1>5, <1>6
<1>8. QED
    BY <1>2, <1>4, <1>6, <1>7, SendKeeps

LEMMA MarkAllAsReadKeeps ==
    ASSUME NoticesInv, InCache!MarkAllAsRead
    PROVE  NoticesInv'
<1> DEFINE m == [id |-> marks + 1, rows |-> {}, all |-> TRUE, done |-> FALSE, of |-> Severities]
<1>1. /\ cache' = [s \in Severities |-> [cache[s] EXCEPT !.read = cache[s].rows, !.unread = 0]]
      /\ mutations' = mutations \cup {m} /\ marks' = marks + 1
      /\ UNCHANGED <<table, pushed, events, fetch, excused>>
    BY DEF InCache!MarkAllAsRead, Severities
<1>2. marks \in Nat /\ cache \in [Severities -> PageRecord]
    BY DEF NoticesInv, NoticesTyped
<1>3. m \in Mutation /\ m.all /\ m.of = Severities
    BY <1>2 DEF Mutation
<1> HIDE DEF m
<1>4. /\ cache' \in [Severities -> PageRecord]
      /\ \A s \in Severities : cache'[s].rows = cache[s].rows
    <2>1. \A c \in PageRecord : LET d == [c EXCEPT !.read = c.rows, !.unread = 0]
                          IN  d \in PageRecord /\ d.rows = c.rows
        BY DEF PageRecord
    <2>2. QED
        BY <1>1, <1>2, <2>1
<1>5. marks' \in Nat
    <2>1. marks \in Nat /\ marks' = marks + 1
        BY DEF NoticesInv, NoticesTyped, InCache!MarkAllAsRead
    <2>2. QED
        BY <2>1
<1>6. QED
    BY <1>1, <1>3, <1>4, <1>5, SendKeeps

LEMMA NoticesNext == NoticesInv /\ [InCache!Next]_(InCache!vars) => NoticesInv'
<1> SUFFICES ASSUME NoticesInv, [InCache!Next]_(InCache!vars) PROVE NoticesInv'
    OBVIOUS
<1>1. CASE UNCHANGED InCache!vars
    <2>1. UNCHANGED <<table, pushed, events, cache, fetch, mutations, marks, failed, excused>>
        BY <1>1 DEF InCache!vars
    <2>2. \A t : (Pending(t)' <=> Pending(t)) /\ (Fresh(t)' <=> Fresh(t))
        BY <2>1 DEF Pending, Fresh, InCache!Of, InCache!ReadRows, InCache!Newest
    <2>3. QED
        BY <2>1, <2>2, SameTable DEF NoticesInv, NoticesTyped, RowsKnown, Announced, UpToDate
<1>2. CASE InCache!Next
    BY <1>2, NoticeCreateKeeps, NoticePushKeeps, PollKeeps, RestartKeeps, ListKeeps, MarkReadKeeps,
       OnNotificationKeeps, OnSummaryKeeps, SettleKeeps, MarkAsReadKeeps, MarkAllAsReadKeeps
    DEF InCache!Next, Severities
<1>3. QED
    BY <1>1, <1>2

\* Whatever fetches, streamed rows, marks and failures overlapped: once nothing is under way, the
\* page, its read marks and the unread count are those of the table, since each of what changed
\* one of them is followed by an invalidation (useNotification, useNotificationStream).
THEOREM ShownIsStored == InCache!Spec => []Agrees
<1>1. NoticesInv => Agrees
    <2> SUFFICES ASSUME NoticesInv, InCache!Quiet, NEW s \in Severities \ excused, cache[s].loaded
                 PROVE  /\ cache[s].rows = InCache!Newest(InCache!Of(s))
                        /\ cache[s].read = cache[s].rows \cap InCache!ReadRows
                        /\ cache[s].unread
                               = InCache!Cardinality(InCache!Of(s) \ InCache!ReadRows)
        BY DEF Agrees, InCache!Agrees, Severities
    <2>1. ~Pending(s) /\ fetch[s].phase = "none"
        BY DEF InCache!Quiet, Pending, Severities
    <2>2. QED
        BY <2>1 DEF NoticesInv, UpToDate, Fresh
<1>2. InCache!Spec => []NoticesInv
    BY NoticesInit, NoticesNext, PTL DEF InCache!Spec
<1>3. QED
    BY <1>1, <1>2, PTL

(***************************************************************************)
(* The tables of the queries and of the hooks.                              *)
(***************************************************************************)

\* h is f and g as one.
Both(h, f, g) ==
    /\ DOMAIN h = DOMAIN f \cup DOMAIN g
    /\ \A x \in DOMAIN f : h[x] = f[x]
    /\ \A x \in DOMAIN g : x \notin DOMAIN f => h[x] = g[x]

\* What the infix operator of the tables gives.
LEMMA BothAre ==
    ASSUME NEW f, NEW g
    PROVE  Both(InQueries!++(f, g), f, g)
BY DEF InQueries!++, Both

QueryNames ==
    {"features", "feature", "bugs", "bug", "projects", "project", "releases", "release",
     "users", "me", "user", "invitations", "pullRequests", "pullRequest", "workspace",
     "stats", "installation"}

\* The key of each query.
LEMMA KeysAre ==
    /\ DOMAIN InQueries!Key = QueryNames
    /\ InQueries!Key["features"] = <<"features">>
    /\ InQueries!Key["feature"] = <<"features", "id">>
    /\ InQueries!Key["bugs"] = <<"bugs">>
    /\ InQueries!Key["bug"] = <<"bugs", "id">>
    /\ InQueries!Key["projects"] = <<"projects">>
    /\ InQueries!Key["project"] = <<"projects", "id">>
    /\ InQueries!Key["releases"] = <<"releases">>
    /\ InQueries!Key["release"] = <<"releases", "id">>
    /\ InQueries!Key["users"] = <<"users">>
    /\ InQueries!Key["me"] = <<"users", "me">>
    /\ InQueries!Key["user"] = <<"users", "id">>
    /\ InQueries!Key["invitations"] = <<"invitations">>
    /\ InQueries!Key["pullRequests"] = <<"pull-requests">>
    /\ InQueries!Key["pullRequest"] = <<"pull-requests", "id">>
    /\ InQueries!Key["workspace"] = <<"workspace">>
    /\ InQueries!Key["stats"] = <<"workspace", "stats">>
    /\ InQueries!Key["installation"] = <<"github", "installation">>
<1> DEFINE keys2 == InQueries!++(InQueries!FeatureKeys, InQueries!BugKeys)
           keys3 == InQueries!++(keys2, InQueries!ProjectKeys)
           keys4 == InQueries!++(keys3, InQueries!ReleaseKeys)
           keys5 == InQueries!++(keys4, InQueries!UserKeys)
           keys6 == InQueries!++(keys5, InQueries!InvitationKeys)
           keys7 == InQueries!++(keys6, InQueries!PullRequestKeys)
           keys8 == InQueries!++(keys7, InQueries!WorkspaceKeys)
           keys9 == InQueries!++(keys8, InQueries!GitHubKeys)
<1>1. InQueries!Key = keys9
    BY DEF InQueries!Key
<1>2. /\ Both(keys2, InQueries!FeatureKeys, InQueries!BugKeys)
      /\ Both(keys3, keys2, InQueries!ProjectKeys)
      /\ Both(keys4, keys3, InQueries!ReleaseKeys)
      /\ Both(keys5, keys4, InQueries!UserKeys)
      /\ Both(keys6, keys5, InQueries!InvitationKeys)
      /\ Both(keys7, keys6, InQueries!PullRequestKeys)
      /\ Both(keys8, keys7, InQueries!WorkspaceKeys)
      /\ Both(keys9, keys8, InQueries!GitHubKeys)
    BY BothAre
<1> HIDE DEF keys2, keys3, keys4, keys5, keys6, keys7, keys8, keys9
<1>3. /\ DOMAIN InQueries!FeatureKeys = {"features", "feature"}
      /\ DOMAIN InQueries!BugKeys = {"bugs", "bug"}
      /\ DOMAIN InQueries!ProjectKeys = {"projects", "project"}
      /\ DOMAIN InQueries!ReleaseKeys = {"releases", "release"}
      /\ DOMAIN InQueries!UserKeys = {"users", "me", "user"}
      /\ DOMAIN InQueries!InvitationKeys = {"invitations"}
      /\ DOMAIN InQueries!PullRequestKeys = {"pullRequests", "pullRequest"}
      /\ DOMAIN InQueries!WorkspaceKeys = {"workspace", "stats"}
      /\ DOMAIN InQueries!GitHubKeys = {"installation"}
    BY DEF InQueries!FeatureKeys, InQueries!BugKeys, InQueries!ProjectKeys,
           InQueries!ReleaseKeys, InQueries!UserKeys, InQueries!InvitationKeys,
           InQueries!PullRequestKeys, InQueries!WorkspaceKeys, InQueries!GitHubKeys
<1>4. DOMAIN InQueries!Key = QueryNames
    BY <1>1, <1>2, <1>3 DEF Both, QueryNames
<1>5. \A q \in DOMAIN InQueries!FeatureKeys : InQueries!Key[q] = InQueries!FeatureKeys[q]
    BY <1>1, <1>2, <1>3 DEF Both
<1>6. \A q \in DOMAIN InQueries!BugKeys : InQueries!Key[q] = InQueries!BugKeys[q]
    BY <1>1, <1>2, <1>3 DEF Both
<1>7. \A q \in DOMAIN InQueries!ProjectKeys : InQueries!Key[q] = InQueries!ProjectKeys[q]
    BY <1>1, <1>2, <1>3 DEF Both
<1>8. \A q \in DOMAIN InQueries!ReleaseKeys : InQueries!Key[q] = InQueries!ReleaseKeys[q]
    BY <1>1, <1>2, <1>3 DEF Both
<1>9. \A q \in DOMAIN InQueries!UserKeys : InQueries!Key[q] = InQueries!UserKeys[q]
    BY <1>1, <1>2, <1>3 DEF Both
<1>10. \A q \in DOMAIN InQueries!InvitationKeys : InQueries!Key[q] = InQueries!InvitationKeys[q]
    BY <1>1, <1>2, <1>3 DEF Both
<1>11. \A q \in DOMAIN InQueries!PullRequestKeys : InQueries!Key[q] = InQueries!PullRequestKeys[q]
    BY <1>1, <1>2, <1>3 DEF Both
<1>12. \A q \in DOMAIN InQueries!WorkspaceKeys : InQueries!Key[q] = InQueries!WorkspaceKeys[q]
    BY <1>1, <1>2, <1>3 DEF Both
<1>13. \A q \in DOMAIN InQueries!GitHubKeys : InQueries!Key[q] = InQueries!GitHubKeys[q]
    BY <1>1, <1>2, <1>3 DEF Both
<1>14. QED
    BY <1>3, <1>4, <1>5, <1>6, <1>7, <1>8, <1>9, <1>10, <1>11, <1>12, <1>13
    DEF InQueries!FeatureKeys, InQueries!BugKeys, InQueries!ProjectKeys, InQueries!ReleaseKeys,
        InQueries!UserKeys, InQueries!InvitationKeys, InQueries!PullRequestKeys,
        InQueries!WorkspaceKeys, InQueries!GitHubKeys

\* The tables do not overlap: the answer to each query has what its own table says.
LEMMA AnswersAre ==
    /\ \A q \in {"features", "feature"} : InQueries!About[q] = InQueries!FeatureAnswers[q]
    /\ \A q \in {"bugs", "bug"} : InQueries!About[q] = InQueries!BugAnswers[q]
    /\ \A q \in {"projects", "project"} : InQueries!About[q] = InQueries!ProjectAnswers[q]
    /\ \A q \in {"releases", "release"} : InQueries!About[q] = InQueries!ReleaseAnswers[q]
    /\ \A q \in {"users", "me", "user"} : InQueries!About[q] = InQueries!UserAnswers[q]
    /\ InQueries!About["invitations"] = InQueries!InvitationAnswers["invitations"]
    /\ \A q \in {"pullRequests", "pullRequest"} :
           InQueries!About[q] = InQueries!PullRequestAnswers[q]
    /\ InQueries!About["workspace"] = InQueries!CurrentAnswer["workspace"]
    /\ InQueries!About["stats"] = InQueries!StatsAnswer["stats"]
    /\ InQueries!About["installation"] = InQueries!InstallationAnswer["installation"]
<1> DEFINE a2 == InQueries!++(InQueries!FeatureAnswers, InQueries!BugAnswers)
           a3 == InQueries!++(a2, InQueries!ProjectAnswers)
           a4 == InQueries!++(a3, InQueries!ReleaseAnswers)
           a5 == InQueries!++(a4, InQueries!UserAnswers)
           a6 == InQueries!++(a5, InQueries!InvitationAnswers)
           a7 == InQueries!++(a6, InQueries!PullRequestAnswers)
           a8 == InQueries!++(a7, InQueries!CurrentAnswer)
           a9 == InQueries!++(a8, InQueries!StatsAnswer)
           a10 == InQueries!++(a9, InQueries!InstallationAnswer)
<1>1. InQueries!About = a10
    BY DEF InQueries!About
<1>2. /\ Both(a2, InQueries!FeatureAnswers, InQueries!BugAnswers)
      /\ Both(a3, a2, InQueries!ProjectAnswers)
      /\ Both(a4, a3, InQueries!ReleaseAnswers)
      /\ Both(a5, a4, InQueries!UserAnswers)
      /\ Both(a6, a5, InQueries!InvitationAnswers)
      /\ Both(a7, a6, InQueries!PullRequestAnswers)
      /\ Both(a8, a7, InQueries!CurrentAnswer)
      /\ Both(a9, a8, InQueries!StatsAnswer)
      /\ Both(a10, a9, InQueries!InstallationAnswer)
    BY BothAre
<1> HIDE DEF a2, a3, a4, a5, a6, a7, a8, a9, a10
<1>3. /\ DOMAIN InQueries!FeatureAnswers = {"features", "feature"}
      /\ DOMAIN InQueries!BugAnswers = {"bugs", "bug"}
      /\ DOMAIN InQueries!ProjectAnswers = {"projects", "project"}
      /\ DOMAIN InQueries!ReleaseAnswers = {"releases", "release"}
      /\ DOMAIN InQueries!UserAnswers = {"users", "me", "user"}
      /\ DOMAIN InQueries!InvitationAnswers = {"invitations"}
      /\ DOMAIN InQueries!PullRequestAnswers = {"pullRequests", "pullRequest"}
      /\ DOMAIN InQueries!CurrentAnswer = {"workspace"}
      /\ DOMAIN InQueries!StatsAnswer = {"stats"}
      /\ DOMAIN InQueries!InstallationAnswer = {"installation"}
    BY DEF InQueries!FeatureAnswers, InQueries!BugAnswers, InQueries!ProjectAnswers,
           InQueries!ReleaseAnswers, InQueries!UserAnswers, InQueries!InvitationAnswers,
           InQueries!PullRequestAnswers, InQueries!CurrentAnswer, InQueries!StatsAnswer,
           InQueries!InstallationAnswer
<1>4. QED
    BY <1>1, <1>2, <1>3 DEF Both

\* The changes of each kind of record.
LEMMA OpsAre ==
    /\ DOMAIN InQueries!FeatureOps = {"createFeature", "updateFeature", "deleteFeature"}
    /\ DOMAIN InQueries!BugOps = {"createBug", "updateBug", "deleteBug"}
    /\ DOMAIN InQueries!ProjectOps = {"createProject", "updateProject", "deleteProject"}
    /\ DOMAIN InQueries!ReleaseOps = {"createRelease", "updateRelease", "deleteRelease"}
    /\ DOMAIN InQueries!UserOps = {"updateMe", "createUser", "updateUser", "deactivateUser"}
    /\ DOMAIN InQueries!InvitationOps = {"createInvitation", "resendInvitation", "cancelInvitation"}
    /\ DOMAIN InQueries!PullRequestOps = {"linkPR", "unlinkPR"}
    /\ DOMAIN InQueries!WorkspaceOps = {"updateWorkspace"}
    /\ DOMAIN InQueries!GitHubOps = {"disconnectGitHub", "connectRepository"}
BY DEF InQueries!FeatureOps, InQueries!BugOps, InQueries!ProjectOps, InQueries!ReleaseOps,
    InQueries!UserOps, InQueries!InvitationOps, InQueries!PullRequestOps,
    InQueries!WorkspaceOps, InQueries!GitHubOps

\* The tables do not overlap: each hook invalidates what its own table says.
LEMMA InvalidatedAre ==
    /\ InQueries!Ops = UNION {DOMAIN InQueries!FeatureOps, DOMAIN InQueries!BugOps,
               DOMAIN InQueries!ProjectOps, DOMAIN InQueries!ReleaseOps, DOMAIN InQueries!UserOps,
               DOMAIN InQueries!InvitationOps, DOMAIN InQueries!PullRequestOps,
               DOMAIN InQueries!WorkspaceOps, DOMAIN InQueries!GitHubOps}
    /\ \A op \in DOMAIN InQueries!FeatureOps : InQueries!Invalidates[op] = InQueries!FeatureOps[op]
    /\ \A op \in DOMAIN InQueries!BugOps : InQueries!Invalidates[op] = InQueries!BugOps[op]
    /\ \A op \in DOMAIN InQueries!ProjectOps : InQueries!Invalidates[op] = InQueries!ProjectOps[op]
    /\ \A op \in DOMAIN InQueries!ReleaseOps : InQueries!Invalidates[op] = InQueries!ReleaseOps[op]
    /\ \A op \in DOMAIN InQueries!UserOps : InQueries!Invalidates[op] = InQueries!UserOps[op]
    /\ \A op \in DOMAIN InQueries!InvitationOps :
           InQueries!Invalidates[op] = InQueries!InvitationOps[op]
    /\ \A op \in DOMAIN InQueries!PullRequestOps :
           InQueries!Invalidates[op] = InQueries!PullRequestOps[op]
    /\ \A op \in DOMAIN InQueries!WorkspaceOps :
           InQueries!Invalidates[op] = InQueries!WorkspaceOps[op]
    /\ \A op \in DOMAIN InQueries!GitHubOps : InQueries!Invalidates[op] = InQueries!GitHubOps[op]
<1> DEFINE i2 == InQueries!++(InQueries!FeatureOps, InQueries!BugOps)
           i3 == InQueries!++(i2, InQueries!ProjectOps)
           i4 == InQueries!++(i3, InQueries!ReleaseOps)
           i5 == InQueries!++(i4, InQueries!UserOps)
           i6 == InQueries!++(i5, InQueries!InvitationOps)
           i7 == InQueries!++(i6, InQueries!PullRequestOps)
           i8 == InQueries!++(i7, InQueries!WorkspaceOps)
           i9 == InQueries!++(i8, InQueries!GitHubOps)
<1>1. InQueries!Invalidates = i9
    BY DEF InQueries!Invalidates
<1>2. /\ Both(i2, InQueries!FeatureOps, InQueries!BugOps)
      /\ Both(i3, i2, InQueries!ProjectOps)
      /\ Both(i4, i3, InQueries!ReleaseOps)
      /\ Both(i5, i4, InQueries!UserOps)
      /\ Both(i6, i5, InQueries!InvitationOps)
      /\ Both(i7, i6, InQueries!PullRequestOps)
      /\ Both(i8, i7, InQueries!WorkspaceOps)
      /\ Both(i9, i8, InQueries!GitHubOps)
    BY BothAre
<1> HIDE DEF i2, i3, i4, i5, i6, i7, i8, i9
<1>3. InQueries!Ops = UNION {DOMAIN InQueries!FeatureOps, DOMAIN InQueries!BugOps,
               DOMAIN InQueries!ProjectOps, DOMAIN InQueries!ReleaseOps, DOMAIN InQueries!UserOps,
               DOMAIN InQueries!InvitationOps, DOMAIN InQueries!PullRequestOps,
               DOMAIN InQueries!WorkspaceOps, DOMAIN InQueries!GitHubOps}
    BY <1>1, <1>2 DEF Both, InQueries!Ops
<1>4. \A op \in DOMAIN InQueries!FeatureOps : InQueries!Invalidates[op] = InQueries!FeatureOps[op]
    BY <1>1, <1>2, OpsAre DEF Both
<1>5. \A op \in DOMAIN InQueries!BugOps : InQueries!Invalidates[op] = InQueries!BugOps[op]
    BY <1>1, <1>2, OpsAre DEF Both
<1>6. \A op \in DOMAIN InQueries!ProjectOps : InQueries!Invalidates[op] = InQueries!ProjectOps[op]
    BY <1>1, <1>2, OpsAre DEF Both
<1>7. \A op \in DOMAIN InQueries!ReleaseOps : InQueries!Invalidates[op] = InQueries!ReleaseOps[op]
    BY <1>1, <1>2, OpsAre DEF Both
<1>8. \A op \in DOMAIN InQueries!UserOps : InQueries!Invalidates[op] = InQueries!UserOps[op]
    BY <1>1, <1>2, OpsAre DEF Both
<1>9. \A op \in DOMAIN InQueries!InvitationOps :
          InQueries!Invalidates[op] = InQueries!InvitationOps[op]
    BY <1>1, <1>2, OpsAre DEF Both
<1>10. \A op \in DOMAIN InQueries!PullRequestOps :
           InQueries!Invalidates[op] = InQueries!PullRequestOps[op]
    BY <1>1, <1>2, OpsAre DEF Both
<1>11. \A op \in DOMAIN InQueries!WorkspaceOps :
           InQueries!Invalidates[op] = InQueries!WorkspaceOps[op]
    BY <1>1, <1>2, OpsAre DEF Both
<1>12. \A op \in DOMAIN InQueries!GitHubOps : InQueries!Invalidates[op] = InQueries!GitHubOps[op]
    BY <1>1, <1>2, OpsAre DEF Both
<1>13. QED
    BY <1>3, <1>4, <1>5, <1>6, <1>7, <1>8, <1>9, <1>10, <1>11, <1>12

\* The tables do not overlap: each change touches what its own table says.
LEMMA TouchedAre ==
    /\ \A op \in DOMAIN InQueries!FeatureOps : InQueries!Touches[op] = InQueries!FeatureTouches[op]
    /\ \A op \in DOMAIN InQueries!BugOps : InQueries!Touches[op] = InQueries!BugTouches[op]
    /\ \A op \in DOMAIN InQueries!ProjectOps : InQueries!Touches[op] = InQueries!ProjectTouches[op]
    /\ \A op \in DOMAIN InQueries!ReleaseOps : InQueries!Touches[op] = InQueries!ReleaseTouches[op]
    /\ \A op \in DOMAIN InQueries!UserOps : InQueries!Touches[op] = InQueries!UserTouches[op]
    /\ \A op \in DOMAIN InQueries!InvitationOps :
           InQueries!Touches[op] = InQueries!InvitationTouches[op]
    /\ \A op \in DOMAIN InQueries!PullRequestOps :
           InQueries!Touches[op] = InQueries!PullRequestTouches[op]
    /\ \A op \in DOMAIN InQueries!WorkspaceOps :
           InQueries!Touches[op] = InQueries!WorkspaceTouches[op]
    /\ \A op \in DOMAIN InQueries!GitHubOps : InQueries!Touches[op] = InQueries!GitHubTouches[op]
<1> DEFINE t2 == InQueries!++(InQueries!FeatureTouches, InQueries!BugTouches)
           t3 == InQueries!++(t2, InQueries!ProjectTouches)
           t4 == InQueries!++(t3, InQueries!ReleaseTouches)
           t5 == InQueries!++(t4, InQueries!UserTouches)
           t6 == InQueries!++(t5, InQueries!InvitationTouches)
           t7 == InQueries!++(t6, InQueries!PullRequestTouches)
           t8 == InQueries!++(t7, InQueries!WorkspaceTouches)
           t9 == InQueries!++(t8, InQueries!GitHubTouches)
<1>1. InQueries!Touches = t9
    BY DEF InQueries!Touches
<1>2. /\ Both(t2, InQueries!FeatureTouches, InQueries!BugTouches)
      /\ Both(t3, t2, InQueries!ProjectTouches)
      /\ Both(t4, t3, InQueries!ReleaseTouches)
      /\ Both(t5, t4, InQueries!UserTouches)
      /\ Both(t6, t5, InQueries!InvitationTouches)
      /\ Both(t7, t6, InQueries!PullRequestTouches)
      /\ Both(t8, t7, InQueries!WorkspaceTouches)
      /\ Both(t9, t8, InQueries!GitHubTouches)
    BY BothAre
<1> HIDE DEF t2, t3, t4, t5, t6, t7, t8, t9
<1>3. /\ DOMAIN InQueries!FeatureTouches = DOMAIN InQueries!FeatureOps
      /\ DOMAIN InQueries!BugTouches = DOMAIN InQueries!BugOps
      /\ DOMAIN InQueries!ProjectTouches = DOMAIN InQueries!ProjectOps
      /\ DOMAIN InQueries!ReleaseTouches = DOMAIN InQueries!ReleaseOps
      /\ DOMAIN InQueries!UserTouches = DOMAIN InQueries!UserOps
      /\ DOMAIN InQueries!InvitationTouches = DOMAIN InQueries!InvitationOps
      /\ DOMAIN InQueries!PullRequestTouches = DOMAIN InQueries!PullRequestOps
      /\ DOMAIN InQueries!WorkspaceTouches = DOMAIN InQueries!WorkspaceOps
      /\ DOMAIN InQueries!GitHubTouches = DOMAIN InQueries!GitHubOps
    BY DEF InQueries!FeatureTouches, InQueries!BugTouches, InQueries!ProjectTouches,
           InQueries!ReleaseTouches, InQueries!UserTouches, InQueries!InvitationTouches,
           InQueries!PullRequestTouches, InQueries!WorkspaceTouches, InQueries!GitHubTouches,
           InQueries!FeatureOps, InQueries!BugOps, InQueries!ProjectOps, InQueries!ReleaseOps,
           InQueries!UserOps, InQueries!WorkspaceOps
<1>4. \A op \in DOMAIN InQueries!FeatureOps : InQueries!Touches[op] = InQueries!FeatureTouches[op]
    BY <1>1, <1>2, <1>3, OpsAre DEF Both
<1>5. \A op \in DOMAIN InQueries!BugOps : InQueries!Touches[op] = InQueries!BugTouches[op]
    BY <1>1, <1>2, <1>3, OpsAre DEF Both
<1>6. \A op \in DOMAIN InQueries!ProjectOps : InQueries!Touches[op] = InQueries!ProjectTouches[op]
    BY <1>1, <1>2, <1>3, OpsAre DEF Both
<1>7. \A op \in DOMAIN InQueries!ReleaseOps : InQueries!Touches[op] = InQueries!ReleaseTouches[op]
    BY <1>1, <1>2, <1>3, OpsAre DEF Both
<1>8. \A op \in DOMAIN InQueries!UserOps : InQueries!Touches[op] = InQueries!UserTouches[op]
    BY <1>1, <1>2, <1>3, OpsAre DEF Both
<1>9. \A op \in DOMAIN InQueries!InvitationOps :
           InQueries!Touches[op] = InQueries!InvitationTouches[op]
    BY <1>1, <1>2, <1>3, OpsAre DEF Both
<1>10. \A op \in DOMAIN InQueries!PullRequestOps :
           InQueries!Touches[op] = InQueries!PullRequestTouches[op]
    BY <1>1, <1>2, <1>3, OpsAre DEF Both
<1>11. \A op \in DOMAIN InQueries!WorkspaceOps :
           InQueries!Touches[op] = InQueries!WorkspaceTouches[op]
    BY <1>1, <1>2, <1>3, OpsAre DEF Both
<1>12. \A op \in DOMAIN InQueries!GitHubOps : InQueries!Touches[op] = InQueries!GitHubTouches[op]
    BY <1>1, <1>2, <1>3, OpsAre DEF Both
<1>13. QED
    BY <1>4, <1>5, <1>6, <1>7, <1>8, <1>9, <1>10, <1>11, <1>12

\* Prefixes of keys of one and of two parts.
LEMMA PrefixesAre ==
    /\ \A a, c : InQueries!IsPrefix(<<a>>, <<c>>) <=> a = c
    /\ \A a, c, d : InQueries!IsPrefix(<<a>>, <<c, d>>) <=> a = c
    /\ \A a, b, c : ~InQueries!IsPrefix(<<a, b>>, <<c>>)
    /\ \A a, b, c, d : InQueries!IsPrefix(<<a, b>>, <<c, d>>) <=> a = c /\ b = d
BY DEF InQueries!IsPrefix

\* The queries that each prefix names.
LEMMA HitsAre ==
    ASSUME NEW q \in QueryNames
    PROVE  /\ InQueries!IsPrefix(<<"features">>, InQueries!Key[q]) <=> q \in {"features", "feature"}
           /\ InQueries!IsPrefix(<<"bugs">>, InQueries!Key[q]) <=> q \in {"bugs", "bug"}
           /\ InQueries!IsPrefix(<<"projects">>, InQueries!Key[q]) <=> q \in {"projects", "project"}
           /\ InQueries!IsPrefix(<<"releases">>, InQueries!Key[q]) <=> q \in {"releases", "release"}
           /\ InQueries!IsPrefix(<<"users">>, InQueries!Key[q]) <=> q \in {"users", "me", "user"}
           /\ InQueries!IsPrefix(<<"invitations">>, InQueries!Key[q]) <=> q = "invitations"
           /\ InQueries!IsPrefix(<<"pull-requests">>, InQueries!Key[q])
                  <=> q \in {"pullRequests", "pullRequest"}
           /\ InQueries!IsPrefix(<<"workspace">>, InQueries!Key[q]) <=> q \in {"workspace", "stats"}
           /\ InQueries!IsPrefix(<<"features", "id">>, InQueries!Key[q]) <=> q = "feature"
           /\ InQueries!IsPrefix(<<"bugs", "id">>, InQueries!Key[q]) <=> q = "bug"
           /\ InQueries!IsPrefix(<<"projects", "id">>, InQueries!Key[q]) <=> q = "project"
           /\ InQueries!IsPrefix(<<"releases", "id">>, InQueries!Key[q]) <=> q = "release"
           /\ InQueries!IsPrefix(<<"users", "id">>, InQueries!Key[q]) <=> q = "user"
           /\ InQueries!IsPrefix(<<"users", "me">>, InQueries!Key[q]) <=> q = "me"
           /\ InQueries!IsPrefix(<<"workspace", "stats">>, InQueries!Key[q]) <=> q = "stats"
           /\ InQueries!IsPrefix(<<"github", "installation">>, InQueries!Key[q])
                  <=> q = "installation"
<1>1. CASE q = "features"
    BY <1>1, KeysAre, PrefixesAre
<1>2. CASE q = "feature"
    BY <1>2, KeysAre, PrefixesAre
<1>3. CASE q = "bugs"
    BY <1>3, KeysAre, PrefixesAre
<1>4. CASE q = "bug"
    BY <1>4, KeysAre, PrefixesAre
<1>5. CASE q = "projects"
    BY <1>5, KeysAre, PrefixesAre
<1>6. CASE q = "project"
    BY <1>6, KeysAre, PrefixesAre
<1>7. CASE q = "releases"
    BY <1>7, KeysAre, PrefixesAre
<1>8. CASE q = "release"
    BY <1>8, KeysAre, PrefixesAre
<1>9. CASE q = "users"
    BY <1>9, KeysAre, PrefixesAre
<1>10. CASE q = "me"
    BY <1>10, KeysAre, PrefixesAre
<1>11. CASE q = "user"
    BY <1>11, KeysAre, PrefixesAre
<1>12. CASE q = "invitations"
    BY <1>12, KeysAre, PrefixesAre
<1>13. CASE q = "pullRequests"
    BY <1>13, KeysAre, PrefixesAre
<1>14. CASE q = "pullRequest"
    BY <1>14, KeysAre, PrefixesAre
<1>15. CASE q = "workspace"
    BY <1>15, KeysAre, PrefixesAre
<1>16. CASE q = "stats"
    BY <1>16, KeysAre, PrefixesAre
<1>17. CASE q = "installation"
    BY <1>17, KeysAre, PrefixesAre
<1>18. QED
    BY <1>1, <1>2, <1>3, <1>4, <1>5, <1>6, <1>7, <1>8, <1>9, <1>10, <1>11, <1>12, <1>13, <1>14,
       <1>15, <1>16, <1>17
    DEF QueryNames

\* The queries that each hook names.
LEMMA HookedAre ==
    ASSUME NEW q \in QueryNames
    PROVE  /\ \A op \in DOMAIN InQueries!FeatureOps :
                  InQueries!Names(op, q) <=> q \in {"features", "feature", "stats"}
           /\ \A op \in DOMAIN InQueries!BugOps :
                  InQueries!Names(op, q) <=> q \in {"features", "feature", "bugs", "bug", "stats"}
           /\ \A op \in {"createProject", "deleteProject"} :
                  InQueries!Names(op, q) <=> q \in {"projects", "project", "stats"}
           /\ InQueries!Names("updateProject", q) <=> q \in {"projects", "project"}
           /\ InQueries!Names("createRelease", q)
                  <=> q \in {"releases", "release", "features", "feature", "stats"}
           /\ InQueries!Names("updateRelease", q) <=> q \in {"releases", "release"}
           /\ InQueries!Names("deleteRelease", q) <=> q \in {"releases", "release", "stats"}
           /\ \A op \in {"updateMe", "updateUser"} :
                  InQueries!Names(op, q) <=> q \in {"users", "me", "user"}
           /\ \A op \in {"createUser", "deactivateUser"} :
                  InQueries!Names(op, q) <=> q \in {"users", "me", "user", "stats"}
           /\ \A op \in DOMAIN InQueries!InvitationOps :
                  InQueries!Names(op, q) <=> q = "invitations"
           /\ \A op \in DOMAIN InQueries!PullRequestOps :
                  InQueries!Names(op, q)
                      <=> q \in {"features", "feature", "pullRequests", "pullRequest"}
           /\ \A op \in DOMAIN InQueries!WorkspaceOps :
                  InQueries!Names(op, q) <=> q \in {"workspace", "stats"}
           /\ \A op \in DOMAIN InQueries!GitHubOps :
                  InQueries!Names(op, q) <=> q \in {"projects", "project", "installation"}
<1>1. /\ InQueries!Names("createFeature", q) <=> q \in {"features", "feature", "stats"}
      /\ InQueries!Names("updateFeature", q) <=> q \in {"features", "feature", "stats"}
      /\ InQueries!Names("deleteFeature", q) <=> q \in {"features", "feature", "stats"}
    BY HitsAre, OpsAre, InvalidatedAre DEF InQueries!Names, InQueries!FeatureOps, InQueries!Stats
<1>2. /\ InQueries!Names("createBug", q) <=> q \in {"features", "feature", "bugs", "bug", "stats"}
      /\ InQueries!Names("updateBug", q) <=> q \in {"features", "feature", "bugs", "bug", "stats"}
      /\ InQueries!Names("deleteBug", q) <=> q \in {"features", "feature", "bugs", "bug", "stats"}
    BY HitsAre, OpsAre, InvalidatedAre DEF InQueries!Names, InQueries!BugOps, InQueries!Stats
<1>3. /\ InQueries!Names("createProject", q) <=> q \in {"projects", "project", "stats"}
      /\ InQueries!Names("updateProject", q) <=> q \in {"projects", "project"}
      /\ InQueries!Names("deleteProject", q) <=> q \in {"projects", "project", "stats"}
    BY HitsAre, OpsAre, InvalidatedAre DEF InQueries!Names, InQueries!ProjectOps, InQueries!Stats
<1>4. /\ InQueries!Names("createRelease", q)
             <=> q \in {"releases", "release", "features", "feature", "stats"}
      /\ InQueries!Names("updateRelease", q) <=> q \in {"releases", "release"}
      /\ InQueries!Names("deleteRelease", q) <=> q \in {"releases", "release", "stats"}
    BY HitsAre, OpsAre, InvalidatedAre DEF InQueries!Names, InQueries!ReleaseOps, InQueries!Stats
<1>5. /\ InQueries!Names("updateMe", q) <=> q \in {"users", "me", "user"}
      /\ InQueries!Names("createUser", q) <=> q \in {"users", "me", "user", "stats"}
      /\ InQueries!Names("updateUser", q) <=> q \in {"users", "me", "user"}
      /\ InQueries!Names("deactivateUser", q) <=> q \in {"users", "me", "user", "stats"}
    BY HitsAre, OpsAre, InvalidatedAre DEF InQueries!Names, InQueries!UserOps, InQueries!Stats
<1>6. \A op \in DOMAIN InQueries!InvitationOps : InQueries!Names(op, q) <=> q = "invitations"
    BY HitsAre, OpsAre, InvalidatedAre DEF InQueries!Names, InQueries!InvitationOps
<1>7. \A op \in DOMAIN InQueries!PullRequestOps :
          InQueries!Names(op, q) <=> q \in {"features", "feature", "pullRequests", "pullRequest"}
    BY HitsAre, OpsAre, InvalidatedAre DEF InQueries!Names, InQueries!PullRequestOps
<1>8. \A op \in DOMAIN InQueries!WorkspaceOps :
          InQueries!Names(op, q) <=> q \in {"workspace", "stats"}
    BY HitsAre, OpsAre, InvalidatedAre DEF InQueries!Names, InQueries!WorkspaceOps
<1>9. \A op \in DOMAIN InQueries!GitHubOps :
          InQueries!Names(op, q) <=> q \in {"projects", "project", "installation"}
    BY HitsAre, OpsAre, InvalidatedAre DEF InQueries!Names, InQueries!GitHubOps
<1>10. QED
    BY <1>1, <1>2, <1>3, <1>4, <1>5, <1>6, <1>7, <1>8, <1>9, OpsAre

\* The queries whose answers have something of a kind of record.
LEMMA ShowsAre ==
    ASSUME NEW q \in QueryNames
    PROVE  /\ <<"feature", "number">> \in InQueries!About[q]
                  <=> q \in {"features", "feature", "projects", "project", "users", "user", "stats"}
           /\ <<"feature", "name">> \in InQueries!About[q]
                  <=> q \in {"features", "feature", "bugs", "bug", "project", "releases", "release",
                            "user", "pullRequests", "pullRequest"}
           /\ <<"feature", "state">> \in InQueries!About[q]
                  <=> q \in {"features", "feature", "bug", "project", "releases", "release", "users",
                            "user", "pullRequests", "pullRequest", "stats"}
           /\ \A aspect \in {"role", "active"} :
                  <<"feature", aspect>> \in InQueries!About[q]
                      <=> q \in {"features", "feature", "project", "user"}
           /\ <<"bug", "number">> \in InQueries!About[q]
                  <=> q \in {"features", "feature", "bugs", "bug", "project", "stats"}
           /\ <<"bug", "state">> \in InQueries!About[q]
                  <=> q \in {"feature", "bugs", "bug", "project", "stats"}
           /\ \A aspect \in {"name", "role", "active"} :
                  <<"bug", aspect>> \in InQueries!About[q]
                      <=> q \in {"feature", "bugs", "bug", "project"}
           /\ <<"project", "number">> \in InQueries!About[q]
                  <=> q \in {"projects", "project", "stats"}
           /\ <<"project", "name">> \in InQueries!About[q]
                  <=> q \in {"features", "feature", "bugs", "bug", "projects", "project", "release",
                            "user", "pullRequest"}
           /\ \A aspect \in {"state", "role", "active"} :
                  <<"project", aspect>> \in InQueries!About[q] <=> q \in {"projects", "project"}
           /\ <<"membership", "number">> \in InQueries!About[q]
                  <=> q \in {"projects", "project", "users", "user"}
           /\ \A aspect \in {"name", "state", "role", "active"} :
                  <<"membership", aspect>> \in InQueries!About[q] <=> q \in {"project", "user"}
           /\ <<"repository", "state">> \in InQueries!About[q] <=> q \in {"project", "installation"}
           /\ <<"release", "number">> \in InQueries!About[q]
                  <=> q \in {"releases", "release", "stats"}
           /\ \A aspect \in {"name", "state", "role", "active"} :
                  <<"release", aspect>> \in InQueries!About[q] <=> q \in {"releases", "release"}
           /\ <<"member", "number">> \in InQueries!About[q] <=> q \in {"users", "me", "user", "stats"}
           /\ <<"member", "name">> \in InQueries!About[q]
                  <=> q \in {"features", "feature", "bugs", "bug", "project", "users", "me", "user"}
           /\ <<"member", "state">> \in InQueries!About[q] <=> q \in {"users", "me", "user"}
           /\ <<"member", "role">> \in InQueries!About[q]
                  <=> q \in {"project", "users", "me", "user"}
           /\ <<"member", "active">> \in InQueries!About[q] <=> q \in {"users", "me", "user", "stats"}
           /\ \A aspect \in InQueries!Aspects :
                  /\ <<"invitation", aspect>> \in InQueries!About[q] <=> q = "invitations"
                  /\ <<"tenant", aspect>> \in InQueries!About[q] <=> q = "workspace"
                  /\ <<"pullRequest", aspect>> \in InQueries!About[q] =>
                         q \in {"features", "feature", "pullRequests", "pullRequest"}
<1> USE DEF InQueries!All, InQueries!Aspects
<1>1. CASE q = "features"
    BY <1>1, AnswersAre DEF InQueries!FeatureAnswers
<1>2. CASE q = "feature"
    BY <1>2, AnswersAre DEF InQueries!FeatureAnswers
<1>3. CASE q \in {"bugs", "bug"}
    BY <1>3, AnswersAre DEF InQueries!BugAnswers
<1>4. CASE q \in {"projects", "project"}
    BY <1>4, AnswersAre DEF InQueries!ProjectAnswers
<1>5. CASE q \in {"releases", "release"}
    BY <1>5, AnswersAre DEF InQueries!ReleaseAnswers
<1>6. CASE q \in {"users", "me", "user"}
    BY <1>6, AnswersAre DEF InQueries!UserAnswers
<1>7. CASE q = "invitations"
    BY <1>7, AnswersAre DEF InQueries!InvitationAnswers
<1>8. CASE q = "pullRequests"
    BY <1>8, AnswersAre DEF InQueries!PullRequestAnswers
<1>9. CASE q = "pullRequest"
    BY <1>9, AnswersAre DEF InQueries!PullRequestAnswers
<1>10. CASE q = "workspace"
    BY <1>10, AnswersAre DEF InQueries!CurrentAnswer
<1>11. CASE q = "stats"
    BY <1>11, AnswersAre DEF InQueries!StatsAnswer
<1>12. CASE q = "installation"
    BY <1>12, AnswersAre DEF InQueries!InstallationAnswer
<1>13. QED
    BY <1>1, <1>2, <1>3, <1>4, <1>5, <1>6, <1>7, <1>8, <1>9, <1>10, <1>11, <1>12 DEF QueryNames

\* The answer to q has anything of the records of a kind.
HasAny(kind, q) == \/ <<kind, "number">> \in InQueries!About[q]
                   \/ <<kind, "name">> \in InQueries!About[q]
                   \/ <<kind, "state">> \in InQueries!About[q]
                   \/ <<kind, "role">> \in InQueries!About[q]
                   \/ <<kind, "active">> \in InQueries!About[q]

\* A change of everything there is of some kinds matters to the queries with anything of one.
LEMMA AnyMeets ==
    ASSUME NEW q, NEW kinds
    PROVE  InQueries!All(kinds) \cap InQueries!About[q] # {} <=> \E kind \in kinds : HasAny(kind, q)
<1>1. ASSUME NEW x \in InQueries!All(kinds) \cap InQueries!About[q]
      PROVE  \E kind \in kinds : HasAny(kind, q)
    <2>1. PICK kind \in kinds, aspect \in InQueries!Aspects : x = <<kind, aspect>>
        BY <1>1 DEF InQueries!All
    <2>2. HasAny(kind, q)
        BY <1>1, <2>1 DEF HasAny, InQueries!Aspects
    <2>3. QED
        BY <2>2
<1>2. ASSUME NEW kind \in kinds, HasAny(kind, q)
      PROVE  InQueries!All(kinds) \cap InQueries!About[q] # {}
    <2>1. PICK aspect \in InQueries!Aspects : <<kind, aspect>> \in InQueries!About[q]
        BY <1>2 DEF HasAny, InQueries!Aspects
    <2>2. <<kind, aspect>> \in InQueries!All(kinds)
        BY DEF InQueries!All
    <2>3. QED
        BY <2>1, <2>2
<1>3. QED
    BY <1>1, <1>2

\* The same of one kind.
LEMMA AnyOfOne ==
    ASSUME NEW q, NEW kind, NEW touched, touched = InQueries!All({kind})
    PROVE  touched \cap InQueries!About[q] # {} <=> HasAny(kind, q)
<1> DEFINE kinds == {kind}
<1> HIDE DEF kinds
<1>1. InQueries!All(kinds) \cap InQueries!About[q] # {} <=> \E k \in kinds : HasAny(k, q)
    BY AnyMeets
<1>2. QED
    BY <1>1 DEF kinds

\* The queries whose answers have anything of a kind of record.
LEMMA AnyAre ==
    ASSUME NEW q \in QueryNames
    PROVE  /\ HasAny("feature", q) <=> q \in {"features", "feature", "bugs", "bug", "projects", "project",
                                         "releases", "release", "users", "user", "pullRequests",
                                         "pullRequest", "stats"}
           /\ HasAny("bug", q) <=> q \in {"features", "feature", "bugs", "bug", "project", "stats"}
           /\ HasAny("project", q) <=> q \in {"features", "feature", "bugs", "bug", "projects", "project",
                                         "release", "user", "pullRequest", "stats"}
           /\ HasAny("membership", q) <=> q \in {"projects", "project", "users", "user"}
           /\ HasAny("release", q) <=> q \in {"releases", "release", "stats"}
           /\ HasAny("invitation", q) => q = "invitations"
           /\ HasAny("tenant", q) => q = "workspace"
           /\ HasAny("pullRequest", q) => q \in {"features", "feature", "pullRequests", "pullRequest"}
<1>1. HasAny("feature", q) <=> q \in {"features", "feature", "bugs", "bug", "projects", "project",
                                  "releases", "release", "users", "user", "pullRequests",
                                  "pullRequest", "stats"}
    BY ShowsAre DEF HasAny
<1>2. HasAny("bug", q) <=> q \in {"features", "feature", "bugs", "bug", "project", "stats"}
    BY ShowsAre DEF HasAny
<1>3. HasAny("project", q) <=> q \in {"features", "feature", "bugs", "bug", "projects", "project",
                                  "release", "user", "pullRequest", "stats"}
    BY ShowsAre DEF HasAny
<1>4. /\ HasAny("membership", q) <=> q \in {"projects", "project", "users", "user"}
      /\ HasAny("release", q) <=> q \in {"releases", "release", "stats"}
    BY ShowsAre DEF HasAny
<1>5. /\ HasAny("invitation", q) => q = "invitations"
      /\ HasAny("tenant", q) => q = "workspace"
      /\ HasAny("pullRequest", q) => q \in {"features", "feature", "pullRequests", "pullRequest"}
    BY ShowsAre DEF HasAny, InQueries!Aspects
<1>6. QED
    BY <1>1, <1>2, <1>3, <1>4, <1>5

\* The queries that each change matters to.
LEMMA MattersAre ==
    ASSUME NEW q \in QueryNames
    PROVE  /\ InQueries!Matters("createFeature", q)
                  <=> q \in {"features", "feature", "projects", "project", "users", "user", "stats"}
           /\ InQueries!Matters("updateFeature", q)
                  <=> q \in {"features", "feature", "bugs", "bug", "project", "releases", "release",
                            "users", "user", "pullRequests", "pullRequest", "stats"}
           /\ InQueries!Matters("deleteFeature", q)
                  <=> q \in {"features", "feature", "bugs", "bug", "projects", "project", "releases",
                            "release", "users", "user", "pullRequests", "pullRequest", "stats"}
           /\ \A op \in DOMAIN InQueries!BugOps :
                  InQueries!Matters(op, q)
                      <=> q \in {"features", "feature", "bugs", "bug", "project", "stats"}
           /\ InQueries!Matters("createProject", q) => q \in {"projects", "project", "stats"}
           /\ InQueries!Matters("updateProject", q)
                  <=> q \in {"features", "feature", "bugs", "bug", "projects", "project", "release",
                            "user", "pullRequest"}
           /\ InQueries!Matters("deleteProject", q)
                  <=> q \in {"features", "feature", "bugs", "bug", "projects", "project", "releases",
                            "release", "users", "user", "pullRequests", "pullRequest", "stats",
                            "installation"}
           /\ InQueries!Matters("createRelease", q) => q \in {"releases", "release", "stats"}
           /\ InQueries!Matters("updateRelease", q) => q \in {"releases", "release"}
           /\ InQueries!Matters("deleteRelease", q) => q \in {"releases", "release", "stats"}
           /\ \A op \in {"updateMe", "updateUser"} :
                  InQueries!Matters(op, q)
                      <=> q \in {"features", "feature", "bugs", "bug", "project", "users", "me", "user"}
           /\ \A op \in {"createUser", "deactivateUser"} :
                  InQueries!Matters(op, q) => q \in {"users", "me", "user", "stats"}
           /\ \A op \in DOMAIN InQueries!InvitationOps :
                  InQueries!Matters(op, q) => q = "invitations"
           /\ \A op \in DOMAIN InQueries!PullRequestOps :
                  InQueries!Matters(op, q)
                      => q \in {"features", "feature", "pullRequests", "pullRequest"}
           /\ \A op \in DOMAIN InQueries!WorkspaceOps :
                  InQueries!Matters(op, q) => q = "workspace"
           /\ \A op \in DOMAIN InQueries!GitHubOps :
                  InQueries!Matters(op, q) => q \in {"project", "installation"}
<1> DEFINE shown == InQueries!About[q]
<1>1. /\ InQueries!Matters("createFeature", q)
             <=> <<"feature", "number">> \in shown \/ <<"project", "state">> \in shown
      /\ InQueries!Matters("updateFeature", q)
             <=> <<"feature", "name">> \in shown \/ <<"feature", "state">> \in shown
    BY OpsAre, TouchedAre DEF InQueries!FeatureTouches, InQueries!Edited, InQueries!Matters
<1>2. InQueries!Matters("deleteFeature", q) <=> HasAny("feature", q)
    <2>1. InQueries!Touches["deleteFeature"] = InQueries!All({"feature"})
        BY OpsAre, TouchedAre DEF InQueries!FeatureTouches
    <2>2. QED
        BY <2>1, AnyOfOne DEF InQueries!Matters
<1>3. /\ InQueries!Matters("createBug", q) <=> <<"bug", "number">> \in shown
      /\ InQueries!Matters("updateBug", q) <=> HasAny("bug", q)
      /\ InQueries!Matters("deleteBug", q) <=> HasAny("bug", q)
    <2>1. /\ InQueries!Touches["createBug"] = {<<"bug", "number">>}
          /\ InQueries!Touches["updateBug"] = InQueries!All({"bug"})
          /\ InQueries!Touches["deleteBug"] = InQueries!All({"bug"})
        BY OpsAre, TouchedAre DEF InQueries!BugTouches
    <2>2. InQueries!All({"bug"}) \cap shown # {} <=> HasAny("bug", q)
        BY AnyOfOne
    <2>3. QED
        BY <2>1, <2>2 DEF InQueries!Matters
<1>4. /\ InQueries!Matters("createProject", q) <=> <<"project", "number">> \in shown
      /\ InQueries!Matters("updateProject", q)
             <=> <<"project", "name">> \in shown \/ <<"project", "state">> \in shown
    BY OpsAre, TouchedAre DEF InQueries!ProjectTouches, InQueries!Edited, InQueries!Matters
<1>5. InQueries!Matters("deleteProject", q)
          <=> \/ HasAny("project", q) \/ HasAny("feature", q) \/ HasAny("bug", q) \/ HasAny("membership", q)
              \/ <<"repository", "state">> \in shown
    <2>1. InQueries!Touches["deleteProject"]
              = InQueries!All({"project", "feature", "bug", "membership"})
                    \cup {<<"repository", "state">>}
        BY OpsAre, TouchedAre DEF InQueries!ProjectTouches
    <2>2. InQueries!All({"project", "feature", "bug", "membership"}) \cap shown # {}
              <=> HasAny("project", q) \/ HasAny("feature", q) \/ HasAny("bug", q) \/ HasAny("membership", q)
        <3>1. InQueries!All({"project", "feature", "bug", "membership"}) \cap shown # {}
                  <=> \E kind \in {"project", "feature", "bug", "membership"} : HasAny(kind, q)
            BY AnyMeets
        <3>2. QED
            BY <3>1
    <2>3. QED
        BY <2>1, <2>2 DEF InQueries!Matters
<1>6. /\ InQueries!Matters("createRelease", q) <=> <<"release", "number">> \in shown
      /\ InQueries!Matters("updateRelease", q)
             <=> <<"release", "name">> \in shown \/ <<"release", "state">> \in shown
    BY OpsAre, TouchedAre DEF InQueries!ReleaseTouches, InQueries!Edited, InQueries!Matters
<1>7. InQueries!Matters("deleteRelease", q) <=> HasAny("release", q)
    <2>1. InQueries!Touches["deleteRelease"] = InQueries!All({"release"})
        BY OpsAre, TouchedAre DEF InQueries!ReleaseTouches
    <2>2. QED
        BY <2>1, AnyOfOne DEF InQueries!Matters
<1>8. /\ InQueries!Matters("updateMe", q)
             <=> <<"member", "name">> \in shown \/ <<"member", "state">> \in shown
      /\ InQueries!Matters("createUser", q)
             <=> <<"member", "number">> \in shown \/ <<"member", "active">> \in shown
      /\ InQueries!Matters("updateUser", q)
             <=> \/ <<"member", "name">> \in shown \/ <<"member", "state">> \in shown
                 \/ <<"member", "role">> \in shown
      /\ InQueries!Matters("deactivateUser", q) <=> <<"member", "active">> \in shown
    BY OpsAre, TouchedAre DEF InQueries!UserTouches, InQueries!Edited, InQueries!Matters
<1>9. \A op \in DOMAIN InQueries!InvitationOps :
          InQueries!Matters(op, q) <=> HasAny("invitation", q)
    <2>1. \A op \in DOMAIN InQueries!InvitationOps :
              InQueries!Touches[op] = InQueries!All({"invitation"})
        BY TouchedAre DEF InQueries!InvitationTouches
    <2>2. QED
        BY <2>1, AnyOfOne DEF InQueries!Matters
<1>10. \A op \in DOMAIN InQueries!PullRequestOps :
           InQueries!Matters(op, q) <=> HasAny("pullRequest", q)
    <2>1. \A op \in DOMAIN InQueries!PullRequestOps :
              InQueries!Touches[op] = InQueries!All({"pullRequest"})
        BY TouchedAre DEF InQueries!PullRequestTouches
    <2>2. QED
        BY <2>1, AnyOfOne DEF InQueries!Matters
<1>11. \A op \in DOMAIN InQueries!WorkspaceOps : InQueries!Matters(op, q) <=> HasAny("tenant", q)
    <2>1. \A op \in DOMAIN InQueries!WorkspaceOps :
              InQueries!Touches[op] = InQueries!All({"tenant"})
        BY TouchedAre, OpsAre DEF InQueries!WorkspaceTouches
    <2>2. QED
        BY <2>1, AnyOfOne DEF InQueries!Matters
<1>12. \A op \in DOMAIN InQueries!GitHubOps :
           InQueries!Matters(op, q) <=> <<"repository", "state">> \in shown
    BY TouchedAre DEF InQueries!GitHubTouches, InQueries!Matters
<1> HIDE DEF shown
<1>13. /\ InQueries!Matters("createFeature", q)
              <=> q \in {"features", "feature", "projects", "project", "users", "user", "stats"}
       /\ InQueries!Matters("updateFeature", q)
              <=> q \in {"features", "feature", "bugs", "bug", "project", "releases", "release",
                        "users", "user", "pullRequests", "pullRequest", "stats"}
       /\ InQueries!Matters("deleteFeature", q)
              <=> q \in {"features", "feature", "bugs", "bug", "projects", "project", "releases",
                        "release", "users", "user", "pullRequests", "pullRequest", "stats"}
       /\ \A op \in DOMAIN InQueries!BugOps :
              InQueries!Matters(op, q)
                  <=> q \in {"features", "feature", "bugs", "bug", "project", "stats"}
    BY <1>1, <1>2, <1>3, AnyAre, ShowsAre, OpsAre DEF shown
<1>14. /\ InQueries!Matters("createProject", q) => q \in {"projects", "project", "stats"}
       /\ InQueries!Matters("updateProject", q)
              <=> q \in {"features", "feature", "bugs", "bug", "projects", "project", "release",
                        "user", "pullRequest"}
       /\ InQueries!Matters("deleteProject", q)
              <=> q \in {"features", "feature", "bugs", "bug", "projects", "project", "releases",
                        "release", "users", "user", "pullRequests", "pullRequest", "stats",
                        "installation"}
    BY <1>4, <1>5, AnyAre, ShowsAre, OpsAre DEF shown
<1>15. /\ InQueries!Matters("createRelease", q) => q \in {"releases", "release", "stats"}
       /\ InQueries!Matters("updateRelease", q) => q \in {"releases", "release"}
       /\ InQueries!Matters("deleteRelease", q) => q \in {"releases", "release", "stats"}
    BY <1>6, <1>7, AnyAre, ShowsAre, OpsAre DEF shown
<1>16. /\ \A op \in {"updateMe", "updateUser"} :
              InQueries!Matters(op, q)
                  <=> q \in {"features", "feature", "bugs", "bug", "project", "users", "me", "user"}
       /\ \A op \in {"createUser", "deactivateUser"} :
              InQueries!Matters(op, q) => q \in {"users", "me", "user", "stats"}
    BY <1>8, AnyAre, ShowsAre, OpsAre DEF shown
<1>17. /\ \A op \in DOMAIN InQueries!InvitationOps :
              InQueries!Matters(op, q) => q = "invitations"
       /\ \A op \in DOMAIN InQueries!PullRequestOps :
              InQueries!Matters(op, q)
                  => q \in {"features", "feature", "pullRequests", "pullRequest"}
       /\ \A op \in DOMAIN InQueries!WorkspaceOps :
              InQueries!Matters(op, q) => q = "workspace"
       /\ \A op \in DOMAIN InQueries!GitHubOps :
              InQueries!Matters(op, q) => q \in {"project", "installation"}
    BY <1>9, <1>10, <1>11, <1>12, AnyAre, ShowsAre, OpsAre DEF shown
<1>18. QED
    BY <1>13, <1>14, <1>15, <1>16, <1>17

\* What is overlooked, change by change.
LEMMA OverlookedAre ==
    ASSUME NEW op, NEW q
    PROVE  <<op, q>> \in InQueries!Overlooked
               <=> \/ /\ op = "createFeature"
                      /\ q \in {"project", "users", "user", "projects"}
                   \/ /\ op = "updateFeature"
                      /\ q \in {"project", "users", "user", "bugs", "bug", "releases", "release",
                               "pullRequests", "pullRequest"}
                   \/ /\ op = "deleteFeature"
                      /\ q \in {"project", "users", "user", "projects", "bugs", "bug", "releases",
                               "release", "pullRequests", "pullRequest"}
                   \/ op \in {"createBug", "updateBug", "deleteBug"} /\ q = "project"
                   \/ /\ op = "updateProject"
                      /\ q \in {"features", "feature", "bugs", "bug", "release", "user", "pullRequest"}
                   \/ /\ op = "deleteProject"
                      /\ q \in {"features", "feature", "bugs", "bug", "release", "user", "pullRequest",
                               "releases", "users", "pullRequests", "installation"}
                   \/ /\ op \in {"updateMe", "updateUser"}
                      /\ q \in {"features", "feature", "bugs", "bug", "project"}
BY DEF InQueries!Overlooked

\* The hook of a change names a query that the change matters to, unless the two are overlooked;
\* and each pair that is said to be overlooked is.
THEOREM HooksName ==
    ASSUME NEW op \in InQueries!Ops, NEW q \in DOMAIN InQueries!Key
    PROVE  /\ InQueries!Matters(op, q) =>
                  InQueries!Names(op, q) \/ <<op, q>> \in InQueries!Overlooked
           /\ <<op, q>> \in InQueries!Overlooked =>
                  InQueries!Matters(op, q) /\ ~InQueries!Names(op, q)
<1>1. q \in QueryNames
    BY KeysAre
<1>2. CASE op \in DOMAIN InQueries!FeatureOps
    BY <1>1, <1>2, OpsAre, HookedAre, MattersAre, OverlookedAre
<1>3. CASE op \in DOMAIN InQueries!BugOps
    BY <1>1, <1>3, OpsAre, HookedAre, MattersAre, OverlookedAre
<1>4. CASE op \in DOMAIN InQueries!ProjectOps
    BY <1>1, <1>4, OpsAre, HookedAre, MattersAre, OverlookedAre
<1>5. CASE op \in DOMAIN InQueries!ReleaseOps
    BY <1>1, <1>5, OpsAre, HookedAre, MattersAre, OverlookedAre
<1>6. CASE op \in DOMAIN InQueries!UserOps
    BY <1>1, <1>6, OpsAre, HookedAre, MattersAre, OverlookedAre
<1>7. CASE op \in UNION {DOMAIN InQueries!InvitationOps, DOMAIN InQueries!PullRequestOps,
                        DOMAIN InQueries!WorkspaceOps, DOMAIN InQueries!GitHubOps}
    BY <1>1, <1>7, OpsAre, HookedAre, MattersAre, OverlookedAre
<1>8. QED
    BY <1>2, <1>3, <1>4, <1>5, <1>6, <1>7, InvalidatedAre

(***************************************************************************)
(* The inductive invariant of a query.                                      *)
(***************************************************************************)

QueryTyped ==
    /\ query \in CachedQueries /\ changes \in Seq(InQueries!Ops)
    /\ told \subseteq applied /\ applied \subseteq DOMAIN changes

\* The changes that the member was told of and expects to see.
Expected ==
    {i \in told \ missed : /\ InQueries!Matters(changes[i], query)
                           /\ <<changes[i], query>> \notin InQueries!Overlooked}

\* The cached answer has them, or is marked, ...
CacheHas == \A i \in Expected : queryCache = None \/ invalid \/ i \in queryCache

\* ... and so has the answer under way, which will clear the mark.
FetchHas == \A i \in Expected : queryFetch \in {NotAsked, Asked} \/ i \in queryFetch

QueryInv == QueryTyped /\ CacheHas /\ FetchHas

LEMMA QueryInit == InQueries!Init => QueryInv
BY DEF InQueries!Init, QueryInv, QueryTyped, Expected, CacheHas, FetchHas

\* A hook whose change matters to the query invalidates it, unless the two are overlooked.
LEMMA OwedIsHit ==
    ASSUME QueryTyped, NEW i \in DOMAIN changes, InQueries!Matters(changes[i], query),
           <<changes[i], query>> \notin InQueries!Overlooked
    PROVE  InQueries!Hit(changes[i])
<1>1. changes[i] \in InQueries!Ops /\ query \in DOMAIN InQueries!Key
    BY ClientAssumption DEF QueryTyped, InQueries!CachesAssumption
<1>2. InQueries!Names(changes[i], query)
    BY <1>1, HooksName
<1>3. QED
    BY <1>2 DEF InQueries!Hit

\* A change that is made is owed to nobody yet.
LEMMA ChangeKeeps ==
    ASSUME QueryInv, NEW op \in InQueries!Ops, InQueries!Change(op)
    PROVE  QueryInv'
<1>1. /\ changes' = Append(changes, op)
      /\ UNCHANGED <<query, applied, told, queryCache, queryFetch, invalid, missed>>
    BY DEF InQueries!Change
<1>2. QueryTyped'
    BY <1>1 DEF QueryInv, QueryTyped
<1>3. \A i \in told : changes'[i] = changes[i]
    BY <1>1 DEF QueryInv, QueryTyped
<1>4. Expected' = Expected
    BY <1>1, <1>3 DEF Expected, InQueries!Matters
<1>5. QED
    BY <1>1, <1>2, <1>4 DEF QueryInv, CacheHas, FetchHas

LEMMA ApplyKeeps ==
    ASSUME QueryInv, NEW i \in InQueries!Ids, InQueries!Apply(i)
    PROVE  QueryInv'
<1>1. /\ i \in DOMAIN changes /\ applied' = applied \cup {i}
      /\ UNCHANGED <<query, changes, told, queryCache, queryFetch, invalid, missed>>
    BY DEF InQueries!Apply
<1>2. Expected' = Expected
    BY <1>1 DEF Expected, InQueries!Matters
<1>3. QED
    BY <1>1, <1>2 DEF QueryInv, QueryTyped, CacheHas, FetchHas

\* The answer of a call: what it changed is owed from here on, and its hook marks the cached
\* answer and calls off, or passes over, the one under way.
LEMMA SucceedKeeps ==
    ASSUME QueryInv, NEW i \in InQueries!Ids, InQueries!Succeed(i)
    PROVE  QueryInv'
<1>1. /\ i \in applied /\ told' = told \cup {i}
      /\ UNCHANGED <<query, changes, applied, queryCache>>
    BY DEF InQueries!Succeed
<1>2. QueryTyped'
    BY <1>1 DEF QueryInv, QueryTyped
<1>3. CASE InQueries!Hit(changes[i])
    <2>1. /\ invalid' = (queryCache # None \/ queryFetch # NotAsked)
          /\ queryFetch' = IF InQueries!Restarts THEN Asked ELSE queryFetch
          /\ missed' = IF InQueries!Restarts \/ queryFetch \in {NotAsked, Asked} \/ i \in queryFetch
                       THEN missed ELSE missed \cup {i}
        BY <1>3 DEF InQueries!Succeed
    <2>2. CacheHas'
        BY <1>1, <2>1 DEF CacheHas
    <2>3. Expected' \subseteq Expected \cup ({i} \ missed')
        BY <1>1, <2>1 DEF Expected, InQueries!Matters
    <2>4. FetchHas'
        BY <2>1, <2>3 DEF QueryInv, FetchHas
    <2>5. QED
        BY <1>2, <2>2, <2>4 DEF QueryInv
<1>4. CASE ~InQueries!Hit(changes[i])
    <2>1. UNCHANGED <<invalid, queryFetch, missed>>
        BY <1>4 DEF InQueries!Succeed
    <2>2. ~InQueries!Matters(changes[i], query) \/ <<changes[i], query>> \in InQueries!Overlooked
        BY <1>1, <1>4, OwedIsHit DEF QueryInv, QueryTyped
    <2>3. Expected' = Expected
        BY <1>1, <2>1, <2>2 DEF Expected, InQueries!Matters
    <2>4. QED
        BY <1>1, <1>2, <2>1, <2>3 DEF QueryInv, CacheHas, FetchHas
<1>5. QED
    BY <1>3, <1>4

\* What is read now has every change that the server has made.
LEMMA ReadKeeps ==
    ASSUME QueryInv, InQueries!Read
    PROVE  QueryInv'
<1>1. /\ queryFetch' = applied
      /\ UNCHANGED <<query, changes, applied, told, queryCache, invalid, missed>>
    BY DEF InQueries!Read
<1>2. Expected' = Expected /\ Expected \subseteq applied
    BY <1>1 DEF Expected, InQueries!Matters, QueryInv, QueryTyped
<1>3. QED
    BY <1>1, <1>2 DEF QueryInv, QueryTyped, CacheHas, FetchHas

\* The answer that clears the mark has what is owed itself.
LEMMA AnswerKeeps ==
    ASSUME QueryInv, InQueries!Answer
    PROVE  QueryInv'
<1>1. /\ queryFetch \notin {NotAsked, Asked} /\ queryCache' = queryFetch
      /\ queryFetch' = NotAsked
      /\ UNCHANGED <<query, changes, applied, told, missed>>
    BY DEF InQueries!Answer
<1>2. Expected' = Expected
    BY <1>1 DEF Expected, InQueries!Matters
<1>3. QED
    BY <1>1, <1>2 DEF QueryInv, QueryTyped, CacheHas, FetchHas

\* Nothing is owed by a query that is not asked for, or only asked for.
LEMMA OtherKeeps ==
    ASSUME QueryInv, UNCHANGED <<query, changes, applied, told, queryCache, missed>>,
           queryFetch' \in {NotAsked, Asked} \/ queryFetch' = queryFetch,
           (invalid' = invalid) \/ invalid'
    PROVE  QueryInv'
<1>1. Expected' = Expected
    BY DEF Expected, InQueries!Matters
<1>2. QueryTyped' /\ FetchHas'
    BY <1>1 DEF QueryInv, QueryTyped, FetchHas
<1>3. CacheHas'
    BY <1>1 DEF QueryInv, CacheHas
<1>4. QED
    BY <1>2, <1>3 DEF QueryInv

LEMMA QueryNext == QueryInv /\ [InQueries!Next]_(InQueries!vars) => QueryInv'
<1> SUFFICES ASSUME QueryInv, [InQueries!Next]_(InQueries!vars)
             PROVE  QueryInv'
    OBVIOUS
<1>1. CASE UNCHANGED InQueries!vars
    BY <1>1, OtherKeeps DEF InQueries!vars
<1>2. ASSUME NEW i \in InQueries!Ids, InQueries!Lose(i)
      PROVE  QueryInv'
    BY <1>2, OtherKeeps DEF InQueries!Lose
<1>3. CASE InQueries!Mount
    BY <1>3, OtherKeeps DEF InQueries!Mount
<1>4. CASE InQueries!Unmount
    BY <1>4, OtherKeeps DEF InQueries!Unmount
<1>5. CASE InQueries!NotFound
    BY <1>5, OtherKeeps DEF InQueries!NotFound
<1>6. CASE InQueries!Fail
    BY <1>6, OtherKeeps DEF InQueries!Fail
<1>7. CASE InQueries!Age
    BY <1>7, OtherKeeps DEF InQueries!Age
<1>8. QED
    BY <1>1, <1>2, <1>3, <1>4, <1>5, <1>6, <1>7, ChangeKeeps, ApplyKeeps, SucceedKeeps, ReadKeeps,
       AnswerKeeps
    DEF InQueries!Next

\* Whatever changes, fetches and failures overlapped: an answer shown as good has every change
\* that the member was told of, but for one that met an older first answer, and for the pairs of
\* change and query that are overlooked.  HooksName shows that these pairs are exactly those whose
\* answer (the select of the service's findAll or findOne) has something that the change touches
\* while the mutation's onSuccess names no prefix of the query's key.
THEOREM ChangesAreShown == InQueries!Spec => []OwnChangesShown
<1>1. QueryInv => OwnChangesShown
    BY DEF QueryInv, CacheHas, Expected, OwnChangesShown, InQueries!OwnChangesShown
<1>2. InQueries!Spec => []QueryInv
    BY QueryInit, QueryNext, PTL DEF InQueries!Spec
<1>3. QED
    BY <1>1, <1>2, PTL

(***************************************************************************)
(* The chart: any change of the clocks that skips no midnight, any number   *)
(* of weeks and timestamps.                                                 *)
(***************************************************************************)

\* Midnight of a day, and a day's week.
LEMMA DaysAndWeeks ==
    /\ \A l \in Int : /\ l \div 24 \in Int /\ l \div 168 \in Int
                      /\ (l \div 24) - ((l \div 24) % 7) = 7 * (l \div 168)
    /\ \A d \in Int : (24 * d) \div 24 = d /\ (24 * d) % 24 = 0
    /\ \A k \in Int : (168 * k) \div 168 = k /\ (168 * k) \div 24 = 7 * k
OBVIOUS

\* A change of the clocks, in a zone of the assumption.
LEMMA ZoneIs ==
    ASSUME zone \in Zones
    PROVE  /\ zone.at \in Nat /\ zone.before \in Nat /\ zone.after \in Nat
           /\ \A l \in Int : l % 24 = 0 => ~(zone.at + zone.before <= l /\ l < zone.at + zone.after)
<1>1. /\ zone.at \in Nat /\ {zone.before, zone.after} \subseteq 0..24
      /\ \A l \in zone.at + zone.before .. zone.at + zone.after - 1 : l % 24 # 0
    BY ClientAssumption DEF InChart!BucketsAssumption, InChart!DAY
<1>2. ASSUME NEW l \in Int, zone.at + zone.before <= l, l < zone.at + zone.after
      PROVE  l \in zone.at + zone.before .. zone.at + zone.after - 1
    BY <1>1, <1>2
<1>3. QED
    BY <1>1, <1>2

\* The instant of a midnight is at that midnight.
LEMMA MidnightIs ==
    ASSUME zone \in Zones, NEW l \in Int, l % 24 = 0
    PROVE  InChart!Instant(l) \in Int /\ InChart!Local(InChart!Instant(l)) = l
<1> DEFINE before == l - zone.before
           after == l - zone.after
<1>1. /\ zone.at \in Int /\ zone.before \in Int /\ zone.after \in Int
      /\ before \in Int /\ after \in Int
      /\ before + zone.before = l /\ after + zone.after = l
      /\ ~(before >= zone.at /\ after < zone.at)
    BY ZoneIs
<1>2. InChart!Instant(l) = IF before < zone.at \/ after < zone.at THEN before ELSE after
    BY DEF InChart!Instant
<1> HIDE DEF before, after
<1>3. InChart!Instant(l) = IF before < zone.at THEN before ELSE after
    BY <1>1, <1>2
<1>4. QED
    BY <1>1, <1>3 DEF InChart!Local

LEMMA LocalIs ==
    ASSUME zone \in Zones, NEW t \in Int
    PROVE  InChart!Local(t) \in Int
BY ZoneIs DEF InChart!Local

\* The start of the k-th week.
Monday(k) == InChart!Instant(168 * k)

LEMMA MondayIs ==
    ASSUME zone \in Zones, NEW k \in Int
    PROVE  Monday(k) \in Int /\ InChart!Local(Monday(k)) = 168 * k
<1>1. 168 * k \in Int /\ (168 * k) % 24 = 0
    OBVIOUS
<1>2. QED
    BY <1>1, MidnightIs DEF Monday

\* startOfWeek: the Monday before, through midnight and setDate.
LEMMA StartOfWeekIs ==
    ASSUME zone \in Zones, NEW t \in Int
    PROVE  InChart!StartOfWeek(t) = Monday(InChart!Local(t) \div 168)
<1> DEFINE d == InChart!Local(t) \div 24
           r == InChart!SetMidnight(t)
           w == InChart!Local(t) \div 168
<1>1. d \in Int /\ w \in Int /\ d - (d % 7) = 7 * w /\ d % 7 \in Int
    BY LocalIs, DaysAndWeeks
<1>2. r = InChart!Instant(d * 24)
    BY DEF InChart!SetMidnight, InChart!DAY
<1>3. InChart!StartOfWeek(t) = InChart!AddDays(r, -((InChart!Local(r) \div 24) % 7))
    BY DEF InChart!StartOfWeek, InChart!DAY
<1> HIDE DEF d, r, w
<1>4. InChart!Local(r) = d * 24
    <2>1. d * 24 \in Int /\ (d * 24) % 24 = 0
        BY <1>1
    <2>2. QED
        BY <1>2, <2>1, MidnightIs
<1>5. (d * 24) \div 24 = d
    BY <1>1
<1>6. InChart!StartOfWeek(t) = InChart!Instant(d * 24 + (-(d % 7)) * 24)
    BY <1>3, <1>4, <1>5 DEF InChart!AddDays, InChart!DAY
<1>7. d * 24 + (-(d % 7)) * 24 = 168 * w
    <2>1. \A a, b, c \in Int : a - b = 7 * c => a * 24 + (-b) * 24 = 168 * c
        OBVIOUS
    <2>2. QED
        BY <1>1, <2>1
<1>8. QED
    BY <1>6, <1>7 DEF Monday, w

\* addWeeks: as many Mondays on.
LEMMA AddWeeksIs ==
    ASSUME zone \in Zones, NEW k \in Int, NEW n \in Int
    PROVE  InChart!AddWeeks(Monday(k), n) = Monday(k + n)
<1>1. InChart!AddDays(Monday(k), 7 * n) = InChart!Instant(168 * k + (7 * n) * 24)
    BY MondayIs DEF InChart!AddDays, InChart!DAY
<1>2. 168 * k + (7 * n) * 24 = 168 * (k + n)
    OBVIOUS
<1>3. InChart!AddDays(Monday(k), 7 * n) = Monday(k + n)
    BY <1>1, <1>2 DEF Monday
<1>4. InChart!AddWeeks(Monday(k), n) = InChart!Instant((InChart!Local(Monday(k + n)) \div 24) * 24)
    BY <1>3 DEF InChart!AddWeeks, InChart!SetMidnight, InChart!DAY
<1>5. InChart!Local(Monday(k + n)) = 168 * (k + n)
    BY MondayIs
<1>6. ((168 * (k + n)) \div 24) * 24 = 168 * (k + n)
    OBVIOUS
<1>7. QED
    BY <1>4, <1>5, <1>6 DEF Monday

\* Weeks that start at one instant are one week.
LEMMA MondaysDiffer ==
    ASSUME zone \in Zones, NEW j \in Int, NEW k \in Int, Monday(j) = Monday(k)
    PROVE  j = k
<1>1. 168 * j = 168 * k
    BY MondayIs
<1>2. QED
    BY <1>1

\* The week that a timestamp falls in, and that of a bucket.
WeekOf(t) == InChart!Local(t) \div 168
BucketWeek(i) == WeekOf(now) - (Weeks - 1) + i

\* A bucket starts when the week of a timestamp starts if it is the bucket of that week.
LEMMA BucketIs ==
    ASSUME zone \in Zones, now \in Int, Weeks \in Nat, NEW t \in Int, NEW i \in Int
    PROVE  InChart!Start(i) = InChart!StartOfWeek(t) <=> WeekOf(t) = BucketWeek(i)
<1>1. WeekOf(t) \in Int /\ WeekOf(now) \in Int
    BY LocalIs, DaysAndWeeks DEF WeekOf
<1>2. /\ InChart!StartOfWeek(t) = Monday(WeekOf(t))
      /\ InChart!StartOfWeek(now) = Monday(WeekOf(now))
    BY StartOfWeekIs DEF WeekOf
<1>3. InChart!FirstWeek = Monday(WeekOf(now) + (-(Weeks - 1)))
    BY <1>1, <1>2, AddWeeksIs DEF InChart!FirstWeek
<1>4. WeekOf(now) + (-(Weeks - 1)) \in Int
    BY <1>1
<1>5. InChart!Start(i) = Monday(WeekOf(now) + (-(Weeks - 1)) + i)
    BY <1>3, <1>4, AddWeeksIs DEF InChart!Start
<1>6. WeekOf(now) + (-(Weeks - 1)) + i = BucketWeek(i) /\ BucketWeek(i) \in Int
    BY <1>1 DEF BucketWeek
<1>7. QED
    BY <1>1, <1>2, <1>5, <1>6, MondaysDiffer

InBucket(i) == {t \in completed : WeekOf(t) = BucketWeek(i)}

ChartInv ==
    /\ zone \in Zones /\ now \in Nows /\ completed \subseteq Timestamps /\ IsFiniteSet(completed)
    /\ buckets \in [0..(Weeks - 1) -> Nat]
    /\ \A i \in 0..(Weeks - 1) : buckets[i] = Cardinality(InBucket(i))

LEMMA ChartInit == InChart!Init => ChartInv
<1> SUFFICES ASSUME InChart!Init PROVE ChartInv
    OBVIOUS
<1>1. \A i : InBucket(i) = {}
    BY DEF InChart!Init, InBucket
<1>2. QED
    BY <1>1, FS_EmptySet DEF InChart!Init, ChartInv

LEMMA CountKeeps ==
    ASSUME ChartInv, NEW t \in Timestamps, InChart!Count(t)
    PROVE  ChartInv'
<1>1. /\ t \notin completed /\ completed' = completed \cup {t}
      /\ buckets' = [i \in 0..(Weeks - 1) |->
                        IF InChart!Start(i) = InChart!StartOfWeek(t) THEN buckets[i] + 1
                        ELSE buckets[i]]
      /\ UNCHANGED <<zone, now>>
    BY DEF InChart!Count, ChartInv
<1>2. t \in Int /\ now \in Int /\ Weeks \in Nat
    BY ClientAssumption DEF ChartInv, InChart!BucketsAssumption
<1>3. \A i \in 0..(Weeks - 1) :
          InChart!Start(i) = InChart!StartOfWeek(t) <=> WeekOf(t) = BucketWeek(i)
    BY <1>2, BucketIs DEF ChartInv
<1>4. \A i : InBucket(i)' = IF WeekOf(t) = BucketWeek(i) THEN InBucket(i) \cup {t} ELSE InBucket(i)
    BY <1>1 DEF InBucket, WeekOf, BucketWeek, InChart!Local
<1>5. \A i : IsFiniteSet(InBucket(i)) /\ t \notin InBucket(i)
    BY <1>1, FS_Subset DEF ChartInv, InBucket
<1>6. \A i \in 0..(Weeks - 1) : buckets'[i] = Cardinality(InBucket(i)') /\ buckets'[i] \in Nat
    <2> SUFFICES ASSUME NEW i \in 0..(Weeks - 1)
                 PROVE  buckets'[i] = Cardinality(InBucket(i)') /\ buckets'[i] \in Nat
        OBVIOUS
    <2>1. buckets[i] \in Nat /\ buckets[i] = Cardinality(InBucket(i))
        BY DEF ChartInv
    <2>2. Cardinality(InBucket(i) \cup {t}) = Cardinality(InBucket(i)) + 1
        BY <1>5, FS_AddElement
    <2>3. buckets'[i] = IF WeekOf(t) = BucketWeek(i) THEN buckets[i] + 1 ELSE buckets[i]
        BY <1>1, <1>3
    <2>4. CASE WeekOf(t) = BucketWeek(i)
        <3>1. InBucket(i)' = InBucket(i) \cup {t} /\ buckets'[i] = buckets[i] + 1
            BY <1>4, <2>3, <2>4
        <3>2. Cardinality(InBucket(i)') = Cardinality(InBucket(i)) + 1
            BY <2>2, <3>1
        <3>3. QED
            BY <2>1, <3>1, <3>2
    <2>5. CASE WeekOf(t) # BucketWeek(i)
        <3>1. InBucket(i)' = InBucket(i) /\ buckets'[i] = buckets[i]
            BY <1>4, <2>3, <2>5
        <3>2. QED
            BY <2>1, <3>1
    <2>6. QED
        BY <2>4, <2>5
<1>7. IsFiniteSet(completed')
    BY <1>1, FS_AddElement DEF ChartInv
<1>8. buckets' \in [0..(Weeks - 1) -> Nat]
    BY <1>1, <1>6
<1>9. QED
    BY <1>1, <1>6, <1>7, <1>8 DEF ChartInv

LEMMA ChartNext == ChartInv /\ [InChart!Next]_(InChart!vars) => ChartInv'
<1> SUFFICES ASSUME ChartInv, [InChart!Next]_(InChart!vars) PROVE ChartInv'
    OBVIOUS
<1>1. CASE UNCHANGED InChart!vars
    BY <1>1 DEF ChartInv, InBucket, WeekOf, BucketWeek, InChart!Local, InChart!vars
<1>2. QED
    BY <1>1, CountKeeps DEF InChart!Next

\* "Count timestamps into `weeks` consecutive weekly buckets ending with the current week": the
\* start of a bucket (addWeeks) is the instant that startOfWeek finds for each timestamp of its
\* local week and for no other, wherever the clocks are changed but over a midnight.
THEOREM TimestampsArePlaced == InChart!Spec => []Placed
<1>1. ChartInv => Placed
    <2> SUFFICES ASSUME ChartInv, NEW i \in 0..(Weeks - 1)
                 PROVE  buckets[i] = InChart!Cardinality(InBucket(i))
        BY DEF ChartInv, Placed, InChart!Placed, InBucket, WeekOf, BucketWeek, InChart!WEEK,
               InChart!DAY
    <2>1. InChart!Cardinality(InBucket(i)) = Cardinality(InBucket(i))
        BY Zenon DEF InChart!Cardinality, Cardinality, InChart!IsFiniteSet, IsFiniteSet
    <2>2. QED
        BY <2>1 DEF ChartInv
<1>2. InChart!Spec => []ChartInv
    BY ChartInit, ChartNext, PTL DEF InChart!Spec
<1>3. QED
    BY <1>1, <1>2, PTL

(***************************************************************************)
(* The type invariants.  Of the notifications: the unread count exceeds     *)
(* the rows that may be by no more than the rows shown.                     *)
(***************************************************************************)

PageOK(c) ==
    /\ c.read \subseteq c.rows /\ c.unread <= MaxRows + Cardinality(c.rows)
    /\ ~c.loaded => c = InCache!Empty

FetchOK(q) == q.read \subseteq q.rows /\ q.unread <= MaxRows

CountsOK == marks \in 0..MaxMarks /\ failed \in 0..MaxFaults /\ excused \subseteq Severities

PagesOK == \A s \in Severities : PageOK(cache[s])
FetchesOK == \A s \in Severities : FetchOK(fetch[s])

MarksOK == \A m \in mutations : m.rows \subseteq InCache!Rows

NoticeTypes ==
    NoticesInv /\ Len(table) <= MaxRows /\ PagesOK /\ FetchesOK /\ MarksOK /\ CountsOK

LEMMA NoticeBounds == MaxRows \in Nat /\ MaxMarks \in Nat /\ MaxFaults \in Nat
BY ClientAssumption DEF InCache!CacheAssumption

LEMMA NoticeTypesInit == InCache!Init => NoticeTypes
<1> SUFFICES ASSUME InCache!Init PROVE NoticeTypes
    OBVIOUS
<1>1. NoticesInv
    BY NoticesInit
<1>2. Cardinality({}) = 0
    BY FS_EmptySet
<1>3. Len(table) <= MaxRows /\ MarksOK /\ CountsOK
    BY NoticeBounds DEF InCache!Init, MarksOK, CountsOK
<1>4. PageOK(InCache!Empty) /\ FetchOK(InCache!NoFetch)
    BY <1>2, NoticeBounds DEF InCache!Empty, InCache!NoFetch, PageOK, FetchOK
<1>5. PagesOK /\ FetchesOK
    BY <1>4 DEF InCache!Init, PagesOK, FetchesOK, Severities
<1>6. QED
    BY <1>1, <1>3, <1>5 DEF NoticeTypes

\* What is shown and what is fetched are rows of the table.
LEMMA PageRows ==
    ASSUME NoticeTypes, NEW s \in Severities
    PROVE  /\ DOMAIN table \subseteq InCache!Rows
           /\ cache[s].rows \subseteq InCache!Rows /\ fetch[s].rows \subseteq InCache!Rows
           /\ IsFiniteSet(cache[s].rows) /\ IsFiniteSet(fetch[s].rows)
           /\ Cardinality(cache[s].rows) \in 0..MaxRows
           /\ Cardinality(fetch[s].rows) \in Nat
           /\ InCache!Cardinality(InCache!Of(s) \ InCache!ReadRows) \in 0..MaxRows
<1>1. MaxRows \in Nat /\ InCache!Rows = 1..MaxRows
    BY NoticeBounds DEF InCache!Rows
<1>2. IsFiniteSet(InCache!Rows) /\ Cardinality(InCache!Rows) = MaxRows
    BY <1>1, FS_Interval
<1>3. DOMAIN table \subseteq InCache!Rows
    <2>1. Len(table) \in Nat /\ DOMAIN table = 1..Len(table) /\ Len(table) <= MaxRows
        BY DEF NoticeTypes, NoticesInv, NoticesTyped
    <2>2. QED
        BY <1>1, <2>1
<1>4. /\ cache[s].rows \subseteq InCache!Rows /\ fetch[s].rows \subseteq InCache!Rows
      /\ InCache!Of(s) \ InCache!ReadRows \subseteq InCache!Rows
    BY <1>3 DEF NoticeTypes, NoticesInv, RowsKnown, InCache!Of
<1>5. \A S : S \subseteq InCache!Rows => IsFiniteSet(S) /\ Cardinality(S) \in 0..MaxRows
    <2> SUFFICES ASSUME NEW S, S \subseteq InCache!Rows
                 PROVE  IsFiniteSet(S) /\ Cardinality(S) \in 0..MaxRows
        OBVIOUS
    <2>1. IsFiniteSet(S) /\ Cardinality(S) <= MaxRows
        BY <1>2, FS_Subset
    <2>2. Cardinality(S) \in Nat
        BY <2>1, FS_CardinalityType
    <2>3. QED
        BY <1>1, <2>1, <2>2
<1>6. InCache!Cardinality(InCache!Of(s) \ InCache!ReadRows) \in 0..MaxRows
    BY <1>4, <1>5, OneCardinality
<1>7. /\ IsFiniteSet(cache[s].rows) /\ Cardinality(cache[s].rows) \in 0..MaxRows
      /\ IsFiniteSet(fetch[s].rows) /\ Cardinality(fetch[s].rows) \in 0..MaxRows
    BY <1>4, <1>5
<1>8. QED
    BY <1>1, <1>3, <1>4, <1>6, <1>7

LEMMA NoticeTypesImply == NoticeTypes => InCache!TypeOK
<1> SUFFICES ASSUME NoticeTypes PROVE InCache!TypeOK
    OBVIOUS
<1> USE DEF Severities
<1>1. table \in Seq([severity : InCache!Severity, read : BOOLEAN]) /\ pushed \subseteq DOMAIN table
    BY DEF NoticeTypes, NoticesInv, NoticesTyped, TableRow
<1>2. \A i \in DOMAIN events : events[i].type \in {"NOTIFICATION", "SUMMARY"}
    BY DEF NoticeTypes, NoticesInv, NoticesTyped, Event
<1>3. ASSUME NEW s \in InCache!Severity
      PROVE  /\ cache[s] \in [loaded : BOOLEAN, rows : SUBSET InCache!Rows,
                              read : SUBSET InCache!Rows, unread : 0..2 * MaxRows]
             /\ fetch[s] \in [phase : {"none", "list", "count", "answer"},
                              rows : SUBSET InCache!Rows, read : SUBSET InCache!Rows,
                              unread : 0..MaxRows]
             /\ cache[s].read \subseteq cache[s].rows
             /\ ~cache[s].loaded => cache[s] = InCache!Empty
    <2>1. cache[s] \in PageRecord /\ fetch[s] \in Fetched
        BY DEF NoticeTypes, NoticesInv, NoticesTyped
    <2>2. PageOK(cache[s]) /\ FetchOK(fetch[s])
        BY DEF NoticeTypes, PagesOK, FetchesOK
    <2>3. /\ cache[s].rows \subseteq InCache!Rows /\ fetch[s].rows \subseteq InCache!Rows
          /\ Cardinality(cache[s].rows) \in 0..MaxRows
        BY PageRows
    <2>4. cache[s].unread \in 0..2 * MaxRows /\ fetch[s].unread \in 0..MaxRows
        BY <2>1, <2>2, <2>3, NoticeBounds DEF PageRecord, Fetched, PageOK, FetchOK
    <2>5. cache[s].read \subseteq InCache!Rows /\ fetch[s].read \subseteq InCache!Rows
        BY <2>2, <2>3 DEF PageOK, FetchOK
    <2>6. QED
        BY <2>1, <2>2, <2>3, <2>4, <2>5 DEF PageRecord, Fetched, PageOK
<1>4. cache \in [InCache!Severity -> [loaded : BOOLEAN, rows : SUBSET InCache!Rows,
                                      read : SUBSET InCache!Rows, unread : 0..2 * MaxRows]]
    BY <1>3 DEF NoticeTypes, NoticesInv, NoticesTyped
<1>5. fetch \in [InCache!Severity -> [phase : {"none", "list", "count", "answer"},
                     rows : SUBSET InCache!Rows, read : SUBSET InCache!Rows, unread : 0..MaxRows]]
    BY <1>3 DEF NoticeTypes, NoticesInv, NoticesTyped
<1>6. ASSUME NEW m \in mutations PROVE m.rows \subseteq InCache!Rows /\ m.done \in BOOLEAN
    BY DEF NoticeTypes, NoticesInv, NoticesTyped, Mutation, MarksOK
<1>7. QED
    BY <1>1, <1>2, <1>3, <1>4, <1>5, <1>6 DEF NoticeTypes, CountsOK, InCache!TypeOK

\* A page that is kept.
LEMMA PageKept ==
    ASSUME NoticeTypes, NEW s \in Severities, NEW c, c = cache[s]
    PROVE  /\ c \in PageRecord /\ PageOK(c)
           /\ IsFiniteSet(c.rows) /\ Cardinality(c.rows) \in Nat
<1>1. cache \in [Severities -> PageRecord]
    BY DEF NoticeTypes, NoticesInv, NoticesTyped
<1>2. PageOK(cache[s])
    BY DEF NoticeTypes, PagesOK
<1>3. IsFiniteSet(c.rows) /\ Cardinality(c.rows) \in 0..MaxRows
    BY PageRows
<1>4. QED
    BY <1>1, <1>2, <1>3, NoticeBounds

\* What a step may do to the pages, the fetches and the calls, one at a time.
LEMMA NoticeTypesStep ==
    ASSUME NoticeTypes, InCache!Next, Len(table') <= MaxRows, MarksOK', CountsOK',
           PagesOK' \/ UNCHANGED cache, FetchesOK' \/ UNCHANGED fetch
    PROVE  NoticeTypes'
<1>1. NoticesInv'
    BY NoticesNext DEF NoticeTypes
<1>2. PagesOK' /\ FetchesOK'
    BY DEF NoticeTypes, PagesOK, FetchesOK
<1>3. QED
    BY <1>1, <1>2 DEF NoticeTypes

LEMMA OneFetchOK ==
    ASSUME NoticeTypes, NEW s \in Severities, NEW q, FetchOK(q), fetch' = [fetch EXCEPT ![s] = q]
    PROVE  FetchesOK'
<1>1. \A t \in Severities : fetch'[t] = IF t = s THEN q ELSE fetch[t]
    BY DEF NoticeTypes, NoticesInv, NoticesTyped
<1>2. QED
    BY <1>1 DEF NoticeTypes, FetchesOK, FetchOK

LEMMA OnePageOK ==
    ASSUME NoticeTypes, NEW s \in Severities, NEW c, PageOK(c), cache' = [cache EXCEPT ![s] = c]
    PROVE  PagesOK'
<1>1. \A t \in Severities : cache'[t] = IF t = s THEN c ELSE cache[t]
    BY DEF NoticeTypes, NoticesInv, NoticesTyped
<1>2. \A t \in Severities : PageOK(cache'[t])
    BY <1>1 DEF NoticeTypes, PagesOK
<1>3. QED
    BY <1>2 DEF PagesOK, PageOK

\* The steps at the server.
LEMMA ServerTypes ==
    ASSUME NoticeTypes, InCache!Next,
           \/ \E s \in Severities : InCache!Create(s)
           \/ \E n \in InCache!Rows : InCache!Push(n) \/ InCache!Poll(n)
           \/ \E m \in mutations : InCache!MarkRead(m)
    PROVE  NoticeTypes'
<1>1. UNCHANGED <<cache, fetch, marks, failed>>
    BY DEF InCache!Create, InCache!Push, InCache!Poll, InCache!MarkRead
<1>2. Len(table) \in Nat /\ DOMAIN table = 1..Len(table) /\ Len(table) <= MaxRows
    BY DEF NoticeTypes, NoticesInv, NoticesTyped
<1>3. CASE \E s \in Severities : InCache!Create(s)
    <2>1. PICK s : InCache!Create(s)
        BY <1>3
    <2>2. Len(table') = Len(table) + 1 /\ Len(table) < MaxRows /\ UNCHANGED <<mutations, excused>>
        BY <2>1 DEF InCache!Create, NoticeTypes, NoticesInv, NoticesTyped
    <2>3. Len(table') <= MaxRows
        BY <1>2, <2>2, NoticeBounds
    <2>4. MarksOK' /\ CountsOK'
        BY <1>1, <2>2 DEF NoticeTypes, MarksOK, CountsOK, InCache!Rows
    <2>5. QED
        BY <1>1, <2>3, <2>4, NoticeTypesStep
<1>4. CASE \E n \in InCache!Rows : InCache!Push(n) \/ InCache!Poll(n)
    <2>1. PICK n : InCache!Push(n) \/ InCache!Poll(n)
        BY <1>4
    <2>2. /\ n \in DOMAIN table /\ UNCHANGED <<table, mutations>>
          /\ excused' = excused \/ excused' = excused \cup {table[n].severity}
        BY <2>1 DEF InCache!Push, InCache!Poll
    <2>3. table[n].severity \in Severities
        <3>1. table \in Seq(TableRow)
            BY DEF NoticeTypes, NoticesInv, NoticesTyped
        <3>2. table[n] \in TableRow
            BY <2>2, <3>1
        <3>3. QED
            BY <3>2 DEF TableRow
    <2>4. MarksOK' /\ CountsOK'
        BY <1>1, <2>2, <2>3 DEF NoticeTypes, MarksOK, CountsOK, InCache!Rows
    <2>5. QED
        BY <1>1, <1>2, <2>2, <2>4, NoticeTypesStep
<1>5. CASE \E m \in mutations : InCache!MarkRead(m)
    <2>1. PICK m \in mutations : InCache!MarkRead(m)
        BY <1>5
    <2>2. PICK r : r = [m EXCEPT !.done = TRUE]
        OBVIOUS
    <2>3. /\ mutations' = (mutations \ {m}) \cup {r} /\ UNCHANGED excused
          /\ DOMAIN table' = DOMAIN table
        BY <2>1, <2>2 DEF InCache!MarkRead
    <2>4. r.rows = m.rows
        BY <2>2 DEF NoticeTypes, NoticesInv, NoticesTyped, Mutation
    <2>5. MarksOK' /\ CountsOK'
        BY <1>1, <2>3, <2>4 DEF NoticeTypes, MarksOK, CountsOK, InCache!Rows
    <2>6. Len(table') <= MaxRows
        <3>1. NoticesInv'
            BY NoticesNext DEF NoticeTypes
        <3>2. Len(table') \in Nat /\ DOMAIN table' = 1..Len(table')
            BY <3>1 DEF NoticesInv, NoticesTyped
        <3>3. Len(table') = Len(table)
            BY <1>2, <2>3, <3>2
        <3>4. QED
            BY <1>2, <3>3
    <2>7. QED
        BY <1>1, <2>5, <2>6, NoticeTypesStep
<1>6. QED
    BY <1>3, <1>4, <1>5

\* A fetch counts no more rows than there may be, and its answer becomes the page.
LEMMA FetchTypes ==
    ASSUME NoticeTypes, InCache!Next, NEW s \in Severities,
           \/ InCache!FirstFetch(s) \/ InCache!ListRows(s) \/ InCache!ListCount(s)
           \/ InCache!Answer(s) \/ InCache!Retry(s)
    PROVE  NoticeTypes'
<1> PICK q : q = fetch[s]
    OBVIOUS
<1>1. UNCHANGED <<table, mutations, marks, excused>>
    BY DEF InCache!FirstFetch, InCache!ListRows, InCache!ListCount, InCache!Answer, InCache!Retry
<1>2. q \in Fetched /\ FetchOK(q) /\ fetch \in [Severities -> Fetched]
    BY DEF NoticeTypes, NoticesInv, NoticesTyped, FetchesOK
<1>3. MarksOK' /\ Len(table') <= MaxRows
    BY <1>1 DEF NoticeTypes, MarksOK, InCache!Rows
<1>4. failed' \in 0..MaxFaults
    <2>1. failed \in 0..MaxFaults
        BY DEF NoticeTypes, CountsOK
    <2>2. failed' = failed \/ (failed < MaxFaults /\ failed' = failed + 1)
        BY DEF InCache!FirstFetch, InCache!ListRows, InCache!ListCount, InCache!Answer,
               InCache!Retry
    <2>3. QED
        BY <2>1, <2>2, NoticeBounds
<1>5. CountsOK'
    BY <1>1, <1>4 DEF NoticeTypes, CountsOK
<1>6. FetchOK(InCache!NoFetch) /\ FetchOK([InCache!NoFetch EXCEPT !.phase = "list"])
    BY NoticeBounds DEF FetchOK, InCache!NoFetch
<1>7. FetchesOK'
    <2>1. CASE InCache!FirstFetch(s)
        <3> PICK new : new = [q EXCEPT !.phase = "list"]
            OBVIOUS
        <3>1. fetch' = [fetch EXCEPT ![s] = new]
            BY <1>2, <2>1 DEF InCache!FirstFetch
        <3>2. FetchOK(new)
            BY <1>2 DEF FetchOK, Fetched
        <3>3. QED
            BY <3>1, <3>2, OneFetchOK
    <2>2. CASE InCache!ListRows(s)
        <3> PICK rows : rows = InCache!Newest(InCache!Of(s))
            OBVIOUS
        <3> PICK new : new = [q EXCEPT !.phase = "count", !.rows = rows,
                                       !.read = rows \cap InCache!ReadRows]
            OBVIOUS
        <3>1. fetch' = [fetch EXCEPT ![s] = new]
            BY <2>2 DEF InCache!ListRows
        <3>2. FetchOK(new)
            BY <1>2 DEF FetchOK, Fetched
        <3>3. QED
            BY <3>1, <3>2, OneFetchOK
    <2>3. CASE InCache!ListCount(s)
        <3> PICK count : count = InCache!Cardinality(InCache!Of(s) \ InCache!ReadRows)
            OBVIOUS
        <3> PICK new : new = [q EXCEPT !.phase = "answer", !.unread = count]
            OBVIOUS
        <3>1. fetch' = [fetch EXCEPT ![s] = new]
            BY <2>3 DEF InCache!ListCount
        <3>2. count <= MaxRows
            BY PageRows
        <3>3. FetchOK(new)
            BY <1>2, <3>2 DEF FetchOK, Fetched
        <3>4. QED
            BY <3>1, <3>3, OneFetchOK
    <2>4. CASE InCache!Answer(s) \/ InCache!Retry(s)
        <3>1. \E new : FetchOK(new) /\ fetch' = [fetch EXCEPT ![s] = new]
            BY <1>6, <2>4 DEF InCache!Answer, InCache!Retry
        <3>2. QED
            BY <3>1, OneFetchOK
    <2>5. QED
        BY <2>1, <2>2, <2>3, <2>4
<1>8. PagesOK' \/ UNCHANGED cache
    <2>1. CASE InCache!Answer(s)
        <3> PICK c : c = [loaded |-> TRUE, rows |-> q.rows, read |-> q.read, unread |-> q.unread]
            OBVIOUS
        <3>1. cache' = [cache EXCEPT ![s] = c]
            BY <2>1 DEF InCache!Answer
        <3>2. q.unread \in Nat /\ Cardinality(q.rows) \in Nat
            BY <1>2, PageRows DEF Fetched
        <3>3. PageOK(c)
            BY <1>2, <3>2, NoticeBounds DEF FetchOK, PageOK
        <3>4. QED
            BY <3>1, <3>3, OnePageOK
    <2>2. CASE ~InCache!Answer(s)
        BY <2>2 DEF InCache!FirstFetch, InCache!ListRows, InCache!ListCount, InCache!Retry
    <2>3. QED
        BY <2>1, <2>2
<1>9. QED
    BY <1>3, <1>5, <1>7, <1>8, NoticeTypesStep

\* A row that is put first adds to the count no more than to the rows.
LEMMA PrependedOK ==
    ASSUME NoticeTypes, NEW s \in Severities, NEW e
    PROVE  PageOK(InCache!Prepend(cache[s], e))
<1> PICK c : c = cache[s]
    OBVIOUS
<1>1. c \in PageRecord /\ PageOK(c) /\ IsFiniteSet(c.rows) /\ Cardinality(c.rows) \in Nat
    BY PageKept
<1>2. CASE ~c.loaded \/ e.row \in c.rows
    BY <1>1, <1>2 DEF InCache!Prepend
<1>3. CASE c.loaded /\ e.row \notin c.rows
    <2> PICK rows : rows = c.rows \cup {e.row}
        OBVIOUS
    <2> PICK read : read = IF e.read THEN c.read \cup {e.row} ELSE c.read
        OBVIOUS
    <2> PICK unread : unread = IF e.read THEN c.unread ELSE c.unread + 1
        OBVIOUS
    <2> PICK new : new = [c EXCEPT !.rows = rows, !.read = read, !.unread = unread]
        OBVIOUS
    <2>1. InCache!Prepend(c, e) = new
        BY <1>3 DEF InCache!Prepend
    <2>2. /\ new.rows = rows /\ new.read = read /\ new.unread = unread /\ new.loaded = c.loaded
        BY <1>1 DEF PageRecord
    <2>3. Cardinality(rows) = Cardinality(c.rows) + 1
        BY <1>1, <1>3, FS_AddElement
    <2>4. c.unread \in Nat /\ c.unread <= MaxRows + Cardinality(c.rows)
        BY <1>1 DEF PageRecord, PageOK
    <2>5. unread <= MaxRows + Cardinality(rows)
        BY <1>1, <2>3, <2>4, NoticeBounds
    <2>6. read \subseteq rows
        BY <1>1 DEF PageOK
    <2>7. PageOK(new)
        BY <1>3, <2>2, <2>5, <2>6 DEF PageOK
    <2>8. QED
        BY <2>1, <2>7
<1>4. QED
    BY <1>2, <1>3

LEMMA OnNotificationTypes ==
    ASSUME NoticeTypes, InCache!Next, InCache!OnNotification
    PROVE  NoticeTypes'
<1> PICK e : e = Head(events)
    OBVIOUS
<1> PICK s : s = e.severity
    OBVIOUS
<1> PICK c : c = InCache!Prepend(cache[s], e)
    OBVIOUS
<1>1. /\ events # <<>> /\ e.type = "NOTIFICATION" /\ events' = Tail(events)
      /\ cache' = [cache EXCEPT ![s] = c]
      /\ UNCHANGED <<table, fetch, mutations, marks, failed, excused>>
    BY DEF InCache!OnNotification
<1>2. e = events[1] /\ e \in Event
    BY <1>1, TailOf DEF NoticeTypes
<1>3. s \in Severities
    BY <1>1, <1>2 DEF Event
<1>4. PagesOK'
    BY <1>1, <1>3, PrependedOK, OnePageOK
<1>5. MarksOK' /\ CountsOK' /\ Len(table') <= MaxRows
    BY <1>1 DEF NoticeTypes, MarksOK, CountsOK, InCache!Rows
<1>6. QED
    BY <1>1, <1>4, <1>5, NoticeTypesStep

LEMMA InvalidateTypes ==
    ASSUME NoticeTypes, NEW T \in SUBSET Severities, InCache!Invalidate(T)
    PROVE  FetchesOK' /\ excused' \subseteq Severities
<1>1. FetchOK([InCache!NoFetch EXCEPT !.phase = "list"])
    BY NoticeBounds DEF FetchOK, InCache!NoFetch
<1>2. \A s \in Severities : FetchOK(fetch'[s])
    BY <1>1 DEF InCache!Invalidate, Severities, NoticeTypes, FetchesOK
<1>3. excused' \subseteq Severities
    BY DEF InCache!Invalidate, NoticeTypes, CountsOK
<1>4. QED
    BY <1>2, <1>3 DEF FetchesOK, FetchOK

LEMMA OnSummaryTypes ==
    ASSUME NoticeTypes, InCache!Next, InCache!OnSummary
    PROVE  NoticeTypes'
<1> PICK s : s = Head(events).severity
    OBVIOUS
<1>1. /\ events # <<>> /\ Head(events).type = "SUMMARY" /\ events' = Tail(events)
      /\ InCache!Invalidate({s})
      /\ UNCHANGED <<table, cache, mutations, marks, failed>>
    BY DEF InCache!OnSummary
<1>2. Head(events) \in Event
    BY <1>1, TailOf DEF NoticeTypes
<1>3. {s} \in SUBSET Severities
    BY <1>1, <1>2 DEF Event
<1>4. FetchesOK' /\ excused' \subseteq Severities
    BY <1>1, <1>3, InvalidateTypes
<1>5. MarksOK' /\ CountsOK' /\ Len(table') <= MaxRows
    BY <1>1, <1>4 DEF NoticeTypes, MarksOK, CountsOK, InCache!Rows
<1>6. QED
    BY <1>1, <1>4, <1>5, NoticeTypesStep

LEMMA SettleTypes ==
    ASSUME NoticeTypes, InCache!Next, NEW m \in mutations, InCache!Settle(m)
    PROVE  NoticeTypes'
<1>1. /\ InCache!Invalidate(m.of) /\ mutations' = mutations \ {m}
      /\ failed' = failed \/ (failed < MaxFaults /\ failed' = failed + 1)
      /\ UNCHANGED <<table, cache, marks>>
    BY DEF InCache!Settle, InCache!MutationFails
<1>2. m.of \in SUBSET Severities
    BY DEF NoticeTypes, NoticesInv, NoticesTyped, Mutation
<1>3. FetchesOK' /\ excused' \subseteq Severities
    BY <1>1, <1>2, InvalidateTypes
<1>4. failed' \in 0..MaxFaults
    BY <1>1, NoticeBounds DEF NoticeTypes, CountsOK
<1>5. MarksOK' /\ CountsOK' /\ Len(table') <= MaxRows
    BY <1>1, <1>3, <1>4 DEF NoticeTypes, MarksOK, CountsOK, InCache!Rows
<1>6. QED
    BY <1>1, <1>3, <1>5, NoticeTypesStep

LEMMA MarkTypes ==
    ASSUME NoticeTypes, InCache!Next,
           InCache!MarkAllAsRead \/ \E n \in InCache!Rows : InCache!MarkAsRead(n)
    PROVE  NoticeTypes'
<1>1. /\ UNCHANGED <<table, fetch, failed, excused>>
      /\ marks < MaxMarks /\ marks' = marks + 1
    BY DEF InCache!MarkAllAsRead, InCache!MarkAsRead
<1>2. CountsOK'
    BY <1>1, NoticeBounds DEF NoticeTypes, CountsOK
<1>3. CASE InCache!MarkAllAsRead
    <2>1. \A s \in Severities :
              cache'[s] = [cache[s] EXCEPT !.read = cache[s].rows, !.unread = 0]
        BY <1>3 DEF InCache!MarkAllAsRead, Severities
    <2>2. ASSUME NEW s \in Severities PROVE PageOK(cache'[s])
        <3> PICK c : c = cache[s]
            OBVIOUS
        <3>1. c \in PageRecord /\ PageOK(c) /\ Cardinality(c.rows) \in Nat
            BY PageKept
        <3> PICK new : new = [c EXCEPT !.read = c.rows, !.unread = 0]
            OBVIOUS
        <3>2. new.rows = c.rows /\ new.read = c.rows /\ new.unread = 0 /\ new.loaded = c.loaded
            BY <3>1 DEF PageRecord
        <3>3. c.loaded => PageOK(new)
            BY <3>1, <3>2, NoticeBounds DEF PageOK
        <3>4. c = InCache!Empty => new = c
            <4> SUFFICES ASSUME c = InCache!Empty PROVE new = InCache!Empty
                OBVIOUS
            <4>1. new = [loaded |-> c.loaded, rows |-> c.rows, read |-> c.rows, unread |-> 0]
                BY <3>1 DEF PageRecord
            <4>2. c.loaded = FALSE /\ c.rows = {}
                BY DEF InCache!Empty
            <4>3. QED
                BY <4>1, <4>2, Zenon DEF InCache!Empty
        <3>5. PageOK(new)
            BY <3>1, <3>3, <3>4 DEF PageOK
        <3>6. QED
            BY <2>1, <3>5
    <2>3. PagesOK'
        BY <2>2 DEF PagesOK, PageOK
    <2>4. \E r : r.rows = {} /\ mutations' = mutations \cup {r}
        BY <1>3 DEF InCache!MarkAllAsRead
    <2>5. MarksOK'
        BY <2>4 DEF NoticeTypes, MarksOK, InCache!Rows
    <2>6. QED
        BY <1>1, <1>2, <2>3, <2>5, NoticeTypesStep DEF NoticeTypes
<1>4. ASSUME NEW n \in InCache!Rows, InCache!MarkAsRead(n) PROVE NoticeTypes'
    <2>1. PICK s \in Severities :
              /\ n \in cache[s].rows \ cache[s].read
              /\ cache' = [cache EXCEPT ![s] = [cache[s] EXCEPT
                              !.read = cache[s].read \cup {n},
                              !.unread = InCache!Less(cache[s].unread)]]
              /\ mutations' = mutations \cup {[id |-> marks + 1, rows |-> {n}, all |-> FALSE,
                                               done |-> FALSE, of |-> {s}]}
        BY <1>4 DEF InCache!MarkAsRead, Severities
    <2> PICK c : c = cache[s]
        OBVIOUS
    <2> PICK less : less = InCache!Less(c.unread)
        OBVIOUS
    <2> PICK new : new = [c EXCEPT !.read = c.read \cup {n}, !.unread = less]
        OBVIOUS
    <2>2. c \in PageRecord /\ PageOK(c) /\ Cardinality(c.rows) \in Nat
        BY PageKept
    <2>3. /\ new.rows = c.rows /\ new.read = c.read \cup {n} /\ new.unread = less
          /\ new.loaded = c.loaded
        BY <2>2 DEF PageRecord
    <2>4. c.unread \in Nat /\ less \in Nat /\ less <= c.unread
        BY <2>2 DEF PageRecord, InCache!Less
    <2>5. c.loaded
        BY <2>1, <2>2 DEF PageOK, InCache!Empty
    <2>6. PageOK(new)
        BY <2>1, <2>2, <2>3, <2>4, <2>5, NoticeBounds DEF PageOK
    <2>7. PagesOK'
        <3>1. cache' = [cache EXCEPT ![s] = new]
            BY <2>1
        <3>2. QED
            BY <2>6, <3>1, OnePageOK
    <2>8. \E r : r.rows = {n} /\ mutations' = mutations \cup {r}
        BY <2>1
    <2>9. MarksOK'
        BY <2>8 DEF NoticeTypes, MarksOK, InCache!Rows
    <2>10. QED
        BY <1>1, <1>2, <2>7, <2>9, NoticeTypesStep DEF NoticeTypes
<1>5. QED
    BY <1>3, <1>4

LEMMA NoticeTypesNext == NoticeTypes /\ [InCache!Next]_(InCache!vars) => NoticeTypes'
<1> SUFFICES ASSUME NoticeTypes, [InCache!Next]_(InCache!vars) PROVE NoticeTypes'
    OBVIOUS
<1>1. CASE UNCHANGED InCache!vars
    <2>1. UNCHANGED <<table, pushed, events, cache, fetch, mutations, marks, failed, excused>>
        BY <1>1 DEF InCache!vars
    <2>2. NoticesInv'
        BY NoticesNext DEF NoticeTypes
    <2>3. QED
        BY <2>1, <2>2 DEF NoticeTypes, PagesOK, FetchesOK, PageOK, FetchOK, MarksOK, CountsOK,
           InCache!Rows
<1>2. CASE InCache!Next
    <2>1. CASE \/ \E s \in Severities : InCache!Create(s)
               \/ \E n \in InCache!Rows : InCache!Push(n) \/ InCache!Poll(n)
               \/ \E m \in mutations : InCache!MarkRead(m)
        BY <1>2, <2>1, ServerTypes
    <2>2. CASE \E s \in Severities :
                   \/ InCache!FirstFetch(s) \/ InCache!ListRows(s) \/ InCache!ListCount(s)
                   \/ InCache!Answer(s) \/ InCache!Retry(s)
        BY <1>2, <2>2, FetchTypes
    <2>3. CASE InCache!OnNotification \/ InCache!OnSummary
        BY <1>2, <2>3, OnNotificationTypes, OnSummaryTypes
    <2>4. CASE InCache!MarkAllAsRead \/ \E n \in InCache!Rows : InCache!MarkAsRead(n)
        BY <1>2, <2>4, MarkTypes
    <2>5. CASE \E m \in mutations : InCache!Settle(m)
        BY <1>2, <2>5, SettleTypes
    <2>6. QED
        BY <1>2, <2>1, <2>2, <2>3, <2>4, <2>5 DEF InCache!Next, Severities
<1>3. QED
    BY <1>1, <1>2

\* Of a query.
LEMMA QueryTypesInit == InQueries!Init => InQueries!TypeOK
<1> SUFFICES ASSUME InQueries!Init PROVE InQueries!TypeOK
    OBVIOUS
<1>1. failures \in 0..MaxFailures /\ Len(changes) <= MaxChanges
    BY ClientAssumption DEF InQueries!Init, InQueries!CachesAssumption
<1>2. /\ query \in CachedQueries /\ changes = <<>> /\ applied = {} /\ ended = {} /\ told = {}
      /\ missed = {} /\ queryCache = None /\ queryFetch = NotAsked
    BY DEF InQueries!Init
<1>3. {invalid, mounted} \subseteq BOOLEAN
    BY DEF InQueries!Init
<1>4. QED
    BY <1>1, <1>2, <1>3 DEF InQueries!TypeOK

LEMMA QueryChangeTypes ==
    ASSUME InQueries!TypeOK, NEW op \in InQueries!Ops, InQueries!Change(op)
    PROVE  InQueries!TypeOK'
<1>1. /\ Len(changes) < MaxChanges /\ changes' = Append(changes, op)
      /\ UNCHANGED <<query, applied, ended, told, queryCache, queryFetch, invalid, mounted, missed,
                     failures>>
    BY DEF InQueries!Change
<1>2. /\ changes' \in Seq(InQueries!Ops) /\ DOMAIN changes \subseteq DOMAIN changes'
      /\ Len(changes') = Len(changes) + 1 /\ Len(changes) \in Nat
    BY <1>1 DEF InQueries!TypeOK
<1>3. Len(changes') <= MaxChanges
    BY <1>1, <1>2, ClientAssumption DEF InQueries!CachesAssumption
<1>4. QED
    BY <1>1, <1>2, <1>3 DEF InQueries!TypeOK

LEMMA QueryTypesNext == InQueries!TypeOK /\ [InQueries!Next]_(InQueries!vars) => InQueries!TypeOK'
<1> SUFFICES ASSUME InQueries!TypeOK, [InQueries!Next]_(InQueries!vars)
             PROVE  InQueries!TypeOK'
    OBVIOUS
<1>1. CASE UNCHANGED InQueries!vars
    BY <1>1 DEF InQueries!vars, InQueries!TypeOK
<1>2. ASSUME NEW i \in InQueries!Ids, InQueries!Apply(i)
      PROVE  InQueries!TypeOK'
    BY <1>2 DEF InQueries!Apply, InQueries!TypeOK
<1>3. failures < MaxFailures => failures + 1 \in 0..MaxFailures
    BY ClientAssumption DEF InQueries!TypeOK, InQueries!CachesAssumption
<1>4. ASSUME NEW i \in InQueries!Ids, InQueries!Lose(i)
      PROVE  InQueries!TypeOK'
    BY <1>3, <1>4 DEF InQueries!Lose, InQueries!TypeOK
<1>5. ASSUME NEW i \in InQueries!Ids, InQueries!Succeed(i)
      PROVE  InQueries!TypeOK'
    <2>1. /\ i \in applied /\ ended' = ended \cup {i} /\ told' = told \cup {i}
          /\ missed' \subseteq missed \cup {i}
          /\ queryFetch' = queryFetch \/ queryFetch' = Asked
          /\ UNCHANGED <<query, changes, applied, queryCache, mounted, failures>>
        BY <1>5 DEF InQueries!Succeed
    <2>2. invalid' \in BOOLEAN
        BY <1>5 DEF InQueries!Succeed, InQueries!TypeOK
    <2>3. QED
        BY <2>1, <2>2 DEF InQueries!TypeOK
<1>6. CASE InQueries!Mount
    BY <1>6 DEF InQueries!Mount, InQueries!TypeOK
<1>7. CASE InQueries!Unmount
    BY <1>7 DEF InQueries!Unmount, InQueries!TypeOK
<1>8. CASE InQueries!Read
    BY <1>8 DEF InQueries!Read, InQueries!TypeOK
<1>9. CASE InQueries!Answer
    BY <1>9 DEF InQueries!Answer, InQueries!TypeOK
<1>10. CASE InQueries!NotFound
    BY <1>10 DEF InQueries!NotFound, InQueries!TypeOK
<1>11. CASE InQueries!Fail
    BY <1>3, <1>11 DEF InQueries!Fail, InQueries!TypeOK
<1>12. CASE InQueries!Age
    BY <1>12 DEF InQueries!Age, InQueries!TypeOK
<1>13. QED
    BY <1>1, <1>2, <1>4, <1>5, <1>6, <1>7, <1>8, <1>9, <1>10, <1>11, <1>12, QueryChangeTypes
    DEF InQueries!Next

\* Of the panel.
OfQueries(f) == f = [q \in InPanel!Queries |-> f[q]]

PanelTypes == InPanel!TypeOK /\ OfQueries(panelCache) /\ OfQueries(panelFetch)

LEMMA PanelTypesInit == InPanel!Init => PanelTypes
<1> SUFFICES ASSUME InPanel!Init PROVE PanelTypes
    OBVIOUS
<1>1. /\ undone \in 0..MaxUndone /\ panelFailures \in 0..MaxPanelFailures
      /\ clicks \in 0..MaxClicks
    BY ClientAssumption DEF InPanel!Init, InPanel!OnboardingAssumption
<1>2. server \subseteq InPanel!Signals \cup {"dismissed"}
    BY DEF InPanel!Init, InPanel!Relevant, InPanel!Boxes, InPanel!Signals
<1>3. QED
    BY <1>1, <1>2 DEF InPanel!Init, InPanel!TypeOK, PanelTypes, OfQueries

\* A step that puts into the cache, or into an answer, only what is the query's.
LEMMA OnePanelFetch ==
    ASSUME PanelTypes, NEW q \in InPanel!Queries, NEW v,
           v \in {NotAsked, Asked} \/ v \subseteq InPanel!Part[q],
           panelFetch' = [panelFetch EXCEPT ![q] = v],
           \/ panelCache' = panelCache
           \/ /\ panelCache' = [panelCache EXCEPT ![q] = panelFetch[q]]
              /\ panelFetch[q] \notin {NotAsked, Asked},
           panelInvalid' \subseteq InPanel!Queries, panelFailures' \in 0..MaxPanelFailures,
           acks' \subseteq acks,
           UNCHANGED <<role, server, invited, page, undone, clicks>>
    PROVE  PanelTypes'
<1>1. \A p \in InPanel!Queries : panelFetch'[p] = IF p = q THEN v ELSE panelFetch[p]
    BY DEF PanelTypes, OfQueries
<1>2. \A p \in InPanel!Queries :
          \/ panelCache'[p] = panelCache[p]
          \/ panelCache'[p] = panelFetch[p] /\ panelFetch[p] \notin {NotAsked, Asked}
    BY DEF PanelTypes, OfQueries
<1>3. OfQueries(panelCache)' /\ OfQueries(panelFetch)'
    BY DEF PanelTypes, OfQueries
<1>4. QED
    BY <1>1, <1>2, <1>3 DEF PanelTypes, InPanel!TypeOK

LEMMA PanelQueryTypes ==
    ASSUME PanelTypes, NEW q \in InPanel!Queries,
           \/ InPanel!Read(q) \/ InPanel!Answer(q) \/ InPanel!Fail(q)
    PROVE  PanelTypes'
<1>1. panelFailures \in 0..MaxPanelFailures /\ panelInvalid \subseteq InPanel!Queries
    BY DEF PanelTypes, InPanel!TypeOK
<1>2. CASE InPanel!Read(q)
    <2>1. PICK v : v = server \cap InPanel!Part[q]
        OBVIOUS
    <2>2. /\ panelFetch' = [panelFetch EXCEPT ![q] = v]
          /\ UNCHANGED <<role, server, invited, page, panelCache, panelInvalid, acks, undone,
                         panelFailures, clicks>>
        BY <1>2, <2>1 DEF InPanel!Read
    <2>3. QED
        BY <1>1, <2>1, <2>2, OnePanelFetch
<1>3. CASE InPanel!Answer(q)
    BY <1>1, <1>3, OnePanelFetch DEF InPanel!Answer
<1>4. CASE InPanel!Fail(q)
    <2>1. panelFailures' \in 0..MaxPanelFailures
        BY <1>1, <1>4, ClientAssumption DEF InPanel!Fail, InPanel!OnboardingAssumption
    <2>2. QED
        BY <1>1, <1>4, <2>1, OnePanelFetch DEF InPanel!Fail
<1>5. QED
    BY <1>2, <1>3, <1>4

\* A step that sends queries, marks them, or forgets all of them.
LEMMA PanelSends ==
    ASSUME PanelTypes, UNCHANGED <<role, server, invited, undone, panelFailures, clicks>>,
           page' \in {"away", "loading", "shown"},
           UNCHANGED panelCache, OfQueries(panelFetch'),
           \A q \in InPanel!Queries : panelFetch'[q] \in {panelFetch[q], Asked},
           panelInvalid' \subseteq InPanel!Queries, acks' \subseteq InPanel!Queries
    PROVE  PanelTypes'
<1>1. OfQueries(panelCache)' /\ OfQueries(panelFetch)'
    BY DEF PanelTypes, OfQueries
<1>2. QED
    BY <1>1 DEF PanelTypes, InPanel!TypeOK

\* A change at the server.
LEMMA PanelChanges ==
    ASSUME PanelTypes, UNCHANGED <<role, page, panelFailures>>,
           server' \subseteq InPanel!Signals \cup {"dismissed"}, invited' \in BOOLEAN,
           \/ UNCHANGED <<panelCache, panelFetch, panelInvalid>>
           \/ /\ panelCache' = [q \in InPanel!Queries |-> None]
              /\ panelFetch' = [q \in InPanel!Queries |-> NotAsked] /\ panelInvalid' = {},
           acks' \subseteq InPanel!Queries, undone' \in 0..MaxUndone, clicks' \in 0..MaxClicks
    PROVE  PanelTypes'
<1>1. OfQueries(panelCache)' /\ OfQueries(panelFetch)'
    BY DEF PanelTypes, OfQueries
<1>2. QED
    BY <1>1 DEF PanelTypes, InPanel!TypeOK

LEMMA PanelTypesNext == PanelTypes /\ [InPanel!Next]_(InPanel!vars) => PanelTypes'
<1> SUFFICES ASSUME PanelTypes, [InPanel!Next]_(InPanel!vars) PROVE PanelTypes'
    OBVIOUS
<1>1. /\ page \in {"away", "loading", "shown"} /\ panelInvalid \subseteq InPanel!Queries
      /\ acks \subseteq InPanel!Queries /\ invited \in BOOLEAN
      /\ server \subseteq InPanel!Signals \cup {"dismissed"}
      /\ undone \in 0..MaxUndone /\ clicks \in 0..MaxClicks
      /\ OfQueries(panelFetch)
    BY DEF PanelTypes, InPanel!TypeOK
<1>2. {"stats", "me", "installation"} = InPanel!Queries
    BY DEF InPanel!Queries
<1>3. MaxUndone \in Nat /\ MaxClicks \in Nat
    BY ClientAssumption DEF InPanel!OnboardingAssumption
<1>4. CASE UNCHANGED InPanel!vars
    BY <1>4 DEF InPanel!vars, PanelTypes, InPanel!TypeOK, OfQueries
<1>5. ASSUME NEW q \in InPanel!Queries, InPanel!Age(q)
      PROVE  PanelTypes'
    BY <1>1, <1>5, PanelSends DEF InPanel!Age
<1>6. ASSUME NEW q \in InPanel!Queries, InPanel!Invalidate(q)
      PROVE  PanelTypes'
    <2>1. /\ OfQueries(panelFetch')
          /\ \A p \in InPanel!Queries : panelFetch'[p] \in {panelFetch[p], Asked}
        BY <1>1, <1>6 DEF InPanel!Invalidate, OfQueries
    <2>2. QED
        BY <1>1, <1>6, <2>1, PanelSends DEF InPanel!Invalidate
<1>7. ASSUME NEW qs, panelFetch' = InPanel!Sent(qs)
      PROVE  /\ OfQueries(panelFetch')
             /\ \A p \in InPanel!Queries : panelFetch'[p] \in {panelFetch[p], Asked}
    BY <1>7 DEF InPanel!Sent, OfQueries
<1>8. CASE InPanel!Enter
    BY <1>1, <1>7, <1>8, PanelSends DEF InPanel!Enter
<1>9. CASE InPanel!Render
    BY <1>1, <1>7, <1>9, PanelSends DEF InPanel!Render
<1>10. CASE InPanel!Leave
    BY <1>1, <1>10, PanelSends DEF InPanel!Leave
<1>11. ASSUME NEW s \in InPanel!Signals, InPanel!Create(s)
       PROVE  PanelTypes'
    BY <1>1, <1>2, <1>11, PanelChanges DEF InPanel!Create, InPanel!client
<1>12. CASE InPanel!Invite
    BY <1>1, <1>12, PanelChanges DEF InPanel!Invite, InPanel!client
<1>13. CASE InPanel!Connect
    <2>1. server' \subseteq InPanel!Signals \cup {"dismissed"}
        BY <1>1, <1>13 DEF InPanel!Connect, InPanel!Signals
    <2>2. QED
        BY <1>1, <1>13, <2>1, PanelChanges DEF InPanel!Connect
<1>14. CASE InPanel!Dismiss
    <2>1. clicks' \in 0..MaxClicks
        BY <1>1, <1>3, <1>14 DEF InPanel!Dismiss
    <2>2. QED
        BY <1>1, <1>2, <1>14, <2>1, PanelChanges DEF InPanel!Dismiss, InPanel!client
<1>15. CASE InPanel!Join
    <2>1. server' \subseteq InPanel!Signals \cup {"dismissed"}
        BY <1>1, <1>15 DEF InPanel!Join, InPanel!Signals
    <2>2. QED
        BY <1>1, <1>15, <2>1, PanelChanges DEF InPanel!Join, InPanel!client
<1>16. ASSUME NEW s \in InPanel!Signals, InPanel!Delete(s)
       PROVE  PanelTypes'
    <2>1. undone' \in 0..MaxUndone
        BY <1>1, <1>3, <1>16 DEF InPanel!Delete
    <2>2. server' \subseteq server
        BY <1>16 DEF InPanel!Delete
    <2>3. QED
        BY <1>1, <1>16, <2>1, <2>2, PanelChanges DEF InPanel!Delete, InPanel!client
<1>17. QED
    BY <1>4, <1>5, <1>6, <1>8, <1>9, <1>10, <1>11, <1>12, <1>13, <1>14, <1>15, <1>16,
       PanelQueryTypes
    DEF InPanel!Next

\* What a tab has of the server's data keeps to its type, whatever overlaps: of the notifications,
\* an unread count is out by no more than the rows shown, and what is marked is shown; a query
\* (useQuery) has changes that the server made, of those asked for, and nothing else; the panel's
\* answers say only what their query tells (OnboardingPanel).
THEOREM ClientTyped == PartSpec => []AllTypeOK
<1> DEFINE Inv == StreamTypes /\ NoticeTypes /\ InQueries!TypeOK /\ PanelTypes
<1>1. PartInit => Inv
    BY StreamTypesInit, NoticeTypesInit, QueryTypesInit, PanelTypesInit DEF PartInit
<1>2. Inv /\ [PartNext]_<<part, vars, notifications, queries, panel, chart>> => Inv'
    <2> SUFFICES ASSUME Inv, [PartNext]_<<part, vars, notifications, queries, panel, chart>>
                 PROVE  Inv'
        OBVIOUS
    <2>1. /\ [Next]_vars /\ [InCache!Next]_(InCache!vars)
          /\ [InQueries!Next]_(InQueries!vars) /\ [InPanel!Next]_(InPanel!vars)
        BY DEF PartNext, notifications, queries, panel, InCache!vars, InQueries!vars, InPanel!vars
    <2>2. QED
        BY <2>1, StreamTypesNext, NoticeTypesNext, QueryTypesNext, PanelTypesNext
<1>3. Inv => AllTypeOK
    BY StreamTypesImply, NoticeTypesImply DEF AllTypeOK, PanelTypes
<1>4. QED
    BY <1>1, <1>2, <1>3, PTL DEF PartSpec
=============================================================================
