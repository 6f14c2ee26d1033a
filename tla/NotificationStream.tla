------------------------- MODULE NotificationStream -------------------------
(***************************************************************************)
(* NotificationsService.create and the event stream of one member, on       *)
(* several server processes: a new row is pushed to the Subject of its own  *)
(* process, and every connection polls the table for the rest.              *)
(*                                                                         *)
(* Rows are numbered in the order of the poll's cursor (createdAt, id); the *)
(* order in which they are committed is another one unless InOrder.  The    *)
(* client keeps one connection, and a closed one lives on at the server     *)
(* until it notices.  SUMMARY and HEARTBEAT events are left out: they carry *)
(* no row.                                                                  *)
(***************************************************************************)
EXTENDS Naturals, FiniteSets, Sequences

CONSTANTS
    MaxRows,    \* bound: notifications of the member
    Keys,       \* deduplication keys
    Creators,   \* requests that create notifications
    Instances,  \* server processes
    Conns,      \* connection slots at the servers
    None,
    SeenLimit,  \* ids a connection remembers (500)
    PollLimit,  \* rows of one poll (100)
    InOrder,    \* TRUE: rows are committed in the order of the cursor
    MaxDrops,   \* bound: connections that break
    MaxFaults   \* bound: reads of a poll that fail

Rows == 1..MaxRows

ASSUME StreamAssumption ==
    /\ None \notin Keys \cup Conns
    /\ {MaxRows, MaxDrops, MaxFaults} \subseteq Nat
    /\ {SeenLimit, PollLimit} \subseteq Nat \ {0}
    /\ InOrder \in BOOLEAN

VARIABLES
    row,        \* table Notification: the deduplicationKey at each position
    creator,    \* where each create stands
    conn,       \* the connections at the servers
    client,     \* the present connection, Last-Event-ID and what was received
    wire,       \* events on their way to the client
    drops, faults,
    broadcasts  \* for properties: pushes by key

vars == <<row, creator, conn, client, wire, drops, faults, broadcasts>>

Stored == {n \in Rows : row[n] # None}
Highest(S) == IF S = {} THEN 0 ELSE CHOOSE n \in S : \A m \in S : m <= n
Idle == [op |-> "idle"]
Closed == [phase |-> "closed", inst |-> None, poll |-> "init", header |-> 0, cursor |-> 0,
           start |-> 0, batch |-> {}, seen |-> {}, sent |-> [n \in Rows |-> 0]]

\* A row goes over a connection twice at most: pushed once, and polled once.
TypeOK ==
    /\ row \in [Rows -> Keys \cup {None}]
    /\ creator \in [Creators -> {Idle}
          \cup [op : {"insert"}, inst : Instances, key : Keys]
          \cup [op : {"push"}, inst : Instances, key : Keys, row : Rows]]
    /\ conn \in [Conns -> [phase : {"closed", "open"}, inst : Instances \cup {None},
                           poll : {"init", "ready", "reading", "dead"},
                           header : 0..MaxRows, cursor : 0..MaxRows, start : 0..MaxRows,
                           batch : SUBSET Rows, seen : SUBSET Rows, sent : [Rows -> 0..2]]]
    /\ \A c \in Conns : Cardinality(conn[c].seen) <= SeenLimit
    /\ client \in [current : Conns \cup {None}, lastId : 0..MaxRows, got : SUBSET Rows]
    /\ wire \in Seq(Rows)
    /\ drops \in 0..MaxDrops /\ faults \in 0..MaxFaults
    /\ broadcasts \in [Keys -> Nat]

Init ==
    /\ row = [n \in Rows |-> None]
    /\ creator = [r \in Creators |-> Idle]
    /\ conn = [c \in Conns |-> Closed]
    /\ client = [current |-> None, lastId |-> 0, got |-> {}]
    /\ wire = <<>> /\ drops = 0 /\ faults = 0
    /\ broadcasts = [k \in Keys |-> 0]

(***************************************************************************)
(* create.                                                                  *)
(***************************************************************************)

\* A request of process i has something to tell.
Create(r, i, k) ==
    /\ creator[r] = Idle /\ Stored # Rows
    /\ creator' = [creator EXCEPT ![r] = [op |-> "insert", inst |-> i, key |-> k]]
    /\ UNCHANGED <<row, conn, client, wire, drops, faults, broadcasts>>

\* Mutant: no unique index on memberId and deduplicationKey.
Insert_NotUnique(r) ==
    LET req == creator[r] IN
    /\ req.op = "insert"
    /\ \E n \in Rows \ Stored :
          /\ InOrder => n = Highest(Stored) + 1
          /\ row' = [row EXCEPT ![n] = req.key]
          /\ creator' = [creator EXCEPT ![r] =
                [op |-> "push", inst |-> req.inst, key |-> req.key, row |-> n]]
    /\ UNCHANGED <<conn, client, wire, drops, faults, broadcasts>>

\* The insert; a key that is there already is an error, the row is read instead
\* and nothing is pushed.
Insert(r) ==
    LET req == creator[r]
        known == \E n \in Stored : row[n] = req.key
    IN
    /\ req.op = "insert"
    /\ \/ \E n \in Rows \ Stored :
             /\ ~known
             /\ InOrder => n = Highest(Stored) + 1
             /\ row' = [row EXCEPT ![n] = req.key]
             /\ creator' = [creator EXCEPT ![r] =
                   [op |-> "push", inst |-> req.inst, key |-> req.key, row |-> n]]
       \/ known /\ creator' = [creator EXCEPT ![r] = Idle] /\ UNCHANGED row
    /\ UNCHANGED <<conn, client, wire, drops, faults, broadcasts>>

\* Mutant: what is remembered is never forgotten.
Emit_Unbounded(c, n) ==
    IF n \in c.seen THEN c
    ELSE [c EXCEPT !.seen = @ \cup {n}, !.sent[n] = @ + 1]

\* The filter of the controller: an id that is remembered is dropped, and what is
\* remembered is forgotten all at once when it is SeenLimit ids.
Emit(c, n) ==
    IF n \in c.seen THEN c
    ELSE [c EXCEPT !.seen = (IF Cardinality(@) >= SeenLimit THEN {} ELSE @) \cup {n},
                   !.sent[n] = @ + 1]

\* The rows of S in the order of the cursor, and what is sent of them from connection
\* state c.
Ascending(S) ==
    [i \in 1..Cardinality(S) |-> CHOOSE n \in S : Cardinality({m \in S : m < n}) = i - 1]
EmitAll(c, S) ==
    LET rows == Ascending(S)
        upTo[i \in 0..Len(rows)] == IF i = 0 THEN c ELSE Emit(upTo[i - 1], rows[i])
    IN  upTo[Len(rows)]
SentOf(c, S) == Ascending({n \in S : EmitAll(c, S).sent[n] > c.sent[n]})

\* The Subject of a process, which is there as long as a connection observes it.
Hears(c, i) == conn[c].phase = "open" /\ conn[c].inst = i

Push(r) ==
    LET req == creator[r]
        told == {c \in Conns : Hears(c, req.inst)}
    IN
    /\ req.op = "push"
    /\ conn' = [c \in Conns |-> IF c \in told THEN Emit(conn[c], req.row) ELSE conn[c]]
    /\ wire' = IF client.current \in told
               THEN wire \o SentOf(conn[client.current], {req.row}) ELSE wire
    /\ broadcasts' = [broadcasts EXCEPT ![req.key] = @ + 1]
    /\ creator' = [creator EXCEPT ![r] = Idle]
    /\ UNCHANGED <<row, client, drops, faults>>

(***************************************************************************)
(* The stream.                                                              *)
(***************************************************************************)

\* openNotificationStream connects, with the id it saw last; the server subscribes to the
\* Subject of its process before anything else can happen there.
Connect(c, i) ==
    /\ client.current = None /\ conn[c].phase = "closed"
    /\ conn' = [conn EXCEPT ![c] = [Closed EXCEPT !.phase = "open", !.inst = i,
                                    !.header = client.lastId]]
    /\ client' = [client EXCEPT !.current = c]
    /\ UNCHANGED <<row, creator, wire, drops, faults, broadcasts>>

\* Mutant: the header is not looked at.
StartPoll_IgnoresHeader(c) ==
    LET from == Highest(Stored) IN
    /\ conn[c].phase = "open" /\ conn[c].poll = "init"
    /\ conn' = [conn EXCEPT ![c].poll = "ready", ![c].cursor = from, ![c].start = from]
    /\ UNCHANGED <<row, creator, client, wire, drops, faults, broadcasts>>

\* The poll starts after the id of the header, or after the newest row.
StartPoll(c) ==
    LET from == IF conn[c].header # 0 THEN conn[c].header ELSE Highest(Stored) IN
    /\ conn[c].phase = "open" /\ conn[c].poll = "init"
    /\ conn' = [conn EXCEPT ![c].poll = "ready", ![c].cursor = from, ![c].start = from]
    /\ UNCHANGED <<row, creator, client, wire, drops, faults, broadcasts>>

Page(c) ==
    LET after == {n \in Stored : n > conn[c].cursor}
    IN  {n \in after : Cardinality({m \in after : m < n}) < PollLimit}

ReadPage(c) ==
    /\ conn[c].phase = "open" /\ conn[c].poll = "ready" /\ Page(c) # {}
    /\ conn' = [conn EXCEPT ![c].poll = "reading", ![c].batch = Page(c)]
    /\ UNCHANGED <<row, creator, client, wire, drops, faults, broadcasts>>

\* Mutant: the cursor moves to the newest row there is.
EmitPage_ToNewest(c) ==
    LET page == conn[c].batch
        emitted == EmitAll(conn[c], page)
    IN
    /\ conn[c].phase = "open" /\ conn[c].poll = "reading"
    /\ conn' = [conn EXCEPT ![c] = [@ EXCEPT
                    !.poll = "ready", !.batch = {}, !.cursor = Highest(Stored),
                    !.seen = emitted.seen, !.sent = emitted.sent]]
    /\ wire' = IF client.current = c THEN wire \o SentOf(conn[c], page) ELSE wire
    /\ UNCHANGED <<row, creator, client, drops, faults, broadcasts>>

\* The answer: the cursor moves to its last row, and the rows are sent in order.
EmitPage(c) ==
    LET page == conn[c].batch
        emitted == EmitAll(conn[c], page)
    IN
    /\ conn[c].phase = "open" /\ conn[c].poll = "reading"
    /\ conn' = [conn EXCEPT ![c] = [@ EXCEPT
                    !.poll = "ready", !.batch = {}, !.cursor = Highest(page),
                    !.seen = emitted.seen, !.sent = emitted.sent]]
    /\ wire' = IF client.current = c THEN wire \o SentOf(conn[c], page) ELSE wire
    /\ UNCHANGED <<row, creator, client, drops, faults, broadcasts>>

\* A read fails: of a page, and the next tick tries again; of the first row, and
\* this connection polls no more.
PollFails(c) ==
    /\ conn[c].phase = "open" /\ faults < MaxFaults
    /\ \/ conn[c].poll = "reading"
          /\ conn' = [conn EXCEPT ![c].poll = "ready", ![c].batch = {}]
       \/ conn[c].poll = "init" /\ conn' = [conn EXCEPT ![c].poll = "dead"]
    /\ faults' = faults + 1
    /\ UNCHANGED <<row, creator, client, wire, drops, broadcasts>>

\* The client takes the next event and remembers its id.
Receive ==
    /\ wire # <<>>
    /\ client' = [client EXCEPT !.lastId = Head(wire), !.got = @ \cup {Head(wire)}]
    /\ wire' = Tail(wire)
    /\ UNCHANGED <<row, creator, conn, drops, faults, broadcasts>>

\* The connection breaks; what was on its way is lost.
Drop ==
    /\ client.current # None /\ drops < MaxDrops
    /\ client' = [client EXCEPT !.current = None]
    /\ wire' = <<>> /\ drops' = drops + 1
    /\ UNCHANGED <<row, creator, conn, faults, broadcasts>>

\* The server notices and unsubscribes; removeStream deletes a Subject that no one observes.
Finalize(c) ==
    /\ conn[c].phase = "open" /\ client.current # c
    /\ conn' = [conn EXCEPT ![c] = Closed]
    /\ UNCHANGED <<row, creator, client, wire, drops, faults, broadcasts>>

ConnStep(c) == StartPoll(c) \/ ReadPage(c) \/ EmitPage(c) \/ Finalize(c)

Next ==
    \/ \E r \in Creators, i \in Instances, k \in Keys : Create(r, i, k)
    \/ \E r \in Creators : Insert(r) \/ Push(r)
    \/ \E c \in Conns, i \in Instances : Connect(c, i)
    \/ \E c \in Conns : ConnStep(c) \/ PollFails(c)
    \/ Receive \/ Drop

Spec == Init /\ [][Next]_vars

\* A connection's timer and reads go on, and what is on the wire arrives.
FairSpec ==
    /\ Spec
    /\ \A c \in Conns : WF_vars(ConnStep(c))
    /\ WF_vars(Receive)

(***************************************************************************)
(* Properties.                                                              *)
(***************************************************************************)

\* "... let two concurrent requests both broadcast the same logical notification":
\* a key is broadcast once at most, whichever processes create it.
BroadcastOnce == \A k \in Keys : broadcasts[k] <= 1

Polling(c) == conn[c].poll \in {"ready", "reading"}

\* Where rows are committed in cursor order, the cursor of the client's connection passes no
\* row, pushed or polled, forgotten or remembered, that is not received or under way.
SkipsNothing ==
    LET c == client.current
        brought == client.got \cup {wire[i] : i \in DOMAIN wire}
    IN  c # None /\ Polling(c) =>
            {n \in Stored : conn[c].start < n /\ n <= conn[c].cursor} \subseteq brought

\* How far the client's stream has come, and the row that it goes on after.
Phase ==
    CASE client.current = None -> "off"
      [] client.current # None /\ ~Polling(client.current) -> "opening"
      [] client.current # None /\ Polling(client.current) -> "on"
From ==
    CASE Phase = "off" -> 0
      [] Phase = "opening" -> conn[client.current].header
      [] Phase = "on" -> conn[client.current].start

\* Where rows are committed in cursor order, each connection brings all that comes after the
\* row that the client heard of last when it connected, of whichever process, across failed
\* polls and drops.
Promise == INSTANCE NoticeDelivery WITH
    stored <- Stored, phase <- Phase, last <- client.lastId, from <- From, got <- client.got

Delivers == Promise!Spec
=============================================================================
