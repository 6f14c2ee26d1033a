---------------------- MODULE NotificationStreamProofs ----------------------
(***************************************************************************)
(* One push for each deduplication key, what the stream promises, how often *)
(* a row can go over one connection, and that none is passed over, for any  *)
(* number of requests, server processes, connections and rows.              *)
(***************************************************************************)
EXTENDS NotificationStream, FiniteSetTheorems, TLAPS

Inserting == [op : {"insert"}, inst : Instances, key : Keys]
Pushing == [op : {"push"}, inst : Instances, key : Keys, row : Rows]

(***************************************************************************)
(* The inductive invariant.                                                 *)
(***************************************************************************)

Typed ==
    /\ row \in [Rows -> Keys \cup {None}]
    /\ creator \in [Creators -> {Idle} \cup Inserting \cup Pushing]
    /\ broadcasts \in [Keys -> Nat]

IsStored(k) == \E n \in Rows : row[n] = k
Pushes(r, k) == creator[r].op = "push" /\ creator[r].key = k

\* A key is pushed only once its row is there, by the one request that inserted it;
\* what that request has not pushed yet, nobody has.
OnePusher ==
    \A k \in Keys :
        /\ broadcasts[k] > 0 => IsStored(k)
        /\ \A r \in Creators : Pushes(r, k) => IsStored(k) /\ broadcasts[k] = 0
        /\ \A r, s \in Creators : Pushes(r, k) /\ Pushes(s, k) => r = s

IInv == Typed /\ OnePusher /\ BroadcastOnce

LEMMA IInvInit == Init => IInv
<1> SUFFICES ASSUME Init PROVE IInv
    OBVIOUS
<1>1. Typed
    BY DEF Init, Typed
<1>2. OnePusher /\ BroadcastOnce
    BY DEF Init, OnePusher, BroadcastOnce, Pushes, Idle
<1>3. QED
    BY <1>1, <1>2 DEF IInv

\* No step but those of create touches what the invariant speaks of.
LEMMA OthersKeep ==
    ASSUME IInv, UNCHANGED <<row, creator, broadcasts>>
    PROVE  IInv'
BY DEF IInv, Typed, OnePusher, BroadcastOnce, Pushes, IsStored

\* A request that does not push after a step, and inserts and pushes nothing in it.
LEMMA PushesNothing ==
    ASSUME IInv, NEW r \in Creators, NEW req \in {Idle} \cup Inserting,
           creator' = [creator EXCEPT ![r] = req], UNCHANGED <<row, broadcasts>>
    PROVE  IInv'
<1>1. Typed'
    BY DEF IInv, Typed
<1>2. \A s \in Creators, k \in Keys : Pushes(s, k)' => Pushes(s, k)
    BY DEF IInv, Typed, Pushes, Idle, Inserting
<1>3. OnePusher' /\ BroadcastOnce'
    BY <1>2 DEF IInv, OnePusher, BroadcastOnce, IsStored
<1>4. QED
    BY <1>1, <1>3 DEF IInv

LEMMA CreateKeeps ==
    ASSUME IInv, NEW r \in Creators, NEW i \in Instances, NEW k \in Keys, Create(r, i, k)
    PROVE  IInv'
<1>1. [op |-> "insert", inst |-> i, key |-> k] \in Inserting
    BY DEF Inserting
<1>2. QED
    BY <1>1, PushesNothing DEF Create

LEMMA InsertKeeps ==
    ASSUME IInv, NEW r \in Creators, Insert(r)
    PROVE  IInv'
<1> DEFINE req == creator[r]
<1>1. req \in Inserting
    BY DEF Insert, IInv, Typed, Idle, Inserting, Pushing
<1>2. CASE creator' = [creator EXCEPT ![r] = Idle] /\ UNCHANGED row
    BY <1>2, PushesNothing DEF Insert
<1>3. ASSUME NEW n \in Rows, n \notin Stored, ~\E m \in Stored : row[m] = req.key,
             row' = [row EXCEPT ![n] = req.key],
             creator' = [creator EXCEPT ![r] =
                 [op |-> "push", inst |-> req.inst, key |-> req.key, row |-> n]]
      PROVE  IInv'
    <2> DEFINE key == req.key
    <2>1. key \in Keys /\ key # None
        BY <1>1, StreamAssumption DEF Inserting
    <2>2. ~IsStored(key)
        BY <1>3, <2>1 DEF IsStored, Stored
    <2>3. UNCHANGED broadcasts
        BY DEF Insert
    <2>4. [op |-> "push", inst |-> req.inst, key |-> req.key, row |-> n] \in Pushing
        BY <1>1 DEF Inserting, Pushing
    <2>5. Typed'
        BY <1>3, <2>1, <2>3, <2>4 DEF IInv, Typed
    <2>6. \A k \in Keys : IsStored(k)' <=> IsStored(k) \/ k = key
        BY <1>3, StreamAssumption DEF IsStored, Stored, IInv, Typed
    <2>7. \A s \in Creators, k \in Keys : Pushes(s, k)' <=> IF s = r THEN k = key ELSE Pushes(s, k)
        BY <1>3, <2>4 DEF Pushes, IInv, Typed
    <2>8. broadcasts[key] = 0 /\ \A s \in Creators : ~Pushes(s, key)
        BY <2>1, <2>2 DEF IInv, OnePusher, Typed
    <2>9. OnePusher'
        BY <2>3, <2>6, <2>7, <2>8 DEF IInv, OnePusher
    <2>10. QED
        BY <2>3, <2>5, <2>9 DEF IInv, BroadcastOnce
<1>4. QED
    BY <1>2, <1>3 DEF Insert

LEMMA PushKeeps ==
    ASSUME IInv, NEW r \in Creators, Push(r)
    PROVE  IInv'
<1> DEFINE key == creator[r].key
<1>1. creator[r] \in Pushing
    BY DEF Push, IInv, Typed, Idle, Inserting, Pushing
<1>2. key \in Keys /\ Pushes(r, key)
    BY <1>1 DEF Pushing, Pushes
<1>3. /\ broadcasts' = [broadcasts EXCEPT ![key] = @ + 1]
      /\ creator' = [creator EXCEPT ![r] = Idle] /\ UNCHANGED row
    BY DEF Push
<1>4. broadcasts[key] = 0 /\ IsStored(key) /\ \A s \in Creators : Pushes(s, key) => s = r
    BY <1>2 DEF IInv, OnePusher
<1>5. Typed'
    BY <1>2, <1>3 DEF IInv, Typed
<1>6. \A k \in Keys : broadcasts'[k] = IF k = key THEN 1 ELSE broadcasts[k]
    BY <1>2, <1>3, <1>4 DEF IInv, Typed
<1>7. \A s \in Creators, k \in Keys : Pushes(s, k)' => s # r /\ Pushes(s, k)
    BY <1>3 DEF Pushes, Idle, IInv, Typed
<1>8. OnePusher'
    BY <1>3, <1>4, <1>6, <1>7 DEF IInv, OnePusher, IsStored
<1>9. BroadcastOnce'
    BY <1>6 DEF IInv, BroadcastOnce
<1>10. QED
    BY <1>5, <1>8, <1>9 DEF IInv

LEMMA IInvNext == IInv /\ [Next]_vars => IInv'
<1> SUFFICES ASSUME IInv, [Next]_vars
             PROVE  IInv'
    OBVIOUS
<1>1. ASSUME NEW r \in Creators, NEW i \in Instances, NEW k \in Keys, Create(r, i, k)
      PROVE  IInv'
    BY <1>1, CreateKeeps
<1>2. ASSUME NEW r \in Creators, Insert(r) \/ Push(r)
      PROVE  IInv'
    BY <1>2, InsertKeeps, PushKeeps
<1>3. CASE \/ UNCHANGED vars \/ Receive \/ Drop
           \/ \E c \in Conns, i \in Instances : Connect(c, i)
           \/ \E c \in Conns : ConnStep(c) \/ PollFails(c)
    <2>1. UNCHANGED <<row, creator, broadcasts>>
        BY <1>3, Zenon DEF vars, Receive, Drop, Connect, ConnStep, PollFails, StartPoll,
           ReadPage, EmitPage, Finalize
    <2>2. QED
        BY <2>1, OthersKeep
<1>4. QED
    BY <1>1, <1>2, <1>3 DEF Next

\* "... let two concurrent requests both broadcast the same logical notification":
\* the unique index lets one insert of a key win, and only the winner pushes,
\* whichever processes and requests create it and whatever the streams do.
THEOREM KeyIsPushedOnce == Spec => []BroadcastOnce
<1>1. IInv => BroadcastOnce
    BY DEF IInv
<1>2. QED
    BY <1>1, IInvInit, IInvNext, PTL DEF Spec

(***************************************************************************)
(* The operators on sets of rows.                                           *)
(***************************************************************************)

\* A set of rows is finite, and Highest is its greatest element.
LEMMA RowsFinite ==
    ASSUME NEW S \in SUBSET Rows
    PROVE  IsFiniteSet(S)
<1>1. MaxRows \in Nat
    BY StreamAssumption
<1>2. IsFiniteSet(1..MaxRows)
    BY <1>1, FS_Interval
<1>3. QED
    BY <1>2, FS_Subset DEF Rows

\* A nonempty set of naturals has a least element, and one below a bound a greatest.
LEMMA LeastOf ==
    ASSUME NEW S \in SUBSET Nat, S # {}
    PROVE  \E x \in S : \A y \in S : x <= y
<1>1. PICK x \in S : \A y \in S : ~(<<y, x>> \in OpToRel(<, Nat))
    BY NatLessThanWellFounded, WFMin
<1>2. \A y \in S : <<y, x>> \in Nat \X Nat /\ (<<y, x>> \in OpToRel(<, Nat) <=> y < x)
    BY DEF OpToRel
<1>3. \A y \in S : x <= y
    <2>1. ASSUME NEW y \in S PROVE ~(y < x)
        BY <1>1, <1>2
    <2>2. QED
        BY <2>1
<1>4. QED
    BY <1>3

LEMMA HighestIsGreatest ==
    ASSUME NEW S \in SUBSET Rows, S # {}
    PROVE  Highest(S) \in S /\ \A m \in S : m <= Highest(S)
<1> DEFINE Above == {b \in Nat : \A m \in S : m <= b}
<1>1. MaxRows \in Nat
    BY StreamAssumption
<1>2. \A m \in S : m \in Nat /\ 1 <= m /\ m <= MaxRows
    BY <1>1 DEF Rows
<1>3. Above # {}
    BY <1>1, <1>2
<1>4. PICK b \in Above : \A a \in Above : b <= a
    BY <1>3, LeastOf
<1>5. b \in Nat /\ \A m \in S : m <= b
    BY <1>4
<1>6. ASSUME b \notin S PROVE FALSE
    <2>1. PICK m \in S : TRUE
        OBVIOUS
    <2>2. b # 0
        BY <1>2, <1>5, <2>1
    <2>3. \A n \in S : n <= b - 1
        BY <1>2, <1>5, <1>6
    <2>4. b - 1 \in Above
        BY <1>5, <2>2, <2>3
    <2>5. QED
        BY <1>4, <1>5, <2>4
<1>7. QED
    BY <1>5, <1>6 DEF Highest

\* The ranks of the members of a set are as many as the members, so each place is some member's.
LEMMA RanksTaken ==
    ASSUME NEW S \in SUBSET Rows
    PROVE  /\ Cardinality(S) \in Nat
           /\ \A i \in 1..Cardinality(S) : \E n \in S : Cardinality({m \in S : m < n}) = i - 1
           /\ \A n \in S : \E i \in 1..Cardinality(S) : Cardinality({m \in S : m < n}) = i - 1
           /\ \A n, o \in S : Cardinality({m \in S : m < n}) = Cardinality({m \in S : m < o}) => n = o
<1> DEFINE k == Cardinality(S)
           Below(n) == {m \in S : m < n}
           rank == [n \in S |-> Cardinality(Below(n)) + 1]
<1>1. IsFiniteSet(S) /\ k \in Nat
    BY RowsFinite, FS_CardinalityType
<1>2. \A n \in S : rank[n] \in 1..k
    <2> SUFFICES ASSUME NEW n \in S PROVE rank[n] \in 1..k
        OBVIOUS
    <2>1. Below(n) \in SUBSET S /\ Below(n) # S
        BY DEF Rows
    <2>2. IsFiniteSet(Below(n)) /\ Cardinality(Below(n)) <= k /\ Cardinality(Below(n)) # k
        BY <1>1, <2>1, FS_Subset
    <2>3. Cardinality(Below(n)) \in Nat
        BY <2>2, FS_CardinalityType
    <2>4. QED
        BY <1>1, <2>2, <2>3
<1>3. \A m, n \in S : m < n => rank[m] # rank[n]
    <2> SUFFICES ASSUME NEW m \in S, NEW n \in S, m < n PROVE rank[m] # rank[n]
        OBVIOUS
    <2>0. \A i \in S : i \in Int
        BY DEF Rows
    <2>5. m \in Below(n) /\ m \notin Below(m)
        BY <2>0
    <2>6. \A i \in Below(m) : i \in Below(n)
        BY <2>0
    <2>1. Below(m) \in SUBSET Below(n) /\ Below(m) # Below(n)
        BY <2>5, <2>6
    <2>2. IsFiniteSet(Below(n)) /\ Below(n) \in SUBSET S
        BY <1>1, FS_Subset
    <2>3. Cardinality(Below(m)) # Cardinality(Below(n))
        BY <2>1, <2>2, FS_Subset
    <2>4. Cardinality(Below(m)) \in Nat /\ Cardinality(Below(n)) \in Nat
        BY <2>1, <2>2, FS_Subset, FS_CardinalityType
    <2>7. QED
        BY <2>3, <2>4
<1>4. rank \in Injection(S, 1..k)
    <2>1. \A m, n \in S : m # n => m < n \/ n < m
        BY DEF Rows
    <2>2. \A m, n \in S : rank[m] = rank[n] => m = n
        BY <1>3, <2>1
    <2>3. rank \in [S -> 1..k]
        BY <1>2
    <2>4. QED
        BY <2>2, <2>3 DEF Injection, IsInjective
<1>5. rank \in Surjection(S, 1..k)
    BY <1>1, <1>4, FS_Injection, FS_Interval
<1>6. \A i \in 1..k : \E n \in S : rank[n] = i
    BY <1>5 DEF Surjection
<1>7. \A i \in 1..k : \E n \in S : Cardinality(Below(n)) = i - 1
    <2> SUFFICES ASSUME NEW i \in 1..k PROVE \E n \in S : Cardinality(Below(n)) = i - 1
        OBVIOUS
    <2>1. PICK n \in S : rank[n] = i
        BY <1>6
    <2>2. Cardinality(Below(n)) \in Nat
        BY <1>1, FS_Subset, FS_CardinalityType
    <2>3. Cardinality(Below(n)) + 1 = i
        BY <2>1
    <2> DEFINE d == Cardinality(Below(n))
    <2>4. d = i - 1
        <3>1. d \in Nat /\ d + 1 = i
            BY <2>2, <2>3
        <3> HIDE DEF d
        <3>2. QED
            BY <3>1
    <2>5. QED
        BY <2>4
<1>8. \A n \in S : \E i \in 1..k : Cardinality(Below(n)) = i - 1
    <2> SUFFICES ASSUME NEW n \in S PROVE \E i \in 1..k : Cardinality(Below(n)) = i - 1
        OBVIOUS
    <2> DEFINE d == Cardinality(Below(n))
    <2>1. d \in Nat
        BY <1>1, FS_Subset, FS_CardinalityType
    <2>2. d + 1 \in 1..k
        BY <1>2
    <2> HIDE DEF d
    <2>3. d = (d + 1) - 1
        BY <2>1
    <2>4. \E i \in 1..k : d = i - 1
        BY <2>2, <2>3
    <2>5. QED
        BY <2>4 DEF d
<1>9. \A n, o \in S : Cardinality(Below(n)) = Cardinality(Below(o)) => n = o
    <2>1. \A n, o \in S : Cardinality(Below(n)) = Cardinality(Below(o)) => rank[n] = rank[o]
        OBVIOUS
    <2>2. \A n, o \in S : rank[n] = rank[o] => n = o
        BY <1>4 DEF Injection, IsInjective
    <2>3. QED
        BY <2>1, <2>2
<1>10. QED
    BY <1>1, <1>7, <1>8, <1>9

\* What Ascending puts in order are the members of the set, each of them once.
LEMMA AscendingType ==
    ASSUME NEW S \in SUBSET Rows
    PROVE  /\ Ascending(S) \in Seq(S)
           /\ \A i, j \in 1..Len(Ascending(S)) : Ascending(S)[i] = Ascending(S)[j] => i = j
           /\ \A n \in S : \E i \in 1..Len(Ascending(S)) : Ascending(S)[i] = n
<1> DEFINE k == Cardinality(S)
           Rank(n) == Cardinality({m \in S : m < n})
           a == Ascending(S)
<1>1. /\ k \in Nat
      /\ \A i \in 1..k : \E n \in S : Rank(n) = i - 1
      /\ \A n \in S : \E i \in 1..k : Rank(n) = i - 1
      /\ \A n, o \in S : Rank(n) = Rank(o) => n = o
    BY RanksTaken
<1>2. a = [i \in 1..k |-> CHOOSE n \in S : Rank(n) = i - 1]
    BY DEF Ascending
<1> HIDE DEF a, k, Rank
<1>3. \A i \in 1..k : a[i] \in S /\ Rank(a[i]) = i - 1
    BY <1>1, <1>2
<1>4. a \in Seq(S) /\ Len(a) = k
    BY <1>1, <1>2, <1>3
<1>5. ASSUME NEW i \in 1..k, NEW j \in 1..k, a[i] = a[j] PROVE i = j
    <2>1. i - 1 = j - 1
        BY <1>3, <1>5
    <2>2. QED
        BY <1>1, <2>1
<1>6. ASSUME NEW n \in S PROVE \E i \in 1..k : a[i] = n
    <2>1. PICK i \in 1..k : Rank(n) = i - 1
        BY <1>1
    <2>2. a[i] \in S /\ Rank(a[i]) = Rank(n)
        BY <1>3, <2>1
    <2>3. QED
        BY <1>1, <2>2
<1>7. QED
    BY <1>4, <1>5, <1>6 DEF a

(***************************************************************************)
(* The stream keeps the safety of its promise.                              *)
(***************************************************************************)

Fields == DOMAIN Closed

\* What is remembered anywhere - the id a client resumes from, where a connection
\* started, a page being read, what is on the wire, what a request is about to push -
\* is a row that is there.
ConnKnows(q) ==
    /\ DOMAIN q = Fields
    /\ q.header \in Stored \cup {0}
    /\ q.start \in Stored \cup {0}
    /\ q.batch \in SUBSET Stored

ConnsKnow ==
    /\ conn = [c \in Conns |-> conn[c]]
    /\ \A c \in Conns : ConnKnows(conn[c])

ClientKnows ==
    /\ client \in [current : Conns \cup {None}, lastId : Stored \cup {0}, got : SUBSET Stored]
    /\ wire \in Seq(Stored)
    /\ client.current = None => wire = <<>>

PushersKnow == \A r \in Creators : creator[r].op = "push" => creator[r].row \in Stored

StreamInv == ConnsKnow /\ ClientKnows /\ PushersKnow

LEMMA StoredIsRows == Stored \in SUBSET Rows
BY DEF Stored

LEMMA FieldsAre ==
    Fields = {"phase", "inst", "poll", "header", "cursor", "start", "batch", "seen", "sent"}
BY DEF Fields, Closed

LEMMA StreamInit == Init => StreamInv /\ Promise!Init
<1> SUFFICES ASSUME Init PROVE StreamInv /\ Promise!Init
    OBVIOUS
<1>1. Stored = {}
    BY DEF Init, Stored
<1>2. ConnsKnow
    BY DEF Init, ConnsKnow, ConnKnows, Fields, Closed
<1>3. ClientKnows
    BY DEF Init, ClientKnows
<1>4. PushersKnow
    BY DEF Init, PushersKnow, Idle
<1>5. Phase = "off" /\ From = 0
    BY DEF Init, Phase, From
<1>6. Promise!Init
    <2>1. client.got = {} /\ client.lastId = 0
        BY DEF Init
    <2>2. QED
        BY <1>1, <1>5, <2>1 DEF Promise!Init
<1>7. QED
    BY <1>2, <1>3, <1>4, <1>6 DEF StreamInv

LEMMA SameRows ==
    ASSUME UNCHANGED row
    PROVE  Stored' = Stored
BY DEF Stored

\* A connection whose poll has come as far as another's, from the same row.
PollsLike(p, q) ==
    /\ p.poll \in {"ready", "reading"} <=> q.poll \in {"ready", "reading"}
    /\ p.header = q.header /\ p.start = q.start

\* A step in which the present connection polls as it did shows nothing outside.
LEMMA Unnoticed ==
    ASSUME UNCHANGED <<row, client>>,
           client.current # None => PollsLike(conn'[client.current], conn[client.current])
    PROVE  UNCHANGED Promise!vars
<1>1. Stored' = Stored
    BY SameRows
<1>2. UNCHANGED Phase
    BY DEF Phase, Polling, PollsLike
<1>3. UNCHANGED From
    <2>1. CASE client.current = None
        BY <1>2, <2>1 DEF From, Phase
    <2>2. CASE client.current # None
        BY <1>2, <2>2 DEF From, Phase, PollsLike
    <2>3. QED
        BY <2>1, <2>2
<1>4. QED
    BY <1>1, <1>2, <1>3 DEF Promise!vars

\* A step of one connection.
LEMMA OneConnKeeps ==
    ASSUME StreamInv, NEW c \in Conns, NEW q, ConnKnows(q), UNCHANGED <<row, client, creator>>,
           conn' = [conn EXCEPT ![c] = q], ClientKnows'
    PROVE  StreamInv'
<1>1. Stored' = Stored
    BY SameRows
<1>2. \A d \in Conns : conn'[d] = IF d = c THEN q ELSE conn[d]
    BY DEF StreamInv, ConnsKnow
<1>3. \A d \in Conns : ConnKnows(conn[d])'
    BY <1>1, <1>2 DEF StreamInv, ConnsKnow, ConnKnows
<1>4. conn' = [d \in Conns |-> conn'[d]]
    BY DEF StreamInv, ConnsKnow
<1>5. PushersKnow'
    BY <1>1 DEF StreamInv, PushersKnow
<1>6. QED
    BY <1>3, <1>4, <1>5 DEF StreamInv, ConnsKnow

LEMMA OneConnUnnoticed ==
    ASSUME StreamInv, NEW c \in Conns, NEW q, PollsLike(q, conn[c]), UNCHANGED <<row, client>>,
           conn' = [conn EXCEPT ![c] = q]
    PROVE  UNCHANGED Promise!vars
<1>1. \A d \in Conns : PollsLike(conn'[d], conn[d])
    BY DEF StreamInv, ConnsKnow, PollsLike
<1>2. client.current \in Conns \cup {None}
    BY DEF StreamInv, ClientKnows
<1>3. QED
    BY <1>1, <1>2, Unnoticed

\* The wire is as it was, and so is what the client knows.
LEMMA WireUnchanged ==
    ASSUME StreamInv, UNCHANGED <<row, client, wire>>
    PROVE  ClientKnows'
BY SameRows DEF StreamInv, ClientKnows

\* What is sent of rows that are there goes onto the wire behind what is there.
LEMMA SentKeeps ==
    ASSUME StreamInv, UNCHANGED <<row, client>>, NEW q, NEW S \in SUBSET Stored,
           \/ wire' = wire \o SentOf(q, S) /\ client.current # None
           \/ wire' = wire
    PROVE  ClientKnows'
<1> DEFINE T == {n \in S : EmitAll(q, S).sent[n] > q.sent[n]}
<1>1. Ascending(T) \in Seq(T)
    BY StoredIsRows, AscendingType
<1>2. SentOf(q, S) \in Seq(Stored)
    BY <1>1 DEF SentOf
<1>3. wire' \in Seq(Stored)
    <2>1. wire \in Seq(Stored)
        BY DEF StreamInv, ClientKnows
    <2> HIDE DEF T
    <2>2. wire \o SentOf(q, S) \in Seq(Stored)
        BY <1>2, <2>1
    <2>3. QED
        BY <2>1, <2>2
<1>4. QED
    BY <1>3, SameRows DEF StreamInv, ClientKnows

(***************************************************************************)
(* Each step keeps StreamInv and is a step of the promise, or shows nothing. *)
(***************************************************************************)

Promised == [Promise!Next]_(Promise!vars)

LEMMA UnnoticedIsPromised == UNCHANGED Promise!vars => Promised
BY DEF Promised

LEMMA CreateStreams ==
    ASSUME IInv, StreamInv, NEW r \in Creators, NEW i \in Instances, NEW k \in Keys,
           Create(r, i, k)
    PROVE  StreamInv' /\ Promised
<1>1. UNCHANGED <<row, conn, client, wire>>
    BY DEF Create
<1>2. PushersKnow'
    BY <1>1, SameRows DEF Create, StreamInv, PushersKnow, IInv, Typed
<1>3. ConnsKnow' /\ ClientKnows'
    BY <1>1, SameRows DEF StreamInv, ConnsKnow, ConnKnows, ClientKnows
<1>4. UNCHANGED Promise!vars
    BY <1>1, Unnoticed DEF PollsLike
<1>5. QED
    BY <1>2, <1>3, <1>4, UnnoticedIsPromised DEF StreamInv

LEMMA InsertStreams ==
    ASSUME IInv, StreamInv, NEW r \in Creators, Insert(r)
    PROVE  StreamInv' /\ Promised
<1> DEFINE req == creator[r]
<1>1. UNCHANGED <<conn, client, wire>>
    BY DEF Insert
<1>2. CASE creator' = [creator EXCEPT ![r] = Idle] /\ UNCHANGED row
    <2>1. PushersKnow'
        BY <1>2, SameRows DEF StreamInv, PushersKnow, IInv, Typed, Idle
    <2>2. ConnsKnow' /\ ClientKnows'
        BY <1>1, <1>2, SameRows DEF StreamInv, ConnsKnow, ConnKnows, ClientKnows
    <2>3. UNCHANGED Promise!vars
        BY <1>1, <1>2, Unnoticed DEF PollsLike
    <2>4. QED
        BY <2>1, <2>2, <2>3, UnnoticedIsPromised DEF StreamInv
<1>3. ASSUME NEW n \in Rows \ Stored,
             row' = [row EXCEPT ![n] = req.key],
             creator' = [creator EXCEPT ![r] =
                 [op |-> "push", inst |-> req.inst, key |-> req.key, row |-> n]]
      PROVE  StreamInv' /\ Promised
    <2>1. creator[r] \in Inserting
        BY DEF Insert, IInv, Typed, Idle, Inserting, Pushing
    <2>2. req.key # None
        BY <2>1, StreamAssumption DEF Inserting
    <2>3. Stored' = Stored \cup {n}
        BY <1>3, <2>2 DEF Stored, IInv, Typed
    <2>4. ConnsKnow'
        BY <1>1, <2>3 DEF StreamInv, ConnsKnow, ConnKnows
    <2>5. ClientKnows'
        BY <1>1, <2>3 DEF StreamInv, ClientKnows
    <2>6. PushersKnow'
        BY <1>3, <2>3 DEF StreamInv, PushersKnow, IInv, Typed
    <2>7. UNCHANGED <<Phase, From>>
        BY <1>1 DEF Phase, From, Polling
    <2>8. Promise!Store(n)
        BY <1>1, <1>3, <2>3, <2>7 DEF Promise!Store
    <2>9. QED
        BY <1>3, <2>4, <2>5, <2>6, <2>8 DEF StreamInv, Promised, Promise!Next
<1>4. QED
    BY <1>2, <1>3 DEF Insert

\* What a connection sends of one row leaves the rest of it as it is.
LEMMA EmitKeeps ==
    ASSUME NEW q, ConnKnows(q), NEW n
    PROVE  ConnKnows(Emit(q, n)) /\ PollsLike(Emit(q, n), q)
<1>1. CASE n \in q.seen
    BY <1>1 DEF Emit, PollsLike
<1>2. CASE n \notin q.seen
    <2> DEFINE e == Emit(q, n)
    <2>1. DOMAIN q = Fields
        BY DEF ConnKnows
    <2>2. /\ DOMAIN e = Fields /\ e.header = q.header /\ e.start = q.start
          /\ e.batch = q.batch /\ e.poll = q.poll
        BY <1>2, <2>1, FieldsAre DEF Emit
    <2>3. QED
        BY <2>2 DEF ConnKnows, PollsLike
<1>3. QED
    BY <1>1, <1>2

LEMMA PushStreams ==
    ASSUME IInv, StreamInv, NEW r \in Creators, Push(r)
    PROVE  StreamInv' /\ Promised
<1> DEFINE req == creator[r]
           told == {c \in Conns : Hears(c, req.inst)}
<1>1. UNCHANGED <<row, client>>
    BY DEF Push
<1>2. req.op = "push" /\ req.row \in Stored
    BY DEF Push, StreamInv, PushersKnow
<1>3. conn' = [c \in Conns |-> IF c \in told THEN Emit(conn[c], req.row) ELSE conn[c]]
    BY DEF Push
<1>4. \A c \in Conns : ConnKnows(conn[c])
    BY DEF StreamInv, ConnsKnow
<1>5. \A c \in Conns : ConnKnows(conn'[c]) /\ PollsLike(conn'[c], conn[c])
    <2> SUFFICES ASSUME NEW c \in Conns
                 PROVE  ConnKnows(conn'[c]) /\ PollsLike(conn'[c], conn[c])
        OBVIOUS
    <2> HIDE DEF told, req
    <2>1. CASE c \in told
        BY <1>3, <1>4, <2>1, EmitKeeps
    <2>2. CASE c \notin told
        BY <1>3, <1>4, <2>2 DEF PollsLike
    <2>3. QED
        BY <2>1, <2>2
<1>6. Stored' = Stored
    BY <1>1, SameRows
<1>7. ConnsKnow'
    BY <1>3, <1>5, <1>6 DEF ConnsKnow, ConnKnows
<1>8. ClientKnows'
    <2>1. \/ wire' = wire \o SentOf(conn[client.current], {req.row}) /\ client.current # None
          \/ wire' = wire
        BY StreamAssumption DEF Push
    <2>2. QED
        BY <1>1, <1>2, <2>1, SentKeeps
<1>9. PushersKnow'
    <2>1. creator' = [creator EXCEPT ![r] = Idle]
        BY DEF Push
    <2>2. QED
        BY <1>6, <2>1 DEF StreamInv, PushersKnow, IInv, Typed, Idle
<1>10. UNCHANGED Promise!vars
    <2>1. client.current \in Conns \cup {None}
        BY DEF StreamInv, ClientKnows
    <2>2. QED
        BY <1>1, <1>5, <2>1, Unnoticed
<1>11. QED
    BY <1>7, <1>8, <1>9, <1>10, UnnoticedIsPromised DEF StreamInv

LEMMA ClosedKnows == ConnKnows(Closed) /\ ConnKnows(Closed)'
BY DEF ConnKnows, Closed, Fields

LEMMA ConnectStreams ==
    ASSUME IInv, StreamInv, NEW c \in Conns, NEW i \in Instances, Connect(c, i)
    PROVE  StreamInv' /\ Promised
<1> DEFINE q == [Closed EXCEPT !.phase = "open", !.inst = i, !.header = client.lastId]
<1>1. /\ UNCHANGED <<row, creator, wire>>
      /\ conn' = [conn EXCEPT ![c] = q]
      /\ client' = [client EXCEPT !.current = c]
      /\ client.current = None
    BY DEF Connect
<1>2. client \in [current : Conns \cup {None}, lastId : Stored \cup {0}, got : SUBSET Stored]
    BY DEF StreamInv, ClientKnows
<1>3. Stored' = Stored
    BY <1>1, SameRows
<1>4. ConnKnows(q) /\ q.poll = "init"
    BY <1>2, FieldsAre DEF Closed, ConnKnows
<1>5. \A d \in Conns : conn'[d] = IF d = c THEN q ELSE conn[d]
    BY <1>1 DEF StreamInv, ConnsKnow
<1>6. ConnsKnow'
    <2> HIDE DEF q
    <2>1. \A d \in Conns : ConnKnows(conn[d])'
        BY <1>3, <1>4, <1>5 DEF StreamInv, ConnsKnow, ConnKnows
    <2>2. conn' = [d \in Conns |-> conn'[d]]
        BY <1>1 DEF StreamInv, ConnsKnow
    <2>3. QED
        BY <2>1, <2>2 DEF ConnsKnow
<1>7. client'.current = c /\ client'.got = client.got
    BY <1>1, <1>2
<1>8. ClientKnows'
    BY <1>1, <1>2, <1>3 DEF StreamInv, ClientKnows
<1>9. PushersKnow'
    BY <1>1, <1>3 DEF StreamInv, PushersKnow
<1>10. Phase = "off" /\ Phase' = "opening"
    <2>1. conn'[c].poll = "init"
        BY <1>4, <1>5
    <2>2. QED
        BY <1>1, <1>7, <2>1, StreamAssumption DEF Phase, Polling
<1>11. Promise!Open
    <2>1. From' = client.lastId
        BY <1>5, <1>7, <1>10 DEF From, Closed
    <2>2. UNCHANGED client.lastId
        BY <1>1, <1>2
    <2>3. QED
        BY <1>3, <1>7, <1>10, <2>1, <2>2 DEF Promise!Open
<1>12. QED
    BY <1>6, <1>8, <1>9, <1>11 DEF StreamInv, Promised, Promise!Next

\* The poll goes on after the row that the client heard of last, or after the newest one.
LEMMA StartPollStreams ==
    ASSUME IInv, StreamInv, NEW c \in Conns, StartPoll(c)
    PROVE  StreamInv' /\ Promised
<1> DEFINE from == IF conn[c].header # 0 THEN conn[c].header ELSE Highest(Stored)
           q == [conn[c] EXCEPT !.poll = "ready", !.cursor = from, !.start = from]
<1>1. UNCHANGED <<row, client, wire, creator>> /\ conn[c].poll = "init"
    BY DEF StartPoll
<1>2. ConnKnows(conn[c])
    BY DEF StreamInv, ConnsKnow
<1>3. conn' = [conn EXCEPT ![c] = q]
    BY <1>2, FieldsAre DEF StartPoll, StreamInv, ConnsKnow, ConnKnows
<1>4. from \in Stored \cup {0}
    <2>1. Highest(Stored) \in Stored \cup {0}
        BY StoredIsRows, HighestIsGreatest DEF Highest
    <2>2. QED
        BY <1>2, <2>1 DEF ConnKnows
<1>5. ConnKnows(q) /\ q.poll = "ready"
    <2> HIDE DEF from
    <2>1. QED
        BY <1>2, <1>4, FieldsAre DEF ConnKnows
<1> HIDE DEF q, from
<1>6. StreamInv'
    BY <1>1, <1>3, <1>5, WireUnchanged, OneConnKeeps
<1>7. \A d \in Conns : conn'[d] = IF d = c THEN q ELSE conn[d]
    BY <1>3 DEF StreamInv, ConnsKnow
<1>8. client.current \in Conns \cup {None}
    BY DEF StreamInv, ClientKnows
<1>9. CASE client.current # c
    <2>1. UNCHANGED Promise!vars
        BY <1>1, <1>7, <1>8, <1>9, Unnoticed DEF PollsLike
    <2>2. QED
        BY <1>6, <2>1, UnnoticedIsPromised
<1>10. CASE client.current = c
    <2>1. Phase = "opening" /\ Phase' = "on"
        BY <1>1, <1>5, <1>7, <1>10, StreamAssumption DEF Phase, Polling
    <2>2. From = conn[c].header /\ From' = q.start
        BY <1>1, <1>7, <1>10, <2>1 DEF From
    <2>3. Promise!Newest = Highest(Stored)
        BY DEF Promise!Newest, Highest
    <2>4. q.start = IF conn[c].header # 0 THEN conn[c].header ELSE Highest(Stored)
        BY <1>2, FieldsAre DEF q, from, ConnKnows
    <2>5. Promise!Listen
        BY <1>1, <2>1, <2>2, <2>3, <2>4, SameRows DEF Promise!Listen
    <2>6. QED
        BY <1>6, <2>5 DEF Promised, Promise!Next
<1>11. QED
    BY <1>9, <1>10

LEMMA ReadPageStreams ==
    ASSUME IInv, StreamInv, NEW c \in Conns, ReadPage(c)
    PROVE  StreamInv' /\ Promised
<1> DEFINE q == [conn[c] EXCEPT !.poll = "reading", !.batch = Page(c)]
<1>1. UNCHANGED <<row, client, wire, creator>> /\ conn[c].poll = "ready"
    BY DEF ReadPage
<1>2. ConnKnows(conn[c])
    BY DEF StreamInv, ConnsKnow
<1>3. conn' = [conn EXCEPT ![c] = q]
    BY <1>2, FieldsAre DEF ReadPage, StreamInv, ConnsKnow, ConnKnows
<1>4. Page(c) \in SUBSET Stored
    BY DEF Page
<1>5. ConnKnows(q) /\ PollsLike(q, conn[c])
    BY <1>1, <1>2, <1>4, FieldsAre DEF ConnKnows, PollsLike
<1> HIDE DEF q
<1>6. QED
    BY <1>1, <1>3, <1>5, WireUnchanged, OneConnKeeps, OneConnUnnoticed, UnnoticedIsPromised

LEMMA EmitPageStreams ==
    ASSUME IInv, StreamInv, NEW c \in Conns, EmitPage(c)
    PROVE  StreamInv' /\ Promised
<1> DEFINE page == conn[c].batch
           emitted == EmitAll(conn[c], page)
           top == Highest(page)
           q == [conn[c] EXCEPT !.poll = "ready", !.batch = {}, !.cursor = top,
                                !.seen = emitted.seen, !.sent = emitted.sent]
<1>1. UNCHANGED <<row, client, creator>> /\ conn[c].poll = "reading"
    BY DEF EmitPage
<1>2. ConnKnows(conn[c])
    BY DEF StreamInv, ConnsKnow
<1>3. conn' = [conn EXCEPT ![c] = q]
    BY DEF EmitPage
<1>4. ConnKnows(q) /\ PollsLike(q, conn[c])
    <2> HIDE DEF emitted, top, page
    <2>1. QED
        BY <1>1, <1>2, FieldsAre DEF ConnKnows, PollsLike
<1>5. ClientKnows'
    <2>1. \/ wire' = wire \o SentOf(conn[c], page) /\ client.current # None
          \/ wire' = wire
        BY StreamAssumption DEF EmitPage
    <2>2. page \in SUBSET Stored
        BY <1>2 DEF ConnKnows
    <2>3. QED
        BY <1>1, <2>1, <2>2, SentKeeps
<1> HIDE DEF q
<1>6. QED
    BY <1>1, <1>3, <1>4, <1>5, OneConnKeeps, OneConnUnnoticed, UnnoticedIsPromised

LEMMA PollFailsStreams ==
    ASSUME IInv, StreamInv, NEW c \in Conns, PollFails(c)
    PROVE  StreamInv' /\ Promised
<1>1. UNCHANGED <<row, client, wire, creator>>
    BY DEF PollFails
<1>2. ConnKnows(conn[c])
    BY DEF StreamInv, ConnsKnow
<1>3. ASSUME NEW q, ConnKnows(q), PollsLike(q, conn[c]), conn' = [conn EXCEPT ![c] = q]
      PROVE  StreamInv' /\ Promised
    BY <1>1, <1>3, WireUnchanged, OneConnKeeps, OneConnUnnoticed, UnnoticedIsPromised
<1>4. CASE conn[c].poll = "reading" /\ conn' = [conn EXCEPT ![c].poll = "ready", ![c].batch = {}]
    <2> DEFINE q == [conn[c] EXCEPT !.poll = "ready", !.batch = {}]
    <2>1. conn' = [conn EXCEPT ![c] = q]
        BY <1>2, <1>4, FieldsAre DEF StreamInv, ConnsKnow, ConnKnows
    <2>2. ConnKnows(q) /\ PollsLike(q, conn[c])
        BY <1>2, <1>4, FieldsAre DEF ConnKnows, PollsLike
    <2> HIDE DEF q
    <2>3. QED
        BY <1>3, <2>1, <2>2
<1>5. CASE conn[c].poll = "init" /\ conn' = [conn EXCEPT ![c].poll = "dead"]
    <2> DEFINE q == [conn[c] EXCEPT !.poll = "dead"]
    <2>1. conn' = [conn EXCEPT ![c] = q]
        BY <1>5
    <2>2. ConnKnows(q) /\ PollsLike(q, conn[c])
        BY <1>2, <1>5, FieldsAre DEF ConnKnows, PollsLike
    <2> HIDE DEF q
    <2>3. QED
        BY <1>3, <2>1, <2>2
<1>6. QED
    BY <1>4, <1>5 DEF PollFails

\* The client hears of a row that is there.
LEMMA ReceiveStreams ==
    ASSUME IInv, StreamInv, Receive
    PROVE  StreamInv' /\ Promised
<1> DEFINE n == Head(wire)
<1>1. /\ UNCHANGED <<row, creator, conn>>
      /\ client' = [client EXCEPT !.lastId = n, !.got = @ \cup {n}]
      /\ wire # <<>> /\ wire' = Tail(wire)
    BY DEF Receive
<1>2. /\ client \in [current : Conns \cup {None}, lastId : Stored \cup {0}, got : SUBSET Stored]
      /\ wire \in Seq(Stored)
    BY DEF StreamInv, ClientKnows
<1>3. n \in Stored /\ wire' \in Seq(Stored)
    BY <1>1, <1>2
<1>4. Stored' = Stored
    BY <1>1, SameRows
<1> HIDE DEF n
<1>5. /\ client'.current = client.current
      /\ client'.got = client.got \cup {n} /\ client'.lastId = n
      /\ client' \in [current : Conns \cup {None}, lastId : Stored \cup {0}, got : SUBSET Stored]
    BY <1>1, <1>2, <1>3
<1>6. StreamInv'
    BY <1>1, <1>3, <1>4, <1>5 DEF StreamInv, ConnsKnow, ConnKnows, ClientKnows, PushersKnow
<1>7. UNCHANGED <<Phase, From>>
    BY <1>1, <1>5 DEF Phase, From, Polling
<1>8. Phase # "off"
    BY <1>1 DEF StreamInv, ClientKnows, Phase
<1>9. Promise!Hear(n)
    BY <1>3, <1>4, <1>5, <1>7, <1>8 DEF Promise!Hear
<1>10. QED
    BY <1>3, <1>6, <1>9, StoredIsRows DEF Promised, Promise!Next

\* The stream breaks: nothing more is owed until the client has another.
LEMMA DropStreams ==
    ASSUME IInv, StreamInv, Drop
    PROVE  StreamInv' /\ Promised
<1>1. /\ UNCHANGED <<row, creator, conn>>
      /\ client' = [client EXCEPT !.current = None]
      /\ wire' = <<>>
    BY DEF Drop
<1>2. client \in [current : Conns \cup {None}, lastId : Stored \cup {0}, got : SUBSET Stored]
    BY DEF StreamInv, ClientKnows
<1>3. Stored' = Stored
    BY <1>1, SameRows
<1>4. /\ client'.current = None /\ client'.got = client.got /\ client'.lastId = client.lastId
      /\ client' \in [current : Conns \cup {None}, lastId : Stored \cup {0}, got : SUBSET Stored]
    BY <1>1, <1>2
<1>5. StreamInv'
    BY <1>1, <1>3, <1>4 DEF StreamInv, ConnsKnow, ConnKnows, ClientKnows, PushersKnow
<1>6. Phase # "off" /\ Phase' = "off" /\ From' = 0
    BY <1>4 DEF Drop, Phase, From
<1>7. Promise!Stop
    BY <1>3, <1>4, <1>6 DEF Promise!Stop
<1>8. QED
    BY <1>5, <1>7 DEF Promised, Promise!Next

\* The server gives up a connection that is not the client's present one.
LEMMA FinalizeStreams ==
    ASSUME IInv, StreamInv, NEW c \in Conns, Finalize(c)
    PROVE  StreamInv' /\ Promised
<1>1. UNCHANGED <<row, creator, client, wire>> /\ client.current # c
    BY DEF Finalize
<1>2. \A d \in Conns : ConnKnows(conn[d])
    BY DEF StreamInv, ConnsKnow
<1>3. conn' = [conn EXCEPT ![c] = Closed]
    BY DEF Finalize
<1>4. \A d \in Conns : ConnKnows(conn'[d])
    BY <1>2, <1>3, ClosedKnows DEF StreamInv, ConnsKnow
<1>5. \A d \in Conns \ {c} : PollsLike(conn'[d], conn[d])
    BY <1>3 DEF StreamInv, ConnsKnow, PollsLike
<1>6. Stored' = Stored
    BY <1>1, SameRows
<1>7. ConnsKnow'
    BY <1>3, <1>4, <1>6 DEF StreamInv, ConnsKnow, ConnKnows
<1>8. StreamInv'
    BY <1>1, <1>6, <1>7, WireUnchanged DEF StreamInv, PushersKnow
<1>9. client.current \in Conns \cup {None}
    BY DEF StreamInv, ClientKnows
<1>10. QED
    BY <1>1, <1>5, <1>8, <1>9, Unnoticed, UnnoticedIsPromised

LEMMA StreamNext ==
    ASSUME IInv, StreamInv, [Next]_vars
    PROVE  StreamInv' /\ Promised
<1>1. CASE UNCHANGED vars
    <2>1. StreamInv'
        BY <1>1, SameRows DEF vars, StreamInv, ConnsKnow, ConnKnows, ClientKnows, PushersKnow
    <2>2. UNCHANGED Promise!vars
        BY <1>1, Unnoticed DEF vars, PollsLike
    <2>3. QED
        BY <2>1, <2>2, UnnoticedIsPromised
<1>2. ASSUME NEW r \in Creators, NEW i \in Instances, NEW k \in Keys, Create(r, i, k)
      PROVE  StreamInv' /\ Promised
    BY <1>2, CreateStreams
<1>3. ASSUME NEW r \in Creators, Insert(r) \/ Push(r)
      PROVE  StreamInv' /\ Promised
    BY <1>3, InsertStreams, PushStreams
<1>4. ASSUME NEW c \in Conns, NEW i \in Instances, Connect(c, i)
      PROVE  StreamInv' /\ Promised
    BY <1>4, ConnectStreams
<1>5. ASSUME NEW c \in Conns, ConnStep(c) \/ PollFails(c)
      PROVE  StreamInv' /\ Promised
    BY <1>5, StartPollStreams, ReadPageStreams, EmitPageStreams,
       FinalizeStreams, PollFailsStreams DEF ConnStep
<1>6. CASE Receive \/ Drop
    BY <1>6, ReceiveStreams, DropStreams
<1>7. QED
    BY <1>1, <1>2, <1>3, <1>4, <1>5, <1>6 DEF Next

\* The stream keeps the safety of its promise with any number of processes, connections,
\* requests and rows: each connection goes on after the row of which the client heard last,
\* on whatever connection and process that was, or after the newest row if of none, and the
\* client hears of stored rows only.
THEOREM StreamKeepsPromise ==
    Spec => Promise!Init /\ [][Promise!Next]_(Promise!vars)
<1>1. Init => IInv /\ StreamInv /\ Promise!Init
    BY IInvInit, StreamInit
<1>2. IInv /\ StreamInv /\ [Next]_vars => IInv' /\ StreamInv' /\ [Promise!Next]_(Promise!vars)
    BY IInvNext, StreamNext DEF Promised
<1>3. QED
    BY <1>1, <1>2, PTL DEF Spec

(***************************************************************************)
(* The type invariant: how often a row can be sent over one connection.     *)
(***************************************************************************)

ConnShape == [phase : {"closed", "open"}, inst : Instances \cup {None},
              poll : {"init", "ready", "reading", "dead"},
              header : 0..MaxRows, cursor : 0..MaxRows, start : 0..MaxRows,
              batch : SUBSET Rows, seen : SUBSET Rows, sent : [Rows -> Nat]]

Remembers(q) == Cardinality(q.seen) <= SeenLimit

\* A row has been polled once if the cursor is past it, and pushed once if it is there and
\* no request is about to push it.
Polled(q, n) == q.poll \in {"ready", "reading"} /\ n <= q.cursor
Pushed(n) == row[n] # None /\ \A r \in Creators : creator[r].op = "push" => creator[r].row # n
One(P) == IF P THEN 1 ELSE 0
SentAtMost(q) == \A n \in Rows : q.sent[n] <= One(Polled(q, n)) + One(Pushed(n))

\* What is being read lies ahead of the cursor.
BatchAhead(q) == q.poll = "reading" => q.batch # {} /\ \A n \in q.batch : n > q.cursor

ConnOK(q) == q \in ConnShape /\ Remembers(q) /\ SentAtMost(q) /\ BatchAhead(q)
ConnsOK == conn = [c \in Conns |-> conn[c]] /\ \A c \in Conns : ConnOK(conn[c])

PushersApart ==
    \A r \in Creators : creator[r].op = "push" =>
        /\ row[creator[r].row] # None
        /\ \A s \in Creators : creator[s].op = "push" /\ creator[s].row = creator[r].row => s = r

ClientOK ==
    /\ client \in [current : Conns \cup {None}, lastId : 0..MaxRows, got : SUBSET Rows]
    /\ wire \in Seq(Rows)

RestOK ==
    drops \in 0..MaxDrops /\ faults \in 0..MaxFaults

StreamTypes == IInv /\ ConnsOK /\ PushersApart /\ ClientOK /\ RestOK

LEMMA ClosedOK == ConnOK(Closed)
<1>1. Cardinality({}) = 0
    BY FS_EmptySet
<1>2. QED
    BY <1>1, StreamAssumption DEF ConnOK, Closed, ConnShape, Remembers, SentAtMost, BatchAhead, One,
       Polled

LEMMA StreamTypesInit == Init => StreamTypes
<1> SUFFICES ASSUME Init PROVE StreamTypes
    OBVIOUS
<1>1. IInv
    BY IInvInit
<1>2. ConnsOK
    BY ClosedOK DEF Init, ConnsOK
<1>3. PushersApart /\ ClientOK /\ RestOK
    BY StreamAssumption DEF Init, PushersApart, ClientOK, RestOK, Idle
<1>4. QED
    BY <1>1, <1>2, <1>3 DEF StreamTypes

LEMMA StreamTypesImply == StreamTypes => TypeOK
<1> SUFFICES ASSUME StreamTypes PROVE TypeOK
    OBVIOUS
<1>1. ASSUME NEW c \in Conns PROVE conn[c].sent \in [Rows -> 0..2]
    <2>1. conn[c] \in ConnShape /\ SentAtMost(conn[c])
        BY DEF StreamTypes, ConnsOK, ConnOK
    <2>2. \A n \in Rows : conn[c].sent[n] \in Nat /\ conn[c].sent[n] <= 2
        BY <2>1 DEF SentAtMost, One, ConnShape
    <2>3. conn[c].sent = [n \in Rows |-> conn[c].sent[n]]
        BY <2>1 DEF ConnShape
    <2>4. QED
        BY <2>2, <2>3
<1>2. conn \in [Conns -> [phase : {"closed", "open"}, inst : Instances \cup {None},
                          poll : {"init", "ready", "reading", "dead"},
                          header : 0..MaxRows, cursor : 0..MaxRows, start : 0..MaxRows,
                          batch : SUBSET Rows, seen : SUBSET Rows, sent : [Rows -> 0..2]]]
    BY <1>1 DEF StreamTypes, ConnsOK, ConnOK, ConnShape
<1>3. \A c \in Conns : Cardinality(conn[c].seen) <= SeenLimit
    BY DEF StreamTypes, ConnsOK, ConnOK, Remembers
<1>4. QED
    BY <1>2, <1>3 DEF StreamTypes, IInv, Typed, Inserting, Pushing, ClientOK, RestOK, TypeOK

(***************************************************************************)
(* What is sent of one row, and of the rows of a page.                      *)
(***************************************************************************)

\* What is sent of the rows of S: none of them more than once.
SendsOnce(q, e, S) ==
    /\ e \in ConnShape /\ Remembers(e)
    /\ e.phase = q.phase /\ e.inst = q.inst /\ e.poll = q.poll
    /\ e.header = q.header /\ e.cursor = q.cursor /\ e.start = q.start /\ e.batch = q.batch
    /\ \A m \in Rows : e.sent[m] <= q.sent[m] + One(m \in S)

LEMMA EmitSends ==
    ASSUME NEW q \in ConnShape, Remembers(q), NEW n \in Rows
    PROVE  SendsOnce(q, Emit(q, n), {n})
<1>1. CASE n \in q.seen
    BY <1>1 DEF Emit, SendsOnce, One, ConnShape
<1>2. CASE n \notin q.seen
    <2> DEFINE kept == IF Cardinality(q.seen) >= SeenLimit THEN {} ELSE q.seen
               sent == [q.sent EXCEPT ![n] = q.sent[n] + 1]
               e == [q EXCEPT !.seen = kept \cup {n}, !.sent = sent]
    <2>1. Emit(q, n) = e
        BY <1>2 DEF Emit, ConnShape
    <2>2. kept \in SUBSET Rows /\ Cardinality(kept \cup {n}) <= SeenLimit
        <3>1. IsFiniteSet(q.seen) /\ IsFiniteSet({}) /\ Cardinality({}) = 0
            BY RowsFinite, FS_EmptySet DEF ConnShape
        <3>2. Cardinality(q.seen) \in Nat /\ SeenLimit \in Nat \ {0}
            BY <3>1, FS_CardinalityType, StreamAssumption
        <3>3. Cardinality(q.seen \cup {n}) = Cardinality(q.seen) + 1
            BY <1>2, <3>1, FS_AddElement
        <3>4. Cardinality({} \cup {n}) = 1
            <4>1. Cardinality({n}) = 1 /\ {} \cup {n} = {n}
                BY FS_Singleton
            <4>2. QED
                BY <4>1
        <3>5. CASE Cardinality(q.seen) >= SeenLimit
            BY <3>2, <3>4, <3>5
        <3>6. CASE ~(Cardinality(q.seen) >= SeenLimit)
            BY <3>2, <3>3, <3>6 DEF ConnShape
        <3>7. QED
            BY <3>5, <3>6
    <2>3. /\ sent \in [Rows -> Nat]
          /\ \A m \in Rows : sent[m] <= q.sent[m] + One(m \in {n})
        BY DEF ConnShape, One
    <2> HIDE DEF kept, sent
    <2>4. /\ e \in ConnShape /\ e.seen = kept \cup {n} /\ e.sent = sent
          /\ e.phase = q.phase /\ e.inst = q.inst /\ e.poll = q.poll
          /\ e.header = q.header /\ e.cursor = q.cursor /\ e.start = q.start
          /\ e.batch = q.batch
        BY <2>2, <2>3 DEF ConnShape
    <2> HIDE DEF e
    <2>5. SendsOnce(q, e, {n})
        BY <2>2, <2>3, <2>4 DEF SendsOnce, Remembers
    <2>6. QED
        BY <2>1, <2>5
<1>3. QED
    BY <1>1, <1>2

\* The states of a connection as the rows are sent one after the other.
Sending(f, q, rows, k) ==
    f = [i \in 0..k |-> IF i = 0 THEN q ELSE Emit(f[i - 1], rows[i])]

LEMMA SendingExists ==
    ASSUME NEW q, NEW rows, NEW k \in Nat
    PROVE  \E f : Sending(f, q, rows, k)
<1> DEFINE Bad == {i \in 0..k : ~\E f : Sending(f, q, rows, i)}
<1> SUFFICES ASSUME ~\E f : Sending(f, q, rows, k) PROVE FALSE
    OBVIOUS
<1>1. k \in Bad
    OBVIOUS
<1>2. PICK i \in Bad : \A j \in Bad : i <= j
    <2>1. Bad \in SUBSET Nat
        OBVIOUS
    <2> HIDE DEF Bad
    <2>2. QED
        BY <1>1, <2>1, LeastOf
<1>3. i \in Nat /\ ~\E f : Sending(f, q, rows, i)
    BY <1>2
<1>4. i # 0
    <2> DEFINE f == [j \in 0..0 |-> q]
    <2>1. Sending(f, q, rows, 0)
        BY DEF Sending
    <2>2. QED
        BY <1>3, <2>1
<1>5. i - 1 \in 0..k /\ i - 1 \notin Bad
    BY <1>2, <1>3, <1>4
<1>6. PICK f : Sending(f, q, rows, i - 1)
    BY <1>5
<1> DEFINE g == [j \in 0..i |-> IF j = i THEN Emit(f[i - 1], rows[i]) ELSE f[j]]
<1>7. \A j \in 0..i : g[j] = IF j = 0 THEN q ELSE Emit(g[j - 1], rows[j])
    <2>1. g[0] = q
        <3>1. f[0] = q
            BY <1>3, <1>4, <1>6 DEF Sending
        <3>2. QED
            BY <1>3, <1>4, <3>1
    <2>2. ASSUME NEW j \in 1..(i - 1) PROVE g[j] = Emit(g[j - 1], rows[j])
        <3>1. f[j] = Emit(f[j - 1], rows[j])
            <4>1. j \in 0..(i - 1) /\ j # 0
                BY <1>3
            <4>2. f[j] = IF j = 0 THEN q ELSE Emit(f[j - 1], rows[j])
                BY <1>6, <4>1 DEF Sending
            <4>3. QED
                BY <4>1, <4>2
        <3>2. g[j] = f[j] /\ g[j - 1] = f[j - 1]
            BY <1>3
        <3>3. QED
            BY <3>1, <3>2
    <2>3. g[i] = Emit(g[i - 1], rows[i])
        <3>1. g[i] = Emit(f[i - 1], rows[i]) /\ g[i - 1] = f[i - 1]
            BY <1>3, <1>4
        <3>2. QED
            BY <3>1
    <2> HIDE DEF g
    <2>4. ASSUME NEW j \in 0..i, j # 0 PROVE g[j] = Emit(g[j - 1], rows[j])
        <3>1. j = i \/ j \in 1..(i - 1)
            BY <1>3, <2>4
        <3>2. QED
            BY <2>2, <2>3, <3>1
    <2>5. QED
        BY <2>1, <2>4
<1>8. Sending(g, q, rows, i)
    <2>1. DOMAIN g = 0..i /\ g = [j \in 0..i |-> g[j]]
        OBVIOUS
    <2> HIDE DEF g
    <2>2. QED
        BY <1>7, <2>1 DEF Sending
<1>9. QED
    BY <1>3, <1>8

LEMMA EmitAllIsSending ==
    ASSUME NEW q, NEW S \in SUBSET Rows
    PROVE  \E f : /\ Sending(f, q, Ascending(S), Len(Ascending(S)))
                  /\ EmitAll(q, S) = f[Len(Ascending(S))]
<1> DEFINE rows == Ascending(S)
           k == Len(rows)
           upTo == CHOOSE f : f = [i \in 0..k |-> IF i = 0 THEN q ELSE Emit(f[i - 1], rows[i])]
<1>1. rows \in Seq(S)
    BY AscendingType
<1>2. k \in Nat
    BY <1>1
<1> HIDE DEF rows, k
<1>3. PICK f : f = [i \in 0..k |-> IF i = 0 THEN q ELSE Emit(f[i - 1], rows[i])]
    <2>1. \E f : Sending(f, q, rows, k)
        BY <1>2, SendingExists
    <2>2. QED
        BY <2>1 DEF Sending
<1>4. upTo = [i \in 0..k |-> IF i = 0 THEN q ELSE Emit(upTo[i - 1], rows[i])]
    BY <1>3
<1>5. EmitAll(q, S) = upTo[k]
    BY DEF EmitAll, rows, k
<1> HIDE DEF upTo
<1>6. Sending(upTo, q, rows, k)
    BY <1>4 DEF Sending
<1>7. QED
    BY <1>5, <1>6 DEF rows, k

LEMMA EmitAllSends ==
    ASSUME NEW q \in ConnShape, Remembers(q), NEW S \in SUBSET Rows
    PROVE  SendsOnce(q, EmitAll(q, S), S)
<1> PICK rows : rows = Ascending(S)
    OBVIOUS
<1> PICK k : k = Len(rows)
    OBVIOUS
<1>1. PICK f : Sending(f, q, rows, k) /\ EmitAll(q, S) = f[k]
    BY EmitAllIsSending
<1>2. /\ rows \in Seq(S) /\ k \in Nat /\ \A i \in 1..k : rows[i] \in S
      /\ \A i, j \in 1..k : rows[i] = rows[j] => i = j
    BY AscendingType
<1> DEFINE First(i) == {rows[j] : j \in 1..i}
           Bad == {i \in 0..k : ~SendsOnce(q, f[i], First(i))}
<1>3. Bad = {}
    <2> SUFFICES ASSUME Bad # {} PROVE FALSE
        OBVIOUS
    <2>1. PICK i \in Bad : \A j \in Bad : i <= j
        <3>1. Bad \in SUBSET Nat
            OBVIOUS
        <3> HIDE DEF Bad
        <3>2. QED
            BY <3>1, LeastOf
    <2>2. i \in 0..k /\ ~SendsOnce(q, f[i], First(i))
        BY <2>1
    <2>3. i # 0
        <3>1. f[0] = q
            BY <1>1, <1>2 DEF Sending
        <3>2. SendsOnce(q, q, First(0))
            <4>1. \A m \in Rows : q.sent[m] \in Nat
                BY DEF ConnShape
            <4> HIDE DEF First
            <4>2. QED
                BY <4>1 DEF SendsOnce, One
        <3> HIDE DEF First
        <3>3. QED
            BY <2>2, <3>1, <3>2
    <2> PICK p : p = f[i - 1]
        OBVIOUS
    <2> PICK n : n = rows[i]
        OBVIOUS
    <2>4. i - 1 \in 0..k /\ i - 1 \notin Bad /\ i \in 1..k
        <3> HIDE DEF Bad
        <3>1. i - 1 \in 0..k /\ i \in 1..k /\ ~(i <= i - 1)
            BY <1>2, <2>2, <2>3
        <3>2. QED
            BY <2>1, <3>1
    <2>5. SendsOnce(q, p, First(i - 1))
        BY <2>4
    <2>6. f[i] = Emit(p, n) /\ n \in Rows
        <3>1. f[i] = IF i = 0 THEN q ELSE Emit(f[i - 1], rows[i])
            BY <1>1, <2>2 DEF Sending
        <3>2. QED
            BY <1>2, <2>3, <2>4, <3>1
    <2>7. SendsOnce(p, f[i], {n})
        <3>1. p \in ConnShape /\ Remembers(p)
            BY <2>5 DEF SendsOnce
        <3>2. QED
            BY <2>6, <3>1, EmitSends
    <2>8. n \notin First(i - 1) /\ n \in First(i) /\ First(i - 1) \subseteq First(i)
        <3>1. \A j \in 1..(i - 1) : j \in 1..i /\ j \in 1..k /\ j # i
            BY <1>2, <2>4
        <3>2. n \notin First(i - 1)
            BY <1>2, <2>4, <3>1
        <3>3. n \in First(i)
            BY <2>4
        <3>4. First(i - 1) \subseteq First(i)
            BY <3>1
        <3>5. QED
            BY <3>2, <3>3, <3>4
    <2> HIDE DEF First
    <2>9. ASSUME NEW m \in Rows PROVE f[i].sent[m] <= q.sent[m] + One(m \in First(i))
        <3>1. /\ p.sent[m] <= q.sent[m] + One(m \in First(i - 1))
              /\ f[i].sent[m] <= p.sent[m] + One(m \in {n})
            BY <2>5, <2>7 DEF SendsOnce
        <3>2. p.sent[m] \in Nat /\ q.sent[m] \in Nat /\ f[i].sent[m] \in Nat
            BY <2>5, <2>7 DEF SendsOnce, ConnShape
        <3>3. CASE m = n
            <4>1. /\ One(m \in First(i - 1)) = 0 /\ One(m \in First(i)) = 1
                  /\ One(m \in {n}) = 1
                BY <2>8, <3>3 DEF One
            <4>2. QED
                BY <3>1, <3>2, <4>1
        <3>4. CASE m # n
            BY <2>8, <3>1, <3>2, <3>4 DEF One
        <3>5. QED
            BY <3>3, <3>4
    <2>10. SendsOnce(q, f[i], First(i))
        BY <2>5, <2>7, <2>9 DEF SendsOnce
    <2>11. QED
        BY <2>2, <2>10
<1>4. SendsOnce(q, f[k], First(k))
    <2>1. k \in 0..k
        BY <1>2
    <2>2. QED
        BY <1>3, <2>1
<1>5. First(k) \subseteq S
    BY <1>2
<1> HIDE DEF First
<1>6. ASSUME NEW m \in Rows PROVE f[k].sent[m] <= q.sent[m] + One(m \in S)
    <2>1. f[k].sent[m] <= q.sent[m] + One(m \in First(k))
        BY <1>4 DEF SendsOnce
    <2>2. f[k].sent[m] \in Nat /\ q.sent[m] \in Nat
        BY <1>4 DEF SendsOnce, ConnShape
    <2>3. QED
        BY <1>5, <2>1, <2>2 DEF One
<1>7. QED
    BY <1>1, <1>4, <1>6 DEF SendsOnce

(***************************************************************************)
(* The steps.                                                               *)
(***************************************************************************)

\* A row of which no request is about to push more than before is sent no more often.
LEMMA BoundRises ==
    ASSUME NEW q, q \in ConnShape, SentAtMost(q), \A n \in Rows : Pushed(n) => Pushed(n)'
    PROVE  \A n \in Rows : q.sent[n] <= One(Polled(q, n)) + One(Pushed(n)')
<1> SUFFICES ASSUME NEW n \in Rows PROVE q.sent[n] <= One(Polled(q, n)) + One(Pushed(n)')
    OBVIOUS
<1>1. q.sent[n] \in Nat /\ q.sent[n] <= One(Polled(q, n)) + One(Pushed(n))
    BY DEF SentAtMost, ConnShape
<1>2. One(Pushed(n)) <= One(Pushed(n)')
    BY DEF One
<1>3. One(Polled(q, n)) \in Nat /\ One(Pushed(n)) \in Nat /\ One(Pushed(n)') \in Nat
    BY DEF One
<1>4. QED
    BY <1>1, <1>2, <1>3

\* A step that leaves the connections alone.
LEMMA ConnsStay ==
    ASSUME ConnsOK, UNCHANGED conn, \A n \in Rows : Pushed(n) => Pushed(n)'
    PROVE  ConnsOK'
<1> SUFFICES ASSUME NEW c \in Conns PROVE ConnOK(conn[c])'
    BY DEF ConnsOK
<1> PICK q : q = conn[c]
    OBVIOUS
<1>1. ConnOK(q)
    BY DEF ConnsOK
<1>2. \A n \in Rows : q.sent[n] <= One(Polled(q, n)) + One(Pushed(n)')
    BY <1>1, BoundRises DEF ConnOK
<1>3. ConnOK(q)'
    BY <1>1, <1>2 DEF ConnOK, SentAtMost, Remembers, BatchAhead, Polled, ConnShape, One
<1>4. conn'[c] = q
    OBVIOUS
<1>5. QED
    BY <1>3, <1>4

\* A step of one connection, which creates and pushes nothing.
LEMMA OneConnOK ==
    ASSUME ConnsOK, NEW c \in Conns, NEW q, ConnOK(q), conn' = [conn EXCEPT ![c] = q],
           UNCHANGED <<row, creator>>
    PROVE  ConnsOK'
<1>1. \A d \in Conns : conn'[d] = IF d = c THEN q ELSE conn[d]
    BY DEF ConnsOK
<1>2. conn' = [d \in Conns |-> conn'[d]]
    BY DEF ConnsOK
<1>3. ASSUME NEW d \in Conns PROVE ConnOK(conn[d])'
    <2> PICK p : p = conn'[d]
        OBVIOUS
    <2>1. ConnOK(p)
        BY <1>1 DEF ConnsOK
    <2>2. ConnOK(p)'
        BY <2>1 DEF ConnOK, SentAtMost, Pushed, Remembers, BatchAhead, Polled, ConnShape, One
    <2>3. QED
        BY <2>2
<1>4. QED
    BY <1>2, <1>3 DEF ConnsOK

LEMMA ApartStay ==
    ASSUME PushersApart, UNCHANGED <<row, creator>>
    PROVE  PushersApart'
BY DEF PushersApart

LEMMA ClientStays ==
    ASSUME ClientOK, UNCHANGED <<client, wire>>
    PROVE  ClientOK'
BY DEF ClientOK

LEMMA HighestBelow ==
    ASSUME NEW S \in SUBSET Rows
    PROVE  Highest(S) \in 0..MaxRows /\ \A m \in S : m <= Highest(S)
<1>1. MaxRows \in Nat
    BY StreamAssumption
<1>2. CASE S = {}
    BY <1>1, <1>2 DEF Highest
<1>3. CASE S # {}
    <2>1. Highest(S) \in S /\ \A m \in S : m <= Highest(S)
        BY <1>3, HighestIsGreatest
    <2>2. Highest(S) \in Rows
        BY <2>1
    <2>3. QED
        BY <1>1, <2>1, <2>2 DEF Rows
<1>4. QED
    BY <1>2, <1>3

LEMMA CreateTypes ==
    ASSUME StreamTypes, NEW r \in Creators, NEW i \in Instances, NEW k \in Keys, Create(r, i, k)
    PROVE  StreamTypes'
<1> PICK q : q = [op |-> "insert", inst |-> i, key |-> k]
    OBVIOUS
<1>1. /\ creator' = [creator EXCEPT ![r] = q] /\ creator[r] = Idle
      /\ UNCHANGED <<row, conn, client, wire, drops, faults, broadcasts>>
    BY DEF Create
<1>2. /\ \A s \in Creators : creator'[s] = IF s = r THEN q ELSE creator[s]
      /\ q.op = "insert"
    BY <1>1 DEF StreamTypes, IInv, Typed
<1>3. IInv'
    BY CreateKeeps DEF StreamTypes
<1>4. \A n \in Rows : Pushed(n) => Pushed(n)'
    BY <1>1, <1>2 DEF Pushed
<1>5. ConnsOK'
    BY <1>1, <1>4, ConnsStay DEF StreamTypes
<1>6. PushersApart'
    BY <1>1, <1>2 DEF StreamTypes, PushersApart
<1>7. QED
    BY <1>1, <1>3, <1>5, <1>6, ClientStays DEF StreamTypes, RestOK

LEMMA InsertTypes ==
    ASSUME StreamTypes, NEW r \in Creators, Insert(r)
    PROVE  StreamTypes'
<1> PICK req : req = creator[r]
    OBVIOUS
<1>1. /\ req.op = "insert"
      /\ UNCHANGED <<conn, client, wire, drops, faults, broadcasts>>
    BY DEF Insert
<1>2. IInv'
    BY InsertKeeps DEF StreamTypes
<1>3. req \in Inserting /\ req.key \in Keys /\ req.key # None
    BY <1>1, StreamAssumption DEF StreamTypes, IInv, Typed, Inserting, Pushing, Idle
<1>4. PushersApart' /\ \A n \in Rows : Pushed(n) => Pushed(n)'
    <2>1. CASE creator' = [creator EXCEPT ![r] = Idle] /\ UNCHANGED row
        <3>1. \A s \in Creators : creator'[s] = IF s = r THEN Idle ELSE creator[s]
            BY <2>1 DEF StreamTypes, IInv, Typed
        <3>2. QED
            BY <2>1, <3>1 DEF StreamTypes, PushersApart, Pushed, Idle
    <2>2. ASSUME NEW n \in Rows \ Stored, row' = [row EXCEPT ![n] = req.key],
                 creator' = [creator EXCEPT ![r] =
                     [op |-> "push", inst |-> req.inst, key |-> req.key, row |-> n]]
          PROVE  PushersApart' /\ \A m \in Rows : Pushed(m) => Pushed(m)'
        <3> PICK q : q = [op |-> "push", inst |-> req.inst, key |-> req.key, row |-> n]
            OBVIOUS
        <3>1. /\ \A s \in Creators : creator'[s] = IF s = r THEN q ELSE creator[s]
              /\ q.op = "push" /\ q.row = n
            BY <2>2 DEF StreamTypes, IInv, Typed
        <3>2. /\ row[n] = None /\ row'[n] # None
              /\ \A m \in Rows \ {n} : row'[m] = row[m]
            BY <1>3, <2>2 DEF Stored, StreamTypes, IInv, Typed
        <3>3. \A s \in Creators : s # r /\ creator[s].op = "push" =>
                  creator[s].row \in Rows \ {n} /\ creator[s].row # n
            <4>1. ASSUME NEW s \in Creators, creator[s].op = "push" PROVE creator[s].row \in Rows
                BY <4>1 DEF StreamTypes, IInv, Typed, Idle, Inserting, Pushing
            <4>2. QED
                BY <3>2, <4>1 DEF StreamTypes, PushersApart
        <3>4. PushersApart'
            <4> SUFFICES ASSUME NEW s \in Creators, creator'[s].op = "push"
                         PROVE  /\ row'[creator'[s].row] # None
                                /\ \A t \in Creators :
                                      creator'[t].op = "push" /\ creator'[t].row = creator'[s].row
                                          => t = s
                BY DEF PushersApart
            <4>1. CASE s = r
                BY <3>1, <3>2, <3>3, <4>1
            <4>2. CASE s # r
                <5>1. creator'[s] = creator[s] /\ creator[s].op = "push"
                    BY <3>1, <4>2
                <5>2. creator[s].row \in Rows \ {n}
                    BY <3>3, <4>2, <5>1
                <5>3. row'[creator[s].row] # None
                    BY <3>2, <5>1, <5>2 DEF StreamTypes, PushersApart
                <5>4. ASSUME NEW t \in Creators, creator'[t].op = "push",
                             creator'[t].row = creator'[s].row
                      PROVE  t = s
                    <6>1. t # r
                        BY <3>1, <5>1, <5>2, <5>4
                    <6>2. QED
                        BY <3>1, <5>1, <5>4, <6>1 DEF StreamTypes, PushersApart
                <5>5. QED
                    BY <5>1, <5>3, <5>4
            <4>3. QED
                BY <4>1, <4>2
        <3>5. ASSUME NEW m \in Rows, Pushed(m) PROVE Pushed(m)'
            <4>1. m # n /\ row'[m] # None
                BY <3>2, <3>5 DEF Pushed
            <4>2. QED
                BY <3>1, <3>5, <4>1 DEF Pushed
        <3>6. QED
            BY <3>4, <3>5
    <2>3. QED
        BY <2>1, <2>2 DEF Insert
<1>5. ConnsOK'
    BY <1>1, <1>4, ConnsStay DEF StreamTypes
<1>6. QED
    BY <1>1, <1>2, <1>4, <1>5, ClientStays DEF StreamTypes, RestOK

\* What is sent goes onto the wire behind what is there.
LEMMA SentRows ==
    ASSUME ClientOK, UNCHANGED client, NEW q, NEW S \in SUBSET Rows,
           wire' = wire \o SentOf(q, S) \/ wire' = wire
    PROVE  ClientOK'
<1> DEFINE T == {n \in S : EmitAll(q, S).sent[n] > q.sent[n]}
<1>1. Ascending(T) \in Seq(T) /\ T \subseteq Rows
    BY AscendingType
<1>2. SentOf(q, S) \in Seq(Rows)
    <2>1. SentOf(q, S) = Ascending(T)
        BY DEF SentOf
    <2> HIDE DEF T
    <2>2. QED
        BY <1>1, <2>1
<1>3. wire \in Seq(Rows)
    BY DEF ClientOK
<1>4. wire' \in Seq(Rows)
    <2> PICK more : more = SentOf(q, S)
        OBVIOUS
    <2>1. more \in Seq(Rows) /\ (wire' = wire \o more \/ wire' = wire)
        BY <1>2
    <2>2. wire \o more \in Seq(Rows)
        BY <1>3, <2>1
    <2>3. QED
        BY <1>3, <2>1, <2>2
<1>5. QED
    BY <1>4 DEF ClientOK

\* A row is pushed by one request, which has not pushed it before.
LEMMA PushTypes ==
    ASSUME StreamTypes, NEW r \in Creators, Push(r)
    PROVE  StreamTypes'
<1> PICK req : req = creator[r]
    OBVIOUS
<1> PICK n : n = req.row
    OBVIOUS
<1> DEFINE told == {c \in Conns : Hears(c, req.inst)}
<1>1. /\ req.op = "push"
      /\ conn' = [c \in Conns |-> IF c \in told THEN Emit(conn[c], n) ELSE conn[c]]
      /\ creator' = [creator EXCEPT ![r] = Idle]
      /\ UNCHANGED <<row, client, drops, faults>>
    BY DEF Push
<1>2. IInv'
    BY PushKeeps DEF StreamTypes
<1>3. n \in Rows /\ row[n] # None
    BY <1>1 DEF StreamTypes, IInv, Typed, Inserting, Pushing, Idle, PushersApart
<1>4. /\ \A s \in Creators : creator'[s] = IF s = r THEN Idle ELSE creator[s]
      /\ Idle.op = "idle"
    BY <1>1 DEF StreamTypes, IInv, Typed, Idle
<1>5. PushersApart'
    BY <1>1, <1>4 DEF StreamTypes, PushersApart
<1>6. ~Pushed(n) /\ Pushed(n)' /\ \A m \in Rows : Pushed(m) => Pushed(m)'
    <2>1. ~Pushed(n)
        BY <1>1 DEF Pushed
    <2>2. \A s \in Creators : s # r /\ creator[s].op = "push" => creator[s].row # n
        BY <1>1 DEF StreamTypes, PushersApart
    <2>3. Pushed(n)'
        BY <1>1, <1>3, <1>4, <2>2 DEF Pushed
    <2>4. \A m \in Rows : Pushed(m) => Pushed(m)'
        BY <1>1, <1>4 DEF Pushed
    <2>5. QED
        BY <2>1, <2>3, <2>4
<1> HIDE DEF told
<1>7. ASSUME NEW c \in Conns PROVE ConnOK(conn[c])'
    <2> PICK q : q = conn[c]
        OBVIOUS
    <2> PICK e : e = conn'[c]
        OBVIOUS
    <2>1. ConnOK(q)
        BY DEF StreamTypes, ConnsOK
    <2>2. SendsOnce(q, e, {n})
        <3>1. CASE c \in told
            BY <1>1, <1>3, <2>1, <3>1, EmitSends DEF ConnOK
        <3>2. CASE c \notin told
            <4>1. e = q
                BY <1>1, <3>2
            <4>2. QED
                BY <2>1, <4>1 DEF SendsOnce, ConnOK, One, ConnShape
        <3>3. QED
            BY <3>1, <3>2
    <2>3. \A m \in Rows : Polled(e, m) <=> Polled(q, m)
        BY <2>2 DEF SendsOnce, Polled
    <2>4. ASSUME NEW m \in Rows PROVE e.sent[m] <= One(Polled(e, m)) + One(Pushed(m)')
        <3>1. q.sent[m] \in Nat /\ e.sent[m] \in Nat
            BY <2>1, <2>2 DEF ConnOK, SendsOnce, ConnShape
        <3>2. /\ e.sent[m] <= q.sent[m] + One(m \in {n})
              /\ q.sent[m] <= One(Polled(q, m)) + One(Pushed(m))
            BY <2>1, <2>2 DEF ConnOK, SendsOnce, SentAtMost
        <3>3. One(Polled(e, m)) = One(Polled(q, m)) /\ One(Polled(q, m)) \in Nat
            BY <2>3 DEF One
        <3>4. One(m \in {n}) + One(Pushed(m)) <= One(Pushed(m)')
            BY <1>6 DEF One
        <3>5. One(m \in {n}) \in Nat /\ One(Pushed(m)) \in Nat /\ One(Pushed(m)') \in Nat
            BY DEF One
        <3>6. QED
            BY <3>1, <3>2, <3>3, <3>4, <3>5
    <2>5. e \in ConnShape /\ Remembers(e) /\ BatchAhead(e)
        BY <2>1, <2>2 DEF ConnOK, SendsOnce, BatchAhead
    <2>6. ConnOK(e)'
        BY <2>4, <2>5 DEF ConnOK, SentAtMost, Remembers, BatchAhead, Polled, ConnShape, One
    <2>7. QED
        BY <2>6
<1>8. ConnsOK'
    BY <1>1, <1>7 DEF ConnsOK
<1>9. ClientOK'
    <2>1. \/ wire' = wire \o SentOf(conn[client.current], {n})
          \/ wire' = wire
        BY DEF Push
    <2>2. QED
        <3>1. {n} \in SUBSET Rows /\ ClientOK /\ UNCHANGED client
            BY <1>1, <1>3 DEF StreamTypes
        <3>2. QED
            BY <2>1, <3>1, SentRows
<1>10. QED
    BY <1>1, <1>2, <1>5, <1>8, <1>9 DEF StreamTypes, RestOK

LEMMA ConnectTypes ==
    ASSUME StreamTypes, NEW c \in Conns, NEW i \in Instances, Connect(c, i)
    PROVE  StreamTypes'
<1> PICK q : q = [Closed EXCEPT !.phase = "open", !.inst = i, !.header = client.lastId]
    OBVIOUS
<1>1. /\ conn' = [conn EXCEPT ![c] = q] /\ client' = [client EXCEPT !.current = c]
      /\ UNCHANGED <<row, creator, wire, drops, faults, broadcasts>>
    BY DEF Connect
<1>2. client.lastId \in 0..MaxRows
    BY DEF StreamTypes, ClientOK
<1>3. ConnOK(q)
    <2>1. q \in ConnShape /\ q.seen = Closed.seen /\ q.sent = Closed.sent /\ q.poll = "init"
        BY <1>2, ClosedOK DEF ConnOK, ConnShape, Closed
    <2>2. QED
        BY <2>1, ClosedOK DEF ConnOK, Remembers, SentAtMost, BatchAhead, Polled, Closed, One
<1>4. ConnsOK'
    BY <1>1, <1>3, OneConnOK DEF StreamTypes
<1>5. ClientOK'
    BY <1>1 DEF StreamTypes, ClientOK
<1>6. QED
    BY <1>1, <1>4, <1>5, OthersKeep, ApartStay DEF StreamTypes, RestOK

\* A step of one connection at the server, of which the client may be sent rows.
LEMMA OneConnTypes ==
    ASSUME StreamTypes, NEW c \in Conns, NEW q, ConnOK(q), conn' = [conn EXCEPT ![c] = q],
           ClientOK', faults' \in 0..MaxFaults,
           UNCHANGED <<row, creator, drops, broadcasts>>
    PROVE  StreamTypes'
<1>1. ConnsOK'
    BY OneConnOK DEF StreamTypes
<1>2. QED
    BY <1>1, OthersKeep, ApartStay DEF StreamTypes, RestOK

\* Nothing has been polled before: the bound can only rise.
LEMMA StartPollTypes ==
    ASSUME StreamTypes, NEW c \in Conns, StartPoll(c)
    PROVE  StreamTypes'
<1> PICK p : p = conn[c]
    OBVIOUS
<1> PICK from : from = IF p.header # 0 THEN p.header ELSE Highest(Stored)
    OBVIOUS
<1> PICK q : q = [p EXCEPT !.poll = "ready", !.cursor = from, !.start = from]
    OBVIOUS
<1>1. ConnOK(p) /\ p.poll = "init"
    BY DEF StreamTypes, ConnsOK, StartPoll
<1>2. from \in 0..MaxRows
    BY <1>1, StoredIsRows, HighestBelow DEF ConnOK, ConnShape
<1>3. /\ q \in ConnShape /\ q.seen = p.seen /\ q.sent = p.sent /\ q.poll = "ready"
    BY <1>1, <1>2 DEF ConnOK, ConnShape
<1>4. SentAtMost(q)
    <2> SUFFICES ASSUME NEW n \in Rows PROVE q.sent[n] <= One(Polled(q, n)) + One(Pushed(n))
        BY DEF SentAtMost
    <2>1. p.sent[n] <= One(Polled(p, n)) + One(Pushed(n)) /\ p.sent[n] \in Nat
        BY <1>1 DEF ConnOK, SentAtMost, ConnShape
    <2>2. One(Polled(p, n)) = 0 /\ One(Polled(q, n)) \in Nat /\ One(Pushed(n)) \in Nat
        BY <1>1 DEF Polled, One
    <2>3. QED
        BY <1>3, <2>1, <2>2
<1>5. ConnOK(q)
    BY <1>1, <1>3, <1>4 DEF ConnOK, Remembers, BatchAhead
<1>6. /\ conn' = [conn EXCEPT ![c] = q]
      /\ UNCHANGED <<row, creator, client, wire, drops, faults, broadcasts>>
    <2>1. UNCHANGED <<row, creator, client, wire, drops, faults, broadcasts>>
        BY DEF StartPoll
    <2>2. conn' = [conn EXCEPT ![c].poll = "ready", ![c].cursor = from, ![c].start = from]
        BY DEF StartPoll
    <2>3. conn = [d \in Conns |-> conn[d]]
        BY DEF StreamTypes, ConnsOK
    <2>4. QED
        BY <2>1, <2>2, <2>3
<1>7. QED
    BY <1>5, <1>6, OneConnTypes, ClientStays DEF StreamTypes, RestOK

LEMMA ReadPageTypes ==
    ASSUME StreamTypes, NEW c \in Conns, ReadPage(c)
    PROVE  StreamTypes'
<1> PICK p : p = conn[c]
    OBVIOUS
<1> PICK page : page = Page(c)
    OBVIOUS
<1> PICK q : q = [p EXCEPT !.poll = "reading", !.batch = page]
    OBVIOUS
<1>1. ConnOK(p) /\ p.poll = "ready" /\ page # {}
    BY DEF StreamTypes, ConnsOK, ReadPage
<1>2. page \in SUBSET Rows /\ \A n \in page : n > p.cursor
    BY DEF Page, Stored
<1>3. /\ q \in ConnShape /\ q.seen = p.seen /\ q.sent = p.sent /\ q.poll = "reading"
      /\ q.batch = page /\ q.cursor = p.cursor
    BY <1>1, <1>2 DEF ConnOK, ConnShape
<1>4. \A n \in Rows : Polled(q, n) <=> Polled(p, n)
    BY <1>1, <1>3 DEF Polled
<1>5. SentAtMost(q)
    BY <1>1, <1>3, <1>4 DEF ConnOK, SentAtMost, One
<1>6. ConnOK(q)
    BY <1>1, <1>2, <1>3, <1>5 DEF ConnOK, Remembers, BatchAhead
<1>7. /\ conn' = [conn EXCEPT ![c] = q]
      /\ UNCHANGED <<row, creator, client, wire, drops, faults, broadcasts>>
    <2>1. UNCHANGED <<row, creator, client, wire, drops, faults, broadcasts>>
        BY DEF ReadPage
    <2>2. conn' = [conn EXCEPT ![c].poll = "reading", ![c].batch = page]
        BY DEF ReadPage
    <2>3. conn = [d \in Conns |-> conn[d]]
        BY DEF StreamTypes, ConnsOK
    <2>4. QED
        BY <2>1, <2>2, <2>3
<1>8. QED
    BY <1>6, <1>7, OneConnTypes, ClientStays DEF StreamTypes, RestOK

\* The rows of the page were ahead of the cursor, and are behind it now.
LEMMA EmitPageTypes ==
    ASSUME StreamTypes, NEW c \in Conns, EmitPage(c)
    PROVE  StreamTypes'
<1> PICK p : p = conn[c]
    OBVIOUS
<1> PICK page : page = p.batch
    OBVIOUS
<1> PICK e : e = EmitAll(p, page)
    OBVIOUS
<1> PICK last : last = Highest(page)
    OBVIOUS
<1> PICK q : q = [p EXCEPT !.poll = "ready", !.batch = {}, !.cursor = last,
                           !.seen = e.seen, !.sent = e.sent]
    OBVIOUS
<1>1. ConnOK(p) /\ p.poll = "reading"
    BY DEF StreamTypes, ConnsOK, EmitPage
<1>2. page \in SUBSET Rows /\ page # {} /\ \A n \in page : n > p.cursor
    BY <1>1 DEF ConnOK, ConnShape, BatchAhead
<1>3. SendsOnce(p, e, page)
    BY <1>1, <1>2, EmitAllSends DEF ConnOK
<1>4. last \in 0..MaxRows /\ last > p.cursor /\ \A n \in page : n <= last
    <2>1. last \in 0..MaxRows /\ \A n \in page : n <= last
        BY <1>2, HighestBelow
    <2>2. PICK n \in page : TRUE
        BY <1>2
    <2>3. n \in Nat /\ p.cursor \in Nat /\ last \in Nat
        BY <1>1, <1>2, <2>1, <2>2, StreamAssumption DEF Rows, ConnOK, ConnShape
    <2>4. QED
        BY <1>2, <2>1, <2>2, <2>3
<1>5. /\ q \in ConnShape /\ q.seen = e.seen /\ q.sent = e.sent /\ q.poll = "ready"
      /\ q.cursor = last
    <2>1. e.seen \in SUBSET Rows /\ e.sent \in [Rows -> Nat]
        BY <1>3 DEF SendsOnce, ConnShape
    <2>2. p \in ConnShape
        BY <1>1 DEF ConnOK
    <2>3. q = [phase |-> p.phase, inst |-> p.inst, poll |-> "ready",
               header |-> p.header, cursor |-> last, start |-> p.start, batch |-> {},
               seen |-> e.seen, sent |-> e.sent]
        BY <2>2 DEF ConnShape
    <2>4. q.seen = e.seen /\ q.sent = e.sent /\ q.poll = "ready" /\ q.cursor = last
        BY <2>3
    <2>5. /\ p.phase \in {"closed", "open"} /\ p.inst \in Instances \cup {None}
          /\ p.header \in 0..MaxRows /\ p.start \in 0..MaxRows
        BY <2>2 DEF ConnShape
    <2>6. q \in ConnShape
        BY <1>4, <2>1, <2>3, <2>5, Zenon DEF ConnShape
    <2>7. QED
        BY <2>4, <2>6
<1>6. SentAtMost(q)
    <2> SUFFICES ASSUME NEW n \in Rows PROVE q.sent[n] <= One(Polled(q, n)) + One(Pushed(n))
        BY DEF SentAtMost
    <2>1. /\ e.sent[n] <= p.sent[n] + One(n \in page)
          /\ p.sent[n] <= One(Polled(p, n)) + One(Pushed(n))
        BY <1>1, <1>3 DEF ConnOK, SentAtMost, SendsOnce
    <2>2. p.sent[n] \in Nat /\ e.sent[n] \in Nat
        BY <1>1, <1>3 DEF ConnOK, SendsOnce, ConnShape
    <2>3. One(n \in page) + One(Polled(p, n)) <= One(Polled(q, n))
        <3>1. n \in Nat /\ p.cursor \in Nat /\ last \in Nat
            BY <1>1, <1>4, StreamAssumption DEF Rows, ConnOK, ConnShape
        <3>2. n \in page => ~Polled(p, n) /\ Polled(q, n)
            BY <1>2, <1>4, <1>5, <3>1 DEF Polled
        <3>3. Polled(p, n) => Polled(q, n)
            BY <1>4, <1>5, <3>1 DEF Polled
        <3>4. QED
            BY <3>2, <3>3 DEF One
    <2>4. /\ One(n \in page) \in Nat /\ One(Polled(p, n)) \in Nat /\ One(Polled(q, n)) \in Nat
          /\ One(Pushed(n)) \in Nat
        BY DEF One
    <2>5. QED
        BY <1>5, <2>1, <2>2, <2>3, <2>4
<1>7. ConnOK(q)
    BY <1>3, <1>5, <1>6 DEF ConnOK, Remembers, BatchAhead, SendsOnce
<1>8. /\ conn' = [conn EXCEPT ![c] = q]
      /\ wire' = wire \o SentOf(p, page) \/ wire' = wire
      /\ UNCHANGED <<row, creator, client, drops, faults, broadcasts>>
    BY DEF EmitPage
<1>9. ClientOK'
    BY <1>2, <1>8, SentRows DEF StreamTypes
<1>10. QED
    BY <1>7, <1>8, <1>9, OneConnTypes DEF StreamTypes, RestOK

LEMMA PollFailsTypes ==
    ASSUME StreamTypes, NEW c \in Conns, PollFails(c)
    PROVE  StreamTypes'
<1> PICK p : p = conn[c]
    OBVIOUS
<1> PICK again : again = [p EXCEPT !.poll = "ready", !.batch = {}]
    OBVIOUS
<1> PICK dead : dead = [p EXCEPT !.poll = "dead"]
    OBVIOUS
<1>1. ConnOK(p)
    BY DEF StreamTypes, ConnsOK
<1>2. /\ faults < MaxFaults /\ faults' = faults + 1
      /\ \/ p.poll = "reading"
            /\ conn' = [conn EXCEPT ![c].poll = "ready", ![c].batch = {}]
         \/ p.poll = "init" /\ conn' = [conn EXCEPT ![c].poll = "dead"]
      /\ UNCHANGED <<row, creator, client, wire, drops, broadcasts>>
    BY DEF PollFails
<1>3. \/ p.poll = "reading" /\ conn' = [conn EXCEPT ![c] = again]
      \/ p.poll = "init" /\ conn' = [conn EXCEPT ![c] = dead]
    <2>1. conn = [d \in Conns |-> conn[d]]
        BY DEF StreamTypes, ConnsOK
    <2>2. QED
        BY <1>2, <2>1
<1>4. faults' \in 0..MaxFaults
    BY <1>2, StreamAssumption DEF StreamTypes, RestOK
<1>5. ClientOK'
    BY <1>2, ClientStays DEF StreamTypes
<1>6. CASE p.poll = "reading" /\ conn' = [conn EXCEPT ![c] = again]
    <2>1. /\ again \in ConnShape /\ again.seen = p.seen /\ again.sent = p.sent
          /\ again.poll = "ready" /\ again.cursor = p.cursor
        BY <1>1 DEF ConnOK, ConnShape
    <2>2. \A n \in Rows : Polled(again, n) <=> Polled(p, n)
        BY <1>6, <2>1 DEF Polled
    <2>3. ConnOK(again)
        BY <1>1, <2>1, <2>2 DEF ConnOK, SentAtMost, One, Remembers, BatchAhead
    <2>4. QED
        BY <1>2, <1>4, <1>5, <1>6, <2>3, OneConnTypes
<1>7. CASE p.poll = "init" /\ conn' = [conn EXCEPT ![c] = dead]
    <2>1. /\ dead \in ConnShape /\ dead.seen = p.seen /\ dead.sent = p.sent /\ dead.poll = "dead"
        BY <1>1 DEF ConnOK, ConnShape
    <2>2. \A n \in Rows : Polled(dead, n) <=> Polled(p, n)
        BY <1>7, <2>1 DEF Polled
    <2>3. ConnOK(dead)
        BY <1>1, <2>1, <2>2 DEF ConnOK, SentAtMost, One, Remembers, BatchAhead
    <2>4. QED
        BY <1>2, <1>4, <1>5, <1>7, <2>3, OneConnTypes
<1>8. QED
    BY <1>3, <1>6, <1>7

LEMMA FinalizeTypes ==
    ASSUME StreamTypes, NEW c \in Conns, Finalize(c)
    PROVE  StreamTypes'
<1> PICK q : q = Closed
    OBVIOUS
<1>1. /\ conn' = [conn EXCEPT ![c] = q]
      /\ UNCHANGED <<row, creator, client, wire, drops, faults, broadcasts>>
    BY DEF Finalize
<1>2. QED
    BY <1>1, ClosedOK, OneConnTypes, ClientStays DEF StreamTypes, RestOK

LEMMA ClientTypes ==
    ASSUME StreamTypes, Receive \/ Drop
    PROVE  StreamTypes'
<1>1. UNCHANGED <<row, creator, conn, faults, broadcasts>>
    BY DEF Receive, Drop
<1>2. ClientOK' /\ drops' \in 0..MaxDrops
    <2>1. CASE Receive
        <3> PICK n : n = Head(wire)
            OBVIOUS
        <3>1. wire \in Seq(Rows) /\ wire # <<>>
            BY <2>1 DEF Receive, StreamTypes, ClientOK
        <3>2. n \in Rows /\ Tail(wire) \in Seq(Rows)
            BY <3>1
        <3>3. /\ client' = [client EXCEPT !.lastId = n, !.got = client.got \cup {n}]
              /\ wire' = Tail(wire) /\ UNCHANGED drops
            BY <2>1 DEF Receive
        <3>4. n \in 0..MaxRows
            BY <3>2, StreamAssumption DEF Rows
        <3>5. QED
            BY <3>2, <3>3, <3>4 DEF StreamTypes, ClientOK, RestOK
    <2>2. CASE Drop
        <3>1. drops' \in 0..MaxDrops /\ wire' \in Seq(Rows)
            BY <2>2, StreamAssumption DEF Drop, StreamTypes, RestOK
        <3>2. client' = [client EXCEPT !.current = None]
            BY <2>2 DEF Drop
        <3>3. QED
            BY <3>1, <3>2 DEF StreamTypes, ClientOK
    <2>3. QED
        BY <2>1, <2>2
<1>3. ConnsOK'
    BY <1>1, ConnsStay DEF StreamTypes, Pushed
<1>4. QED
    BY <1>1, <1>2, <1>3, OthersKeep, ApartStay DEF StreamTypes, RestOK

LEMMA StreamTypesNext == StreamTypes /\ [Next]_vars => StreamTypes'
<1> SUFFICES ASSUME StreamTypes, [Next]_vars PROVE StreamTypes'
    OBVIOUS
<1>1. CASE UNCHANGED vars
    <2>1. UNCHANGED <<row, creator, conn, client, wire, drops, faults, broadcasts>>
        BY <1>1 DEF vars
    <2>2. ConnsOK'
        BY <2>1, ConnsStay DEF StreamTypes, Pushed
    <2>3. QED
        BY <2>1, <2>2, OthersKeep, ApartStay, ClientStays DEF StreamTypes, RestOK
<1>2. ASSUME NEW r \in Creators, NEW i \in Instances, NEW k \in Keys, Create(r, i, k)
      PROVE  StreamTypes'
    BY <1>2, CreateTypes
<1>3. ASSUME NEW r \in Creators, Insert(r) \/ Push(r) PROVE StreamTypes'
    BY <1>3, InsertTypes, PushTypes
<1>4. ASSUME NEW c \in Conns, NEW i \in Instances, Connect(c, i) PROVE StreamTypes'
    BY <1>4, ConnectTypes
<1>5. ASSUME NEW c \in Conns, ConnStep(c) \/ PollFails(c) PROVE StreamTypes'
    BY <1>5, StartPollTypes, ReadPageTypes, EmitPageTypes, PollFailsTypes,
       FinalizeTypes
    DEF ConnStep
<1>6. CASE Receive \/ Drop
    BY <1>6, ClientTypes
<1>7. QED
    BY <1>1, <1>2, <1>3, <1>4, <1>5, <1>6 DEF Next

\* Rows are pushed and polled over connections that forget what they have sent, break and are
\* resumed: a row goes over one connection twice at most (its push and its place in the poll),
\* a connection remembers no more than its limit, and what the client has are rows that may be.
THEOREM StreamTyped == Spec => []TypeOK
<1>1. QED
    BY StreamTypesInit, StreamTypesNext, StreamTypesImply, PTL DEF Spec

(***************************************************************************)
(* The cursor passes nothing that is not brought.                           *)
(***************************************************************************)

\* What is remembered has been sent, and what is sent stays sent.
Recalls(q) == \A n \in q.seen : q.sent[n] > 0
Brings(q, e, S) ==
    /\ Recalls(e)
    /\ \A m \in Rows : e.sent[m] >= q.sent[m]
    /\ \A n \in S : e.sent[n] > 0

LEMMA EmitBrings ==
    ASSUME NEW q \in ConnShape, Recalls(q), NEW n \in Rows
    PROVE  Brings(q, Emit(q, n), {n})
<1>1. CASE n \in q.seen
    BY <1>1 DEF Emit, Brings, Recalls, ConnShape
<1>2. CASE n \notin q.seen
    <2> DEFINE kept == IF Cardinality(q.seen) >= SeenLimit THEN {} ELSE q.seen
               e == [q EXCEPT !.seen = kept \cup {n}, !.sent = [q.sent EXCEPT ![n] = q.sent[n] + 1]]
    <2>1. Emit(q, n) = e
        BY <1>2 DEF Emit, ConnShape
    <2>2. kept \in SUBSET q.seen
        OBVIOUS
    <2> HIDE DEF kept
    <2>3. /\ e.seen = kept \cup {n}
          /\ \A m \in Rows : e.sent[m] = IF m = n THEN q.sent[n] + 1 ELSE q.sent[m]
          /\ \A m \in Rows : q.sent[m] \in Nat
          /\ q.seen \in SUBSET Rows
        BY DEF ConnShape
    <2> HIDE DEF e
    <2>4. Brings(q, e, {n})
        BY <2>2, <2>3 DEF Brings, Recalls
    <2>5. QED
        BY <2>1, <2>4
<1>3. QED
    BY <1>1, <1>2

LEMMA Growing ==
    \A x, y, z \in Nat : x >= y /\ y >= z => x >= z /\ (x > 0 \/ y > 0 => x > 0)
OBVIOUS

LEMMA EmitAllBrings ==
    ASSUME NEW q \in ConnShape, Remembers(q), Recalls(q), NEW S \in SUBSET Rows
    PROVE  Brings(q, EmitAll(q, S), S)
<1> PICK rows : rows = Ascending(S)
    OBVIOUS
<1> PICK k : k = Len(rows)
    OBVIOUS
<1>1. PICK f : Sending(f, q, rows, k) /\ EmitAll(q, S) = f[k]
    BY EmitAllIsSending
<1>2. /\ rows \in Seq(S) /\ k \in Nat /\ \A i \in 1..k : rows[i] \in S
      /\ \A n \in S : \E i \in 1..k : rows[i] = n
    BY AscendingType
<1> DEFINE First(i) == {rows[j] : j \in 1..i}
           Good(i) == f[i] \in ConnShape /\ Remembers(f[i]) /\ Brings(q, f[i], First(i))
           Bad == {i \in 0..k : ~Good(i)}
<1>3. Bad = {}
    <2> SUFFICES ASSUME Bad # {} PROVE FALSE
        OBVIOUS
    <2>1. PICK i \in Bad : \A j \in Bad : i <= j
        <3>1. Bad \in SUBSET Nat
            OBVIOUS
        <3> HIDE DEF Bad
        <3>2. QED
            BY <3>1, LeastOf
    <2>2. i \in 0..k /\ ~Good(i)
        BY <2>1
    <2>3. i # 0
        <3>1. f[0] = q
            BY <1>1, <1>2 DEF Sending
        <3>2. \A m \in Rows : q.sent[m] \in Nat
            BY DEF ConnShape
        <3>3. First(0) = {}
            OBVIOUS
        <3> HIDE DEF First
        <3>4. Brings(q, q, First(0))
            BY <3>2, <3>3 DEF Brings
        <3>5. QED
            BY <2>2, <3>1, <3>4
    <2> PICK p : p = f[i - 1]
        OBVIOUS
    <2> PICK n : n = rows[i]
        OBVIOUS
    <2>4. i - 1 \in 0..k /\ i - 1 \notin Bad /\ i \in 1..k
        <3> HIDE DEF Bad
        <3>1. i - 1 \in 0..k /\ i \in 1..k /\ ~(i <= i - 1)
            BY <1>2, <2>2, <2>3
        <3>2. QED
            BY <2>1, <3>1
    <2>5. p \in ConnShape /\ Remembers(p) /\ Brings(q, p, First(i - 1))
        BY <2>4
    <2>6. f[i] = Emit(p, n) /\ n \in Rows
        <3>1. f[i] = IF i = 0 THEN q ELSE Emit(f[i - 1], rows[i])
            BY <1>1, <2>2 DEF Sending
        <3>2. QED
            BY <1>2, <2>3, <2>4, <3>1
    <2>7. SendsOnce(p, f[i], {n}) /\ Brings(p, f[i], {n})
        BY <2>5, <2>6, EmitSends, EmitBrings DEF Brings
    <2>8. \A m \in First(i) : m = n \/ m \in First(i - 1)
        <3>1. \A j \in 1..i : j = i \/ j \in 1..(i - 1)
            BY <2>2
        <3>2. QED
            BY <3>1
    <2>9. First(i - 1) \subseteq Rows
        BY <1>2, <2>4
    <2> HIDE DEF First
    <2>10. ASSUME NEW m \in Rows
           PROVE  f[i].sent[m] >= q.sent[m] /\ (m \in First(i) => f[i].sent[m] > 0)
        <3>1. f[i].sent[m] >= p.sent[m] /\ p.sent[m] >= q.sent[m]
            BY <2>5, <2>7 DEF Brings
        <3>2. p.sent[m] \in Nat /\ q.sent[m] \in Nat /\ f[i].sent[m] \in Nat
            BY <2>5, <2>7 DEF SendsOnce, ConnShape
        <3>3. m \in First(i) => f[i].sent[m] > 0 \/ p.sent[m] > 0
            BY <2>5, <2>7, <2>8 DEF Brings
        <3>4. QED
            BY <3>1, <3>2, <3>3, Growing
    <2>11. First(i) \subseteq Rows
        BY <2>6, <2>8, <2>9
    <2>12. Brings(q, f[i], First(i))
        BY <2>7, <2>10, <2>11 DEF Brings
    <2>13. QED
        BY <2>2, <2>7, <2>12 DEF SendsOnce
<1>4. Brings(q, f[k], First(k))
    <2>1. k \in 0..k
        BY <1>2
    <2>2. QED
        BY <1>3, <2>1
<1>5. First(k) = S
    BY <1>2
<1>6. QED
    BY <1>1, <1>4, <1>5

\* A sequence without repetition of the members of a set of one.
LEMMA OneOfOne ==
    ASSUME NEW S, NEW n, \A m \in S : m = n, NEW a \in Seq(S),
           \A i, j \in 1..Len(a) : a[i] = a[j] => i = j,
           \E i \in 1..Len(a) : a[i] = n
    PROVE  Len(a) = 1 /\ a[1] = n
<1> PICK k \in Nat : k = Len(a)
    OBVIOUS
<1>1. \A i \in 1..k : a[i] \in S
    OBVIOUS
<1>2. \A i \in 1..k : a[i] = n
    BY <1>1
<1>3. \A i \in 1..k : i = 1
    <2>1. ASSUME NEW i \in 1..k PROVE i = 1
        <3>1. 1 \in 1..k
            OBVIOUS
        <3>2. a[i] = a[1]
            BY <1>2, <3>1
        <3>3. QED
            BY <3>1, <3>2
    <2>2. QED
        BY <2>1
<1>4. 1 \in 1..k /\ k \in 1..k
    <2>1. PICK i \in 1..k : TRUE
        OBVIOUS
    <2>2. QED
        BY <2>1
<1>5. QED
    BY <1>2, <1>3, <1>4

\* The operators of the stream send one row as they send a page of one.
LEMMA EmitOne ==
    ASSUME NEW q, NEW n \in Rows
    PROVE  EmitAll(q, {n}) = Emit(q, n)
<1> DEFINE S == {n}
<1>1. S \in SUBSET Rows /\ n \in S /\ \A m \in S : m = n
    OBVIOUS
<1> HIDE DEF S
<1>2. /\ Ascending(S) \in Seq(S)
      /\ \A i, j \in 1..Len(Ascending(S)) : Ascending(S)[i] = Ascending(S)[j] => i = j
      /\ \E i \in 1..Len(Ascending(S)) : Ascending(S)[i] = n
    BY <1>1, AscendingType
<1>3. PICK a \in Seq(S) : a = Ascending(S)
    BY <1>2
<1>4. Len(a) = 1 /\ a[1] = n
    <2>1. /\ \A i, j \in 1..Len(a) : a[i] = a[j] => i = j
          /\ \E i \in 1..Len(a) : a[i] = n
        BY <1>2, <1>3
    <2>2. QED
        BY <1>1, <2>1, OneOfOne
<1>5. PICK f : Sending(f, q, a, 1) /\ EmitAll(q, S) = f[1]
    BY <1>1, <1>3, <1>4, EmitAllIsSending
<1>6. f[0] = q /\ f[1] = Emit(f[0], a[1])
    BY <1>5 DEF Sending
<1>7. QED
    BY <1>4, <1>5, <1>6 DEF S

\* What connection state q knows of the rows of T: those between where it started and its
\* cursor have been sent, and a page that is being read leaves out none up to its last.
Faithful(q, T) ==
    /\ Recalls(q)
    /\ q.poll \in {"ready", "reading"} =>
          /\ q.cursor \in T \cup {0}
          /\ \A n \in T : q.start < n /\ n <= q.cursor => q.sent[n] > 0
    /\ q.poll = "reading" =>
          \A b \in q.batch, n \in T : q.cursor < n /\ n <= b => n \in q.batch

Brought(n) == n \in client.got \cup {wire[i] : i \in DOMAIN wire}

AllBrought ==
    client.current # None =>
        \A n \in Rows : conn[client.current].sent[n] > 0 => Brought(n)

SkipInv ==
    /\ StreamTypes /\ StreamInv
    /\ \A c \in Conns : Faithful(conn[c], Stored)
    /\ AllBrought

LEMMA ClosedFaithful == \A T : Faithful(Closed, T)
BY DEF Faithful, Recalls, Closed

LEMMA SkipInvInit == Init => SkipInv
<1> SUFFICES ASSUME Init PROVE SkipInv
    OBVIOUS
<1>1. StreamTypes /\ StreamInv
    BY StreamTypesInit, StreamInit
<1>2. \A c \in Conns : conn[c] = Closed
    BY DEF Init
<1>3. AllBrought
    BY DEF Init, AllBrought
<1>4. QED
    BY <1>1, <1>2, <1>3, ClosedFaithful DEF SkipInv

LEMMA SkipInvImplies == SkipInv => SkipsNothing
<1> SUFFICES ASSUME SkipInv, client.current # None, Polling(client.current),
                    NEW n \in Stored, conn[client.current].start < n,
                    n <= conn[client.current].cursor
             PROVE  Brought(n)
    BY DEF SkipsNothing, Brought
<1>1. client.current \in Conns
    BY DEF SkipInv, StreamInv, ClientKnows
<1>2. conn[client.current].sent[n] > 0
    BY <1>1 DEF SkipInv, Faithful, Polling
<1>3. QED
    BY <1>2, StoredIsRows DEF SkipInv, AllBrought

\* The places of the members of one sequence in another that it is put behind or before.
Behind(s, t, i) == Len(s) + i \in DOMAIN (s \o t) /\ (s \o t)[Len(s) + i] = t[i]
InFront(s, t, i) == i \in DOMAIN (s \o t) /\ (s \o t)[i] = s[i]

LEMMA BehindIt ==
    ASSUME NEW s \in Seq(Rows), NEW t \in Seq(Rows), NEW i \in 1..Len(t)
    PROVE  Behind(s, t, i)
BY DEF Behind

LEMMA InFrontOfIt ==
    ASSUME NEW s \in Seq(Rows), NEW t \in Seq(Rows), NEW i \in DOMAIN s
    PROVE  InFront(s, t, i)
BY DEF InFront

\* A connection that has not changed what it polls, and what it has sent it still knows.
LEMMA FaithfulStays ==
    ASSUME NEW q, NEW e, NEW T, Faithful(q, T),
           e.poll = q.poll, e.cursor = q.cursor, e.start = q.start, e.batch = q.batch,
           e.seen = q.seen, e.sent = q.sent
    PROVE  Faithful(e, T)
BY DEF Faithful, Recalls

LEMMA FaithfulSends ==
    ASSUME NEW q \in ConnShape, NEW e, NEW T \in SUBSET Rows, NEW S,
           Faithful(q, T), SendsOnce(q, e, S), Brings(q, e, S)
    PROVE  Faithful(e, T)
<1>1. /\ e.poll = q.poll /\ e.cursor = q.cursor /\ e.start = q.start /\ e.batch = q.batch
      /\ Recalls(e) /\ \A m \in Rows : e.sent[m] >= q.sent[m]
      /\ \A m \in Rows : e.sent[m] \in Nat /\ q.sent[m] \in Nat
    BY DEF SendsOnce, Brings, ConnShape
<1>2. \A m \in Rows : q.sent[m] > 0 => e.sent[m] > 0
    BY <1>1
<1>3. QED
    BY <1>1, <1>2 DEF Faithful

\* A row behind all the others is behind every cursor and every page.
LEMMA FaithfulGrows ==
    ASSUME NEW q \in ConnShape, NEW T \in SUBSET Rows, Faithful(q, T), q.batch \in SUBSET T,
           NEW n \in Rows, \A m \in T \cup {0} : n > m
    PROVE  Faithful(q, T \cup {n})
<1>1. \A m \in T \cup {0} : m \in Nat /\ n \in Nat
    BY StreamAssumption DEF Rows
<1>2. \A m \in T \cup {0} : ~(n <= m)
    BY <1>1
<1>3. QED
    BY <1>2 DEF Faithful

\* What was brought stays brought, as long as the connection lasts.
LEMMA BroughtStays ==
    ASSUME SkipInv, UNCHANGED client.current, \A n \in Rows : Brought(n) => Brought(n)',
           client.current # None => conn'[client.current].sent = conn[client.current].sent
    PROVE  AllBrought'
BY DEF SkipInv, AllBrought

\* What is sent of a page, or of one row, is on its way.
LEMMA BroughtSent ==
    ASSUME SkipInv, UNCHANGED client, NEW c \in Conns, client.current = c,
           NEW S \in SUBSET Rows, wire' = wire \o SentOf(conn[c], S),
           conn'[c].sent = EmitAll(conn[c], S).sent
    PROVE  AllBrought'
<1> PICK q : q = conn[c]
    OBVIOUS
<1> PICK e : e = EmitAll(q, S)
    OBVIOUS
<1> PICK more : more = SentOf(q, S)
    OBVIOUS
<1>1. q \in ConnShape /\ Remembers(q) /\ Recalls(q)
    BY DEF SkipInv, StreamTypes, ConnsOK, ConnOK, Faithful
<1>2. SendsOnce(q, e, S)
    BY <1>1, EmitAllSends
<1>3. ASSUME NEW n \in Rows, e.sent[n] > 0 PROVE Brought(n)'
    <2>1. wire \in Seq(Rows)
        BY DEF SkipInv, StreamTypes, ClientOK
    <2> DEFINE U == {m \in S : e.sent[m] > q.sent[m]}
    <2>2. more = Ascending(U) /\ U \in SUBSET Rows
        BY DEF SentOf
    <2> HIDE DEF U
    <2>3. more \in Seq(U) /\ \A m \in U : \E i \in 1..Len(more) : more[i] = m
        <3>1. /\ Ascending(U) \in Seq(U)
              /\ \A m \in U : \E i \in 1..Len(Ascending(U)) : Ascending(U)[i] = m
            BY <2>2, AscendingType
        <3>2. QED
            BY <2>2, <3>1
    <2>4. more \in Seq(Rows)
        BY <2>2, <2>3
    <2>5. CASE n \in U
        <3>1. PICK i \in 1..Len(more) : more[i] = n
            BY <2>3, <2>5
        <3>2. Behind(wire, more, i)
            BY <2>1, <2>4, BehindIt
        <3>3. QED
            BY <3>1, <3>2 DEF Brought, Behind
    <2>6. CASE n \notin U
        <3>1. e.sent[n] <= q.sent[n] + One(n \in S) /\ e.sent[n] \in Nat /\ q.sent[n] \in Nat
            BY <1>1, <1>2 DEF SendsOnce, ConnShape
        <3>2. e.sent[n] <= q.sent[n]
            BY <2>6, <3>1 DEF U, One
        <3>3. q.sent[n] > 0
            BY <1>3, <3>1, <3>2
        <3>4. Brought(n)
            BY <3>3, StreamAssumption DEF SkipInv, AllBrought
        <3>5. ASSUME NEW i \in DOMAIN wire PROVE InFront(wire, more, i)
            BY <2>1, <2>4, InFrontOfIt
        <3>6. QED
            BY <3>4, <3>5 DEF Brought, InFront
    <2>7. QED
        BY <2>5, <2>6
<1>4. conn'[c].sent = e.sent
    OBVIOUS
<1>5. QED
    BY <1>3, <1>4 DEF AllBrought

LEMMA InsertFaithful ==
    ASSUME InOrder, SkipInv, NEW r \in Creators, Insert(r)
    PROVE  (\A c \in Conns : Faithful(conn[c], Stored)') /\ AllBrought'
<1>1. UNCHANGED <<conn, client, wire>>
    BY DEF Insert
<1>2. AllBrought'
    BY <1>1, BroughtStays DEF Brought
<1>3. CASE UNCHANGED row
    BY <1>1, <1>2, <1>3, SameRows DEF SkipInv
<1>4. ASSUME NEW n \in Rows \ Stored, n = Highest(Stored) + 1,
             row' = [row EXCEPT ![n] = creator[r].key]
      PROVE  \A c \in Conns : Faithful(conn[c], Stored)'
    <2>1. creator[r] \in Inserting
        BY DEF Insert, SkipInv, StreamTypes, IInv, Typed, Idle, Inserting, Pushing
    <2>2. creator[r].key # None
        BY <2>1, StreamAssumption DEF Inserting
    <2>3. Stored' = Stored \cup {n}
        BY <1>4, <2>2 DEF Stored, SkipInv, StreamTypes, IInv, Typed
    <2>4. \A m \in Stored \cup {0} : n > m
        <3>1. MaxRows \in Nat /\ n \in Nat /\ n >= 1 /\ \A m \in Stored : m \in Nat
            BY StreamAssumption DEF Rows, Stored
        <3>2. \A m \in Stored : m <= Highest(Stored) /\ Highest(Stored) \in 0..MaxRows
            BY StoredIsRows, HighestBelow
        <3>3. \A m \in Stored : n > m
            BY <1>4, <3>1, <3>2
        <3>4. QED
            BY <3>1, <3>3
    <2>5. ASSUME NEW c \in Conns PROVE Faithful(conn[c], Stored \cup {n})
        <3>1. conn[c] \in ConnShape /\ Faithful(conn[c], Stored) /\ conn[c].batch \in SUBSET Stored
            BY DEF SkipInv, StreamTypes, ConnsOK, ConnOK, StreamInv, ConnsKnow, ConnKnows
        <3>2. QED
            BY <2>4, <3>1, StoredIsRows, FaithfulGrows
    <2>6. \A c \in Conns : Faithful(conn'[c], Stored')
        BY <1>1, <2>3, <2>5
    <2>7. QED
        BY <2>6 DEF Faithful, Recalls
<1>5. QED
    BY <1>2, <1>3, <1>4 DEF Insert

LEMMA PushFaithful ==
    ASSUME SkipInv, NEW r \in Creators, Push(r)
    PROVE  (\A c \in Conns : Faithful(conn[c], Stored)') /\ AllBrought'
<1> PICK n : n = creator[r].row
    OBVIOUS
<1> DEFINE told == {c \in Conns : Hears(c, creator[r].inst)}
<1>1. /\ conn' = [c \in Conns |-> IF c \in told THEN Emit(conn[c], n) ELSE conn[c]]
      /\ wire' = IF client.current \in told
                 THEN wire \o SentOf(conn[client.current], {n}) ELSE wire
      /\ UNCHANGED <<row, client>>
    BY DEF Push
<1>2. n \in Stored /\ n \in Rows
    BY StoredIsRows DEF Push, SkipInv, StreamInv, PushersKnow
<1> HIDE DEF told
<1>3. ASSUME NEW c \in Conns PROVE Faithful(conn'[c], Stored)
    <2>1. conn[c] \in ConnShape /\ Remembers(conn[c]) /\ Faithful(conn[c], Stored)
        BY DEF SkipInv, StreamTypes, ConnsOK, ConnOK
    <2>2. CASE c \in told
        <3>1. /\ SendsOnce(conn[c], Emit(conn[c], n), {n})
              /\ Brings(conn[c], Emit(conn[c], n), {n})
            BY <1>2, <2>1, EmitSends, EmitBrings DEF Faithful
        <3>2. Faithful(Emit(conn[c], n), Stored)
            BY <2>1, <3>1, StoredIsRows, FaithfulSends
        <3>3. QED
            BY <1>1, <2>2, <3>2
    <2>3. CASE c \notin told
        BY <1>1, <2>1, <2>3
    <2>4. QED
        BY <2>2, <2>3
<1>4. CASE client.current \in told
    <2> PICK c \in Conns : c = client.current
        BY <1>4 DEF told
    <2>1. conn'[c] = EmitAll(conn[c], {n})
        BY <1>1, <1>2, <1>4, EmitOne
    <2>2. {n} \in SUBSET Rows
        BY <1>2
    <2>3. wire' = wire \o SentOf(conn[c], {n})
        BY <1>1, <1>4
    <2>4. QED
        BY <1>1, <1>3, <2>1, <2>2, <2>3, BroughtSent, SameRows
<1>5. CASE client.current \notin told
    <2>1. client.current # None => conn'[client.current] = conn[client.current]
        BY <1>1, <1>5 DEF SkipInv, StreamInv, ClientKnows
    <2>2. \A m \in Rows : Brought(m) => Brought(m)'
        BY <1>1, <1>5 DEF Brought
    <2>3. AllBrought'
        BY <1>1, <2>1, <2>2, BroughtStays
    <2>4. QED
        BY <1>1, <1>3, <2>3, SameRows
<1>6. QED
    BY <1>4, <1>5

LEMMA ConnectFaithful ==
    ASSUME SkipInv, NEW c \in Conns, NEW i \in Instances, Connect(c, i)
    PROVE  (\A d \in Conns : Faithful(conn[d], Stored)') /\ AllBrought'
<1> PICK q : q = [Closed EXCEPT !.phase = "open", !.inst = i, !.header = client.lastId]
    OBVIOUS
<1>1. conn' = [conn EXCEPT ![c] = q] /\ client' = [client EXCEPT !.current = c] /\ UNCHANGED row
    BY DEF Connect
<1>2. \A d \in Conns : conn'[d] = IF d = c THEN q ELSE conn[d]
    BY <1>1 DEF SkipInv, StreamInv, ConnsKnow
<1>3. q.poll = "init" /\ q.seen = {} /\ \A n \in Rows : q.sent[n] = 0
    BY DEF Closed
<1>4. \A d \in Conns : Faithful(conn'[d], Stored)
    BY <1>2, <1>3 DEF SkipInv, Faithful, Recalls
<1>5. client'.current = c
    BY <1>1 DEF SkipInv, StreamInv, ClientKnows
<1>6. AllBrought'
    <2>1. conn'[c] = q
        BY <1>2
    <2>2. \A n \in Rows : ~(q.sent[n] > 0)
        BY <1>3
    <2>3. \A n \in Rows : ~(conn'[client'.current].sent[n] > 0)
        BY <1>5, <2>1, <2>2
    <2>4. QED
        BY <2>3 DEF AllBrought
<1>7. QED
    BY <1>1, <1>4, <1>6, SameRows

\* A step of one connection that sends nothing.
LEMMA OneFaithful ==
    ASSUME SkipInv, NEW c \in Conns, NEW q, Faithful(q, Stored), q.sent = conn[c].sent,
           conn' = [conn EXCEPT ![c] = q], UNCHANGED <<row, client, wire>>
    PROVE  (\A d \in Conns : Faithful(conn[d], Stored)') /\ AllBrought'
<1>1. \A d \in Conns : conn'[d] = IF d = c THEN q ELSE conn[d]
    BY DEF SkipInv, StreamInv, ConnsKnow
<1>2. \A d \in Conns : Faithful(conn'[d], Stored)
    BY <1>1 DEF SkipInv
<1>3. AllBrought'
    <2>1. client.current # None => conn'[client.current].sent = conn[client.current].sent
        BY <1>1 DEF SkipInv, StreamInv, ClientKnows
    <2>2. \A n \in Rows : Brought(n) => Brought(n)'
        BY DEF Brought
    <2>3. QED
        BY <2>1, <2>2, BroughtStays
<1>4. QED
    BY <1>2, <1>3, SameRows

LEMMA StartPollFaithful ==
    ASSUME SkipInv, NEW c \in Conns, StartPoll(c)
    PROVE  (\A d \in Conns : Faithful(conn[d], Stored)') /\ AllBrought'
<1> PICK p : p = conn[c]
    OBVIOUS
<1> PICK from : from = IF p.header # 0 THEN p.header ELSE Highest(Stored)
    OBVIOUS
<1> PICK q : q = [p EXCEPT !.poll = "ready", !.cursor = from, !.start = from]
    OBVIOUS
<1>1. p \in ConnShape /\ p.header \in Stored \cup {0} /\ Faithful(p, Stored)
    BY DEF SkipInv, StreamTypes, ConnsOK, ConnOK, StreamInv, ConnsKnow, ConnKnows
<1>2. conn' = [conn EXCEPT ![c] = q] /\ UNCHANGED <<row, client, wire>>
    BY DEF StartPoll, SkipInv, StreamInv, ConnsKnow
<1>3. from \in Stored \cup {0}
    <2>1. Highest(Stored) \in Stored \cup {0}
        BY StoredIsRows, HighestIsGreatest DEF Highest
    <2>2. QED
        BY <1>1, <2>1
<1>4. /\ q.poll = "ready" /\ q.cursor = from /\ q.start = from
      /\ q.seen = p.seen /\ q.sent = p.sent
    BY <1>1 DEF ConnShape
<1>5. \A n \in Stored : ~(from < n /\ n <= from)
    BY <1>3, StoredIsRows, StreamAssumption DEF Rows
<1>6. Faithful(q, Stored)
    BY <1>1, <1>3, <1>4, <1>5 DEF Faithful, Recalls
<1>7. QED
    BY <1>2, <1>4, <1>6, OneFaithful

\* A page is read up to its last row without a gap.
LEMMA ReadPageFaithful ==
    ASSUME SkipInv, NEW c \in Conns, ReadPage(c)
    PROVE  (\A d \in Conns : Faithful(conn[d], Stored)') /\ AllBrought'
<1> PICK p : p = conn[c]
    OBVIOUS
<1> PICK page : page = Page(c)
    OBVIOUS
<1> PICK q : q = [p EXCEPT !.poll = "reading", !.batch = page]
    OBVIOUS
<1>1. p \in ConnShape /\ Faithful(p, Stored) /\ p.poll = "ready"
    BY DEF ReadPage, SkipInv, StreamTypes, ConnsOK, ConnOK
<1>2. conn' = [conn EXCEPT ![c] = q] /\ UNCHANGED <<row, client, wire>>
    BY DEF ReadPage, SkipInv, StreamInv, ConnsKnow
<1>3. /\ q.poll = "reading" /\ q.batch = page /\ q.cursor = p.cursor /\ q.start = p.start
      /\ q.seen = p.seen /\ q.sent = p.sent
    BY <1>1 DEF ConnShape
<1>4. ASSUME NEW b \in page, NEW n \in Stored, p.cursor < n, n <= b PROVE n \in page
    <2> DEFINE after == {m \in Stored : m > p.cursor}
               Below(m) == {o \in after : o < m}
    <2>1. page = {m \in after : Cardinality(Below(m)) < PollLimit}
        BY DEF Page
    <2>2. p.cursor \in Nat /\ \A m \in Stored : m \in Nat
        BY <1>1, StreamAssumption DEF ConnShape, Stored, Rows
    <2>3. n \in after /\ b \in after
        BY <1>4, <2>1, <2>2
    <2>4. Below(n) \in SUBSET Below(b) /\ Below(b) \in SUBSET Rows
        BY <1>4, <2>2, <2>3, StoredIsRows
    <2> HIDE DEF Below, after
    <2>5. IsFiniteSet(Below(b)) /\ IsFiniteSet(Below(n))
        BY <2>4, RowsFinite
    <2>6. Cardinality(Below(n)) <= Cardinality(Below(b))
        BY <2>4, <2>5, FS_Subset
    <2>7. /\ Cardinality(Below(n)) \in Nat /\ Cardinality(Below(b)) \in Nat
          /\ PollLimit \in Nat
        BY <2>5, FS_CardinalityType, StreamAssumption
    <2>8. Cardinality(Below(b)) < PollLimit
        BY <2>1
    <2>9. Cardinality(Below(n)) < PollLimit
        BY <2>6, <2>7, <2>8
    <2>10. QED
        BY <2>1, <2>3, <2>9
<1>5. Faithful(q, Stored)
    BY <1>1, <1>3, <1>4 DEF Faithful, Recalls
<1>6. QED
    BY <1>2, <1>3, <1>5, OneFaithful

\* The cursor moves to the last row of the page, and every row on the way is sent.
LEMMA EmitPageFaithful ==
    ASSUME SkipInv, NEW c \in Conns, EmitPage(c)
    PROVE  (\A d \in Conns : Faithful(conn[d], Stored)') /\ AllBrought'
<1> PICK p : p = conn[c]
    OBVIOUS
<1> PICK page : page = p.batch
    OBVIOUS
<1> PICK e : e = EmitAll(p, page)
    OBVIOUS
<1> PICK top : top = Highest(page)
    OBVIOUS
<1> PICK q : q = [p EXCEPT !.poll = "ready", !.batch = {}, !.cursor = top,
                           !.seen = e.seen, !.sent = e.sent]
    OBVIOUS
<1>1. /\ p \in ConnShape /\ Remembers(p) /\ BatchAhead(p) /\ Faithful(p, Stored)
      /\ p.poll = "reading" /\ page \in SUBSET Stored
    BY DEF EmitPage, SkipInv, StreamTypes, ConnsOK, ConnOK, StreamInv, ConnsKnow, ConnKnows
<1>2. /\ conn' = [conn EXCEPT ![c] = q] /\ UNCHANGED <<row, client>>
      /\ wire' = IF client.current = c THEN wire \o SentOf(p, page) ELSE wire
    BY DEF EmitPage
<1>3. page \in SUBSET Rows /\ page # {}
    BY <1>1, StoredIsRows DEF BatchAhead
<1>4. top \in page
    BY <1>3, HighestIsGreatest
<1>5. SendsOnce(p, e, page) /\ Brings(p, e, page)
    BY <1>1, <1>3, EmitAllSends, EmitAllBrings DEF Faithful
<1>6. /\ q.poll = "ready" /\ q.cursor = top /\ q.start = p.start
      /\ q.seen = e.seen /\ q.sent = e.sent
    BY <1>1 DEF ConnShape
<1>7. ASSUME NEW n \in Stored, p.start < n, n <= top PROVE e.sent[n] > 0
    <2>1. n \in Nat /\ n \in Rows /\ p.cursor \in Nat
        BY <1>1, StoredIsRows, StreamAssumption DEF Rows, ConnShape
    <2>2. CASE n <= p.cursor
        <3>1. p.sent[n] > 0
            BY <1>1, <1>7, <2>2 DEF Faithful
        <3>2. e.sent[n] >= p.sent[n] /\ e.sent[n] \in Nat /\ p.sent[n] \in Nat
            BY <1>1, <1>5, <2>1 DEF Brings, SendsOnce, ConnShape
        <3>3. QED
            BY <3>1, <3>2
    <2>3. CASE p.cursor < n
        <3>1. n \in page
            BY <1>1, <1>4, <1>7, <2>3 DEF Faithful
        <3>2. QED
            BY <1>5, <3>1 DEF Brings
    <2>4. QED
        BY <2>1, <2>2, <2>3
<1>8. Recalls(q) /\ q.cursor \in Stored
    BY <1>1, <1>4, <1>5, <1>6 DEF Brings, Recalls
<1>9. \A n \in Stored : q.start < n /\ n <= q.cursor => q.sent[n] > 0
    BY <1>6, <1>7
<1>10. Faithful(q, Stored)
    BY <1>6, <1>8, <1>9 DEF Faithful
<1>11. \A d \in Conns : conn'[d] = IF d = c THEN q ELSE conn[d]
    BY <1>2 DEF SkipInv, StreamInv, ConnsKnow
<1>12. \A d \in Conns : Faithful(conn'[d], Stored)
    BY <1>10, <1>11 DEF SkipInv
<1>13. CASE client.current = c
    <2>1. wire' = wire \o SentOf(conn[c], page) /\ conn'[c].sent = EmitAll(conn[c], page).sent
        BY <1>2, <1>6, <1>11, <1>13
    <2>2. AllBrought'
        BY <1>2, <1>3, <1>13, <2>1, BroughtSent
    <2>3. QED
        BY <1>2, <1>12, <2>2, SameRows
<1>14. CASE client.current # c
    <2>1. client.current # None => conn'[client.current] = conn[client.current]
        BY <1>11, <1>14 DEF SkipInv, StreamInv, ClientKnows
    <2>2. \A m \in Rows : Brought(m) => Brought(m)'
        BY <1>2, <1>14 DEF Brought
    <2>3. AllBrought'
        BY <1>2, <2>1, <2>2, BroughtStays
    <2>4. QED
        BY <1>2, <1>12, <2>3, SameRows
<1>15. QED
    BY <1>13, <1>14

LEMMA PollFailsFaithful ==
    ASSUME SkipInv, NEW c \in Conns, PollFails(c)
    PROVE  (\A d \in Conns : Faithful(conn[d], Stored)') /\ AllBrought'
<1> PICK p : p = conn[c]
    OBVIOUS
<1> PICK again : again = [p EXCEPT !.poll = "ready", !.batch = {}]
    OBVIOUS
<1> PICK dead : dead = [p EXCEPT !.poll = "dead"]
    OBVIOUS
<1>1. p \in ConnShape /\ Faithful(p, Stored)
    BY DEF SkipInv, StreamTypes, ConnsOK, ConnOK
<1>2. UNCHANGED <<row, client, wire>>
    BY DEF PollFails
<1>3. CASE p.poll = "reading" /\ conn' = [conn EXCEPT ![c].poll = "ready", ![c].batch = {}]
    <2>1. conn' = [conn EXCEPT ![c] = again]
        BY <1>3 DEF SkipInv, StreamInv, ConnsKnow
    <2>2. /\ again.poll = "ready" /\ again.cursor = p.cursor /\ again.start = p.start
          /\ again.seen = p.seen /\ again.sent = p.sent
        BY <1>1 DEF ConnShape
    <2>3. Faithful(again, Stored)
        BY <1>1, <1>3, <2>2 DEF Faithful, Recalls
    <2>4. QED
        BY <1>2, <2>1, <2>2, <2>3, OneFaithful
<1>4. CASE p.poll = "init" /\ conn' = [conn EXCEPT ![c].poll = "dead"]
    <2>1. conn' = [conn EXCEPT ![c] = dead]
        BY <1>4
    <2>2. dead.poll = "dead" /\ dead.seen = p.seen /\ dead.sent = p.sent
        BY <1>1 DEF ConnShape
    <2>3. Faithful(dead, Stored)
        BY <1>1, <2>2 DEF Faithful, Recalls
    <2>4. QED
        BY <1>2, <2>1, <2>2, <2>3, OneFaithful
<1>5. QED
    BY <1>3, <1>4 DEF PollFails

LEMMA FinalizeFaithful ==
    ASSUME SkipInv, NEW c \in Conns, Finalize(c)
    PROVE  (\A d \in Conns : Faithful(conn[d], Stored)') /\ AllBrought'
<1>1. conn' = [conn EXCEPT ![c] = Closed] /\ UNCHANGED <<row, client, wire>> /\ client.current # c
    BY DEF Finalize
<1>2. ASSUME NEW d \in Conns, d # c
      PROVE  Faithful(conn'[d], Stored) /\ conn'[d].sent = conn[d].sent
    BY <1>1, <1>2 DEF SkipInv, StreamInv, ConnsKnow
<1>3. Faithful(conn'[c], Stored)
    BY <1>1, ClosedFaithful DEF SkipInv, StreamInv, ConnsKnow
<1>4. \A d \in Conns : Faithful(conn'[d], Stored)
    BY <1>2, <1>3
<1>5. AllBrought'
    <2>1. client.current # None => conn'[client.current].sent = conn[client.current].sent
        BY <1>1, <1>2 DEF SkipInv, StreamInv, ClientKnows
    <2>2. \A n \in Rows : Brought(n) => Brought(n)'
        BY <1>1 DEF Brought
    <2>3. QED
        BY <1>1, <2>1, <2>2, BroughtStays
<1>6. QED
    BY <1>1, <1>4, <1>5, SameRows

\* What the client takes from the wire it has; what is lost with a connection is no longer
\* a connection's of the client.
LEMMA ClientFaithful ==
    ASSUME SkipInv, Receive \/ Drop
    PROVE  (\A d \in Conns : Faithful(conn[d], Stored)') /\ AllBrought'
<1>1. UNCHANGED <<row, conn>>
    BY DEF Receive, Drop
<1>2. \A d \in Conns : Faithful(conn[d], Stored)'
    BY <1>1, SameRows DEF SkipInv
<1>3. CASE Drop
    <2>1. client'.current = None
        BY <1>3 DEF Drop, SkipInv, StreamInv, ClientKnows
    <2>2. QED
        BY <1>2, <2>1 DEF AllBrought
<1>4. CASE Receive
    <2> PICK n : n = Head(wire)
        OBVIOUS
    <2>1. wire \in Seq(Rows) /\ wire # <<>> /\ wire' = Tail(wire)
        BY <1>4 DEF Receive, SkipInv, StreamTypes, ClientOK
    <2>2. client'.current = client.current /\ client'.got = client.got \cup {n}
        BY <1>4 DEF Receive, SkipInv, StreamInv, ClientKnows
    <2>3. ASSUME NEW i \in DOMAIN wire
          PROVE  wire[i] = n \/ \E j \in DOMAIN wire' : wire'[j] = wire[i]
        <3>1. CASE i = 1
            BY <2>1, <3>1
        <3>2. CASE i # 1
            <4>1. i - 1 \in DOMAIN wire' /\ wire'[i - 1] = wire[i]
                BY <2>1, <3>2
            <4>2. QED
                BY <4>1
        <3>3. QED
            BY <3>1, <3>2
    <2>4. \A m \in Rows : Brought(m) => Brought(m)'
        BY <2>2, <2>3 DEF Brought
    <2>5. QED
        BY <1>1, <1>2, <2>2, <2>4, BroughtStays
<1>5. QED
    BY <1>3, <1>4

LEMMA SkipInvNext ==
    ASSUME InOrder, SkipInv, [Next]_vars
    PROVE  SkipInv'
<1>1. StreamTypes' /\ StreamInv'
    BY StreamTypesNext, StreamNext DEF SkipInv, StreamTypes
<1>2. (\A d \in Conns : Faithful(conn[d], Stored)') /\ AllBrought'
    <2>1. CASE UNCHANGED <<row, conn, client, wire>>
        <3>1. AllBrought'
            BY <2>1, BroughtStays DEF Brought
        <3>2. QED
            BY <2>1, <3>1, SameRows DEF SkipInv
    <2>2. CASE UNCHANGED vars
        BY <2>1, <2>2 DEF vars
    <2>3. ASSUME NEW r \in Creators, NEW i \in Instances, NEW k \in Keys, Create(r, i, k)
          PROVE  (\A d \in Conns : Faithful(conn[d], Stored)') /\ AllBrought'
        BY <2>1, <2>3 DEF Create
    <2>4. ASSUME NEW r \in Creators, Insert(r) \/ Push(r)
          PROVE  (\A d \in Conns : Faithful(conn[d], Stored)') /\ AllBrought'
        BY <2>4, InsertFaithful, PushFaithful
    <2>5. ASSUME NEW c \in Conns, NEW i \in Instances, Connect(c, i)
          PROVE  (\A d \in Conns : Faithful(conn[d], Stored)') /\ AllBrought'
        BY <2>5, ConnectFaithful
    <2>6. ASSUME NEW c \in Conns, ConnStep(c) \/ PollFails(c)
          PROVE  (\A d \in Conns : Faithful(conn[d], Stored)') /\ AllBrought'
        BY <2>6, StartPollFaithful, ReadPageFaithful, EmitPageFaithful,
           FinalizeFaithful, PollFailsFaithful DEF ConnStep
    <2>7. CASE Receive \/ Drop
        BY <2>7, ClientFaithful
    <2>8. QED
        BY <2>2, <2>3, <2>4, <2>5, <2>6, <2>7 DEF Next
<1>3. QED
    BY <1>1, <1>2 DEF SkipInv

\* Where rows are committed in the order of the cursor, the client has all that its connection
\* is past, or it is under way: rows are pushed out of turn and then remembered, polled a
\* page at a time and forgotten all at once, a read fails, and none is passed over.
THEOREM StreamSkipsNothing ==
    ASSUME InOrder
    PROVE  Spec => []SkipsNothing
<1>1. SkipInv /\ [Next]_vars => SkipInv'
    BY SkipInvNext
<1>2. QED
    BY <1>1, SkipInvInit, SkipInvImplies, PTL DEF Spec
=============================================================================
