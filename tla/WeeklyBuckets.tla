---------------------------- MODULE WeeklyBuckets ----------------------------
(***************************************************************************)
(* The weekly buckets of the dashboard's trend chart: timestamps counted by *)
(* the local week they fall in, in a time zone whose offset changes once.   *)
(* The unit of time is an hour; the local hour 0 is a Monday's midnight.    *)
(*                                                                         *)
(* JavaScript's Date is external: a local time that comes twice means the   *)
(* first one, and one that is skipped is taken by the offset before.        *)
(***************************************************************************)
EXTENDS Integers, FiniteSets

CONSTANTS
    Zones,      \* records: the hour "at" of the change, the offsets "before" and "after"
    Nows,       \* hours at which the chart is drawn
    Timestamps, \* hours at which a feature was completed or a bug resolved
    Weeks,      \* of the chart
    MaxEvents   \* bound: timestamps counted

DAY == 24
WEEK == 7 * DAY

BucketsAssumption ==
    /\ Nows \cup Timestamps \subseteq Nat /\ Weeks \in Nat \ {0} /\ MaxEvents \in Nat
    /\ \A z \in Zones : z.at \in Nat /\ {z.before, z.after} \subseteq 0..DAY
    \* The clocks are not put forward over a midnight.
    /\ \A z \in Zones : \A l \in z.at + z.before .. z.at + z.after - 1 : l % DAY # 0

VARIABLES zone, now, events, buckets

vars == <<zone, now, events, buckets>>

Local(t) == t + (IF t < zone.at THEN zone.before ELSE zone.after)

Instant(l) ==
    IF l - zone.before < zone.at \/ l - zone.after < zone.at THEN l - zone.before ELSE l - zone.after

SetMidnight(t) == Instant((Local(t) \div DAY) * DAY)

AddDays(t, n) == Instant(Local(t) + n * DAY)

StartOfWeek(t) ==
    LET r == SetMidnight(t) IN AddDays(r, -((Local(r) \div DAY) % 7))

\* Mutant: a week is a number of hours.
AddWeeks_Fixed(t, n) == t + n * WEEK

AddWeeks(t, n) == SetMidnight(AddDays(t, 7 * n))

FirstWeek == AddWeeks(StartOfWeek(now), -(Weeks - 1))

Start(i) == AddWeeks(FirstWeek, i)

Init ==
    /\ zone \in Zones /\ now \in Nows /\ events = {}
    /\ buckets = [i \in 0..Weeks - 1 |-> 0]

Count(t) ==
    /\ t <= now /\ t \notin events /\ Cardinality(events) < MaxEvents
    /\ events' = events \cup {t}
    /\ buckets' = [i \in DOMAIN buckets |->
                      IF Start(i) = StartOfWeek(t) THEN buckets[i] + 1 ELSE buckets[i]]
    /\ UNCHANGED <<zone, now>>

Next == \E t \in Timestamps : Count(t)

Spec == Init /\ [][Next]_vars

\* "Count timestamps into `weeks` consecutive weekly buckets ending with the current week":
\* each bucket has the timestamps of its local week, whenever the clocks are changed.
Placed ==
    \A i \in DOMAIN buckets :
        buckets[i] = Cardinality({t \in events :
            Local(t) \div WEEK = (Local(now) \div WEEK) - (Weeks - 1) + i})
=============================================================================
