--------------------------- MODULE NoticeDelivery ---------------------------
(***************************************************************************)
(* What the notification stream promises one client of one member.  A       *)
(* stream that the client opens goes on after the row that the client heard *)
(* of last, or after the newest row if it has heard of none; of every row   *)
(* after that one, stored already or stored later, the client hears while   *)
(* it listens.  It hears of stored rows only, and of a row perhaps again.   *)
(***************************************************************************)
EXTENDS Naturals

CONSTANT Rows

VARIABLES
    stored, \* notifications in the table, by position
    phase,  \* of the client's stream: "off", "opening" or "on"
    last,   \* the row that the client heard of last, 0 at first
    from,   \* the row that the stream goes on after
    got     \* what the client has heard of

vars == <<stored, phase, last, from, got>>

Init == stored = {} /\ phase = "off" /\ last = 0 /\ from = 0 /\ got = {}

Newest == IF stored = {} THEN 0 ELSE CHOOSE n \in stored : \A m \in stored : m <= n

Store(n) ==
    /\ n \notin stored /\ stored' = stored \cup {n}
    /\ UNCHANGED <<phase, last, from, got>>

Open ==
    /\ phase = "off" /\ phase' = "opening" /\ from' = last
    /\ UNCHANGED <<stored, last, got>>

Listen ==
    /\ phase = "opening" /\ phase' = "on"
    /\ from' = IF from # 0 THEN from ELSE Newest
    /\ UNCHANGED <<stored, last, got>>

Stop ==
    /\ phase # "off" /\ phase' = "off" /\ from' = 0
    /\ UNCHANGED <<stored, last, got>>

Hear(n) ==
    /\ phase # "off" /\ n \in stored
    /\ last' = n /\ got' = got \cup {n}
    /\ UNCHANGED <<stored, phase, from>>

Owed == IF phase = "on" THEN {n \in stored : n > from} ELSE {}

HearOwed(n) == n \in Owed \ got /\ Hear(n)

Next ==
    \/ Open \/ Listen \/ Stop
    \/ \E n \in Rows : Store(n) \/ Hear(n)

Spec == Init /\ [][Next]_vars /\ \A n \in Rows : WF_vars(HearOwed(n))
=============================================================================
