------------------------------ MODULE Projects ------------------------------
(***************************************************************************)
(* ProjectsService and the numbering in FeaturesService.create, in one      *)
(* workspace: keys of projects, numbers of issues, members of projects.     *)
(* Requests interleave at the database calls.  A transaction sees what is   *)
(* committed, holds the project row it has updated until its end, and an    *)
(* insert or update of a key waits for a transaction that has taken it.     *)
(***************************************************************************)
EXTENDS Naturals, FiniteSets, FiniteSetsExt

CONSTANTS
    Projects,  \* rows the table may hold
    Legacy,    \* projects from before issue keys, without one
    Bases,     \* what deriveProjectKey makes of a name
    Requests,  \* each makes one call
    Members,
    Calls,     \* the calls made: subset of AllCalls
    Attempts,  \* tries of ProjectsService.create (5)
    None

AllCalls == {"create", "feature", "update", "remove", "addMember", "removeMember"}

ASSUME ProjectsAssumption ==
    /\ IsFiniteSet(Projects) /\ IsFiniteSet(Requests) /\ Legacy \subseteq Projects
    /\ Attempts \in Nat \ {0}
    /\ Calls \subseteq AllCalls
    /\ None \notin Projects \cup Bases \cup Requests \cup Members

VARIABLES
    project,  \* table Project
    issues,   \* features created: project, key and number
    joined,   \* table ProjectMember, with row ids
    req,      \* where each request stands
    nextRow,  \* id of the next ProjectMember row
    taken,    \* for properties: keys committed since a create began
    balance   \* for properties: members told added less members told removed

vars == <<project, issues, joined, req, nextRow, taken, balance>>

NoKey == [base |-> None, suffix |-> 0]
Absent == [base |-> None, key |-> NoKey, next |-> 0]
Exists(p) == project[p].base # None
Idle == [at |-> "idle", call |-> None, project |-> None, base |-> None, key |-> NoKey,
         number |-> 0, attempt |-> 0, member |-> None, row |-> 0]

Keys == {NoKey} \cup [base : Bases, suffix : Nat]

TypeOK ==
    /\ project \in [Projects -> [base : Bases \cup {None}, key : Keys, next : Nat]]
    /\ \A i \in issues : i.project \in Projects /\ i.key \in Keys /\ i.number \in Nat \ {0}
    /\ \A j \in joined : j.row < nextRow /\ j.project \in Projects /\ j.member \in Members
    /\ req \in [Requests ->
          [at : {"idle", "alloc", "insert", "increment", "derive", "persist", "commit",
                 "rename", "delete", "add", "done", "failed"},
           call : Calls \cup {None}, project : Projects \cup {None}, base : Bases \cup {None},
           key : Keys, number : Nat, attempt : 0..Attempts - 1, member : Members \cup {None},
           row : Nat]]
    /\ nextRow \in Nat \ {0}
    /\ \A r \in Requests : taken[r] <= Cardinality(Requests)

Init ==
    /\ \E b \in [Legacy -> Bases] :
          project = [p \in Projects |-> IF p \in Legacy
                        THEN [base |-> b[p], key |-> NoKey, next |-> 1] ELSE Absent]
    /\ issues = {} /\ joined = {} /\ nextRow = 1
    /\ req = [r \in Requests |-> Idle]
    /\ taken = [r \in Requests |-> 0]
    /\ balance = [p \in Projects |-> [m \in Members |-> 0]]

At(r, call, step) == req[r].call = call /\ req[r].at = step
Go(r, step) == req' = [req EXCEPT ![r] = [@ EXCEPT !.at = step]]

StoredKeys == {project[p].key : p \in {q \in Projects : Exists(q)}} \ {NoKey}

\* A project row is held by the transaction that has updated it.
Holds(r, p) == At(r, "feature", req[r].at) /\ req[r].at \in {"derive", "persist", "commit"}
                   /\ req[r].project = p
Free(p, r) == \A o \in Requests \ {r} : ~Holds(o, p)
\* Mutant: a key counts as held from when it was derived.
KeyFree_Derived(k, r) ==
    \A o \in Requests \ {r} :
        ~(req[o].call = "feature" /\ req[o].at \in {"persist", "commit"} /\ req[o].key = k)

\* A key is held by the transaction that has written it and not committed yet.
KeyFree(k, r) == \A o \in Requests \ {r} : ~(At(o, "feature", "commit") /\ req[o].key = k)

\* nextFreeKey: BASE, BASE2, BASE3 ...
NextFreeKey(b, used) ==
    LET suffixes == {0} \cup 2..(Cardinality(used) + 2)
    IN  [base |-> b, suffix |-> Min({s \in suffixes : [base |-> b, suffix |-> s] \notin used})]

\* A committed key counts for every create that is under way.
CountKey(r) ==
    taken' = [o \in Requests |->
        IF o # r /\ req[o].call = "create" /\ req[o].at \in {"alloc", "insert"}
        THEN taken[o] + 1 ELSE taken[o]]

(***************************************************************************)
(* ProjectsService.create.                                                  *)
(***************************************************************************)

Create(r, b) ==
    /\ "create" \in Calls /\ req[r].at = "idle"
    /\ req' = [req EXCEPT ![r] = [@ EXCEPT !.at = "alloc", !.call = "create", !.base = b]]
    /\ UNCHANGED <<project, issues, joined, nextRow, taken, balance>>

\* allocateProjectKey reads the keys that are taken.
Allocate(r) ==
    /\ At(r, "create", "alloc")
    /\ req' = [req EXCEPT ![r] = [@ EXCEPT !.at = "insert",
                                           !.key = NextFreeKey(req[r].base, StoredKeys)]]
    /\ UNCHANGED <<project, issues, joined, nextRow, taken, balance>>

\* Mutant: the last attempt is not made.
Insert_GivesUp(r) ==
    /\ At(r, "create", "insert") /\ KeyFree(req[r].key, r)
    /\ \/ /\ req[r].key \notin StoredKeys
          /\ \E p \in Projects :
                /\ ~Exists(p)
                /\ project' = [project EXCEPT ![p] =
                      [base |-> req[r].base, key |-> req[r].key, next |-> 1]]
          /\ CountKey(r) /\ Go(r, "done")
       \/ /\ req[r].key \in StoredKeys
          /\ IF req[r].attempt >= Attempts - 2 THEN Go(r, "failed")
             ELSE req' = [req EXCEPT ![r] = [@ EXCEPT !.at = "alloc", !.attempt = req[r].attempt + 1]]
          /\ UNCHANGED <<project, taken>>
    /\ UNCHANGED <<issues, joined, nextRow, balance>>

\* The insert; a key that someone else has taken meanwhile is allocated anew.
Insert(r) ==
    /\ At(r, "create", "insert") /\ KeyFree(req[r].key, r)
    /\ \/ /\ req[r].key \notin StoredKeys
          /\ \E p \in Projects :
                /\ ~Exists(p)
                /\ project' = [project EXCEPT ![p] =
                      [base |-> req[r].base, key |-> req[r].key, next |-> 1]]
          /\ CountKey(r) /\ Go(r, "done")
       \/ /\ req[r].key \in StoredKeys
          /\ IF req[r].attempt = Attempts - 1 THEN Go(r, "failed")
             ELSE req' = [req EXCEPT ![r] = [@ EXCEPT !.at = "alloc", !.attempt = req[r].attempt + 1]]
          /\ UNCHANGED <<project, taken>>
    /\ UNCHANGED <<issues, joined, nextRow, balance>>

(***************************************************************************)
(* FeaturesService.create: the number and, for a legacy project, the key.   *)
(***************************************************************************)

\* The project is looked up before the transaction.
Feature(r, p) ==
    /\ "feature" \in Calls /\ req[r].at = "idle" /\ Exists(p)
    /\ req' = [req EXCEPT ![r] = [@ EXCEPT !.at = "increment", !.call = "feature", !.project = p,
                                           !.base = project[p].base]]
    /\ UNCHANGED <<project, issues, joined, nextRow, taken, balance>>

\* The update that increments the counter and reads it back.
Increment(r) ==
    LET p == req[r].project IN
    /\ At(r, "feature", "increment") /\ Free(p, r)
    /\ IF Exists(p)
       THEN req' = [req EXCEPT ![r] =
               [@ EXCEPT !.number = project[p].next, !.key = project[p].key,
                         !.at = IF project[p].key = NoKey THEN "derive" ELSE "commit"]]
       ELSE Go(r, "failed")
    /\ UNCHANGED <<project, issues, joined, nextRow, taken, balance>>

\* A legacy project is given a key: the ones taken are read ...
Derive(r) ==
    /\ At(r, "feature", "derive")
    /\ req' = [req EXCEPT ![r] = [@ EXCEPT !.at = "persist",
                                           !.key = NextFreeKey(req[r].base, StoredKeys)]]
    /\ UNCHANGED <<project, issues, joined, nextRow, taken, balance>>

\* Mutant: no unique index on tenantId and key.
Persist_NotUnique(r) ==
    /\ At(r, "feature", "persist") /\ Go(r, "commit")
    /\ UNCHANGED <<project, issues, joined, nextRow, taken, balance>>

\* ... and the new one is written; there is no second attempt here, a conflict ends
\* the transaction and the request.
Persist(r) ==
    /\ At(r, "feature", "persist") /\ KeyFree(req[r].key, r)
    /\ Go(r, IF req[r].key \in StoredKeys THEN "failed" ELSE "commit")
    /\ UNCHANGED <<project, issues, joined, nextRow, taken, balance>>

\* The feature row, and the end of the transaction.
Commit(r) ==
    LET p == req[r].project IN
    /\ At(r, "feature", "commit")
    /\ project' = [project EXCEPT ![p] = [@ EXCEPT !.key = req[r].key, !.next = project[p].next + 1]]
    /\ issues' = issues \cup {[project |-> p, key |-> req[r].key, number |-> req[r].number]}
    /\ IF project[p].key = NoKey THEN CountKey(r) ELSE UNCHANGED taken
    /\ Go(r, "done")
    /\ UNCHANGED <<joined, nextRow, balance>>

(***************************************************************************)
(* update, remove, addMember, removeMember.                                 *)
(***************************************************************************)

\* update may give a project a name that makes another key; its key stays.
Update(r, p, b) ==
    /\ "update" \in Calls /\ req[r].at = "idle" /\ Exists(p)
    /\ req' = [req EXCEPT ![r] = [@ EXCEPT !.at = "rename", !.call = "update", !.project = p,
                                           !.base = b]]
    /\ UNCHANGED <<project, issues, joined, nextRow, taken, balance>>

Rename(r) ==
    LET p == req[r].project IN
    /\ At(r, "update", "rename") /\ Free(p, r)
    /\ IF Exists(p)
       THEN project' = [project EXCEPT ![p] = [@ EXCEPT !.base = req[r].base]] /\ Go(r, "done")
       ELSE Go(r, "failed") /\ UNCHANGED project
    /\ UNCHANGED <<issues, joined, nextRow, taken, balance>>

Remove(r, p) ==
    /\ "remove" \in Calls /\ req[r].at = "idle" /\ Exists(p)
    /\ req' = [req EXCEPT ![r] = [@ EXCEPT !.at = "delete", !.call = "remove", !.project = p]]
    /\ UNCHANGED <<project, issues, joined, nextRow, taken, balance>>

\* Deleting the project deletes its features and memberships.
Delete(r) ==
    LET p == req[r].project IN
    /\ At(r, "remove", "delete") /\ Free(p, r)
    /\ IF Exists(p)
       THEN /\ project' = [project EXCEPT ![p] = Absent]
            /\ issues' = {i \in issues : i.project # p}
            /\ joined' = {j \in joined : j.project # p}
            /\ balance' = [balance EXCEPT ![p] = [m \in Members |-> 0]]
            /\ Go(r, "done")
       ELSE Go(r, "failed") /\ UNCHANGED <<project, issues, joined, balance>>
    /\ UNCHANGED <<nextRow, taken>>

RowsOf(p, m) == {j \in joined : j.project = p /\ j.member = m}

\* addMember finds project and member, and no membership yet.
AddMember(r, p, m) ==
    /\ "addMember" \in Calls /\ req[r].at = "idle" /\ Exists(p) /\ RowsOf(p, m) = {}
    /\ req' = [req EXCEPT ![r] = [@ EXCEPT !.at = "add", !.call = "addMember", !.project = p,
                                           !.member = m]]
    /\ UNCHANGED <<project, issues, joined, nextRow, taken, balance>>

\* Mutant: no unique index on projectId and memberId.
Add_NotUnique(r) ==
    LET p == req[r].project
        m == req[r].member IN
    /\ At(r, "addMember", "add")
    /\ IF Exists(p)
       THEN /\ joined' = joined \cup {[row |-> nextRow, project |-> p, member |-> m]}
            /\ nextRow' = nextRow + 1
            /\ balance' = [balance EXCEPT ![p][m] = @ + 1]
            /\ Go(r, "done")
       ELSE Go(r, "failed") /\ UNCHANGED <<joined, nextRow, balance>>
    /\ UNCHANGED <<project, issues, taken>>

\* The insert, which the unique index or the missing project refuses.
Add(r) ==
    LET p == req[r].project
        m == req[r].member IN
    /\ At(r, "addMember", "add")
    /\ IF Exists(p) /\ RowsOf(p, m) = {}
       THEN /\ joined' = joined \cup {[row |-> nextRow, project |-> p, member |-> m]}
            /\ nextRow' = nextRow + 1
            /\ balance' = [balance EXCEPT ![p][m] = @ + 1]
            /\ Go(r, "done")
       ELSE Go(r, "failed") /\ UNCHANGED <<joined, nextRow, balance>>
    /\ UNCHANGED <<project, issues, taken>>

RemoveMember(r, p, m) ==
    /\ "removeMember" \in Calls /\ req[r].at = "idle" /\ Exists(p)
    /\ \E j \in RowsOf(p, m) :
          req' = [req EXCEPT ![r] = [@ EXCEPT !.at = "delete", !.call = "removeMember",
                                              !.project = p, !.member = m, !.row = j.row]]
    /\ UNCHANGED <<project, issues, joined, nextRow, taken, balance>>

\* The row that was found is deleted, if it is still there.
DeleteMember(r) ==
    LET hit == {j \in joined : j.row = req[r].row} IN
    /\ At(r, "removeMember", "delete")
    /\ joined' = joined \ hit
    /\ IF hit = {} THEN Go(r, "failed") /\ UNCHANGED balance
       ELSE /\ balance' = [balance EXCEPT ![req[r].project][req[r].member] = @ - 1]
            /\ Go(r, "done")
    /\ UNCHANGED <<project, issues, nextRow, taken>>

Step(r) ==
    \/ Allocate(r) \/ Insert(r)
    \/ Increment(r) \/ Derive(r) \/ Persist(r) \/ Commit(r)
    \/ Rename(r) \/ Delete(r) \/ Add(r) \/ DeleteMember(r)

Next ==
    \E r \in Requests :
        \/ Step(r)
        \/ \E b \in Bases : Create(r, b)
        \/ \E p \in Projects : Feature(r, p) \/ Remove(r, p)
        \/ \E p \in Projects, b \in Bases : Update(r, p, b)
        \/ \E p \in Projects, m \in Members : AddMember(r, p, m) \/ RemoveMember(r, p, m)

Spec == Init /\ [][Next]_vars
(***************************************************************************)
(* Properties.                                                              *)
(***************************************************************************)

\* An issue goes by the key of its project: "the branch matcher would link PRs to the
\* wrong one".
GoesByProject ==
    /\ \A i \in issues : i.key = project[i.project].key
    /\ \A p, q \in Projects : p # q /\ Exists(p) /\ Exists(q) /\ project[p].key # NoKey
                              => project[p].key # project[q].key

\* "retry so the loser gets the next key instead of an error": a create fails only
\* when as many keys were taken while it ran as it made attempts.
LoserRetries ==
    \A r \in Requests : At(r, "create", "failed") => taken[r] >= Attempts

\* What the callers were told adds up to who is a member, whatever raced.
RepliesAddUp ==
    \A p \in Projects, m \in Members : balance[p][m] = IF RowsOf(p, m) = {} THEN 0 ELSE 1

\* Every call is answered: no request waits for ever for a row or a key.
Answered ==
    \A r \in Requests : req[r].at # "idle" ~> req[r].at \in {"done", "failed"}
=============================================================================
