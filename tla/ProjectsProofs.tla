--------------------------- MODULE ProjectsProofs ---------------------------
(***************************************************************************)
(* The keys of projects and issues and the members of projects, for any     *)
(* number of projects, requests and attempts.                               *)
(***************************************************************************)
EXTENDS Projects, FiniteSetTheorems, TLAPS

(***************************************************************************)
(* The inductive invariant.                                                 *)
(***************************************************************************)

RowFields == DOMAIN Absent
IsRow(x) == x = [f \in RowFields |-> x[f]]
Fields == DOMAIN Idle
IsReq(q) == q = [f \in Fields |-> q[f]]

LEMMA FieldsOf ==
    Fields = {"at", "call", "project", "base", "key", "number", "attempt", "member", "row"}
BY DEF Fields, Idle

\* What a request may write: a base that is one, and an issue of a project.
Based(q) ==
    q.at # "idle" =>
        /\ q.call \in {"create", "update", "feature"} => q.base \in Bases
        /\ q.call = "feature" => q.project \in Projects

ProjectInv ==
    /\ project = [p \in Projects |-> project[p]]
    /\ \A p \in Projects : IsRow(project[p]) /\ (Exists(p) => project[p].base \in Bases)

ReqInv ==
    /\ req = [r \in Requests |-> req[r]]
    /\ \A r \in Requests : IsReq(req[r]) /\ Based(req[r])

\* In the transaction of an issue, past the update that holds the project's row.
InTransaction(q) == q.call = "feature" /\ q.at \in {"derive", "persist", "commit"}
Committing(q) == q.call = "feature" /\ q.at = "commit"

\* Who holds a project's row holds it alone, and the row is there; he derives a key for a
\* project without one, and what he has written is the project's key or nobody's.
HoldsInv ==
    \A r \in Requests : InTransaction(req[r]) =>
        /\ Exists(req[r].project)
        /\ \A o \in Requests :
              InTransaction(req[o]) /\ req[o].project = req[r].project => o = r
        /\ req[r].at # "derive" => req[r].key # NoKey
        /\ req[r].at # "commit" => project[req[r].project].key = NoKey
        /\ req[r].at = "commit" =>
              \/ project[req[r].project].key = req[r].key
              \/ project[req[r].project].key = NoKey /\ req[r].key \notin StoredKeys

\* Two requests about to commit do not write one key.
CommitsInv ==
    \A r, o \in Requests :
        Committing(req[r]) /\ Committing(req[o]) /\ req[r].key = req[o].key => r = o

IssuesInv ==
    \A i \in issues : /\ i.project \in Projects /\ Exists(i.project)
                      /\ i.key # NoKey /\ i.key = project[i.project].key

UniqueKeys ==
    \A p, q \in Projects : p # q /\ Exists(p) /\ Exists(q) /\ project[p].key # NoKey
                           => project[p].key # project[q].key

IInv == ProjectInv /\ ReqInv /\ HoldsInv /\ CommitsInv /\ IssuesInv /\ UniqueKeys

LEMMA Stored ==
    ASSUME NEW k
    PROVE  k \in StoredKeys <=> k # NoKey /\ \E p \in Projects : Exists(p) /\ project[p].key = k
BY DEF StoredKeys

LEMMA IInvInit == Init => IInv
<1> SUFFICES ASSUME Init PROVE IInv
    OBVIOUS
<1>1. PICK b \in [Legacy -> Bases] :
         project = [p \in Projects |-> IF p \in Legacy
                       THEN [base |-> b[p], key |-> NoKey, next |-> 1] ELSE Absent]
    BY DEF Init
<1>2. \A p \in Projects : project[p].key = NoKey
    BY <1>1 DEF Absent
<1>3. ProjectInv
    <2>1. ASSUME NEW p \in Projects
          PROVE  IsRow(project[p]) /\ (Exists(p) => project[p].base \in Bases)
        BY <1>1 DEF IsRow, RowFields, Exists, Absent
    <2>2. QED
        BY <1>1, <2>1 DEF ProjectInv
<1>4. req = [r \in Requests |-> Idle] /\ issues = {}
    BY DEF Init
<1>5. ReqInv
    <2>1. IsReq(Idle)
        BY DEF IsReq, Fields, Idle
    <2>2. Based(Idle)
        BY DEF Based, Idle
    <2>3. QED
        BY <1>4, <2>1, <2>2 DEF ReqInv
<1>6. HoldsInv /\ CommitsInv
    BY <1>4 DEF HoldsInv, CommitsInv, Committing, InTransaction, Idle
<1>7. IssuesInv /\ UniqueKeys
    BY <1>2, <1>4 DEF IssuesInv, UniqueKeys
<1>8. QED
    BY <1>3, <1>5, <1>6, <1>7 DEF IInv

(***************************************************************************)
(* Requests.                                                                *)
(***************************************************************************)

LEMMA BecomesOne ==
    ASSUME ReqInv, NEW r \in Requests, NEW q, IsReq(q), Based(q), req' = [req EXCEPT ![r] = q]
    PROVE  ReqInv' /\ req'[r] = q /\ \A o \in Requests : o # r => req'[o] = req[o]
<1>1. req'[r] = q /\ \A o \in Requests : o # r => req'[o] = req[o]
    BY DEF ReqInv
<1>2. req' = [o \in Requests |-> req'[o]]
    BY DEF ReqInv
<1>3. ASSUME NEW o \in Requests
      PROVE  IsReq(req'[o]) /\ Based(req'[o])
    BY <1>1 DEF ReqInv
<1>4. QED
    BY <1>1, <1>2, <1>3 DEF ReqInv

\* A request that is in no transaction may go anywhere outside of one.
LEMMA Outside ==
    ASSUME IInv, NEW r \in Requests, NEW q, IsReq(q), Based(q), req' = [req EXCEPT ![r] = q],
           ~InTransaction(q), UNCHANGED <<project, issues>>
    PROVE  IInv'
<1>1. /\ ReqInv' /\ req'[r] = q
      /\ \A o \in Requests : o # r => req'[o] = req[o]
    BY BecomesOne DEF IInv
<1>2. ~Committing(q)
    BY DEF Committing, InTransaction
<1>3. HoldsInv'
    BY <1>1 DEF IInv, HoldsInv, InTransaction, Exists, StoredKeys
<1>4. CommitsInv'
    BY <1>1, <1>2 DEF IInv, CommitsInv, Committing
<1>5. ProjectInv' /\ IssuesInv' /\ UniqueKeys'
    BY DEF IInv, ProjectInv, IssuesInv, UniqueKeys, Exists
<1>6. QED
    BY <1>1, <1>3, <1>4, <1>5 DEF IInv

\* A step that only moves the request on.
LEMMA GoOn ==
    ASSUME IInv, NEW r \in Requests, NEW step, req[r].at # "idle", Go(r, step),
           ~InTransaction([req[r] EXCEPT !.at = step]), UNCHANGED <<project, issues>>
    PROVE  IInv'
<1> DEFINE q == [req[r] EXCEPT !.at = step]
<1>1. req' = [req EXCEPT ![r] = q]
    BY DEF Go
<1>2. IsReq(req[r]) /\ Based(req[r])
    BY DEF IInv, ReqInv
<1>3. IsReq(q) /\ Based(q)
    BY <1>2, FieldsOf DEF IsReq, Based
<1> HIDE DEF q
<1>4. ~InTransaction(q)
    BY DEF q
<1>5. QED
    BY <1>1, <1>3, <1>4, Outside

(***************************************************************************)
(* The first step of each call, and the allocation of a key for a create.   *)
(***************************************************************************)

LEMMA CreateKeeps ==
    ASSUME IInv, NEW r \in Requests, NEW b \in Bases, Create(r, b)
    PROVE  IInv'
<1> DEFINE q == [req[r] EXCEPT !.at = "alloc", !.call = "create", !.base = b]
<1>1. req' = [req EXCEPT ![r] = q] /\ UNCHANGED <<project, issues>>
    BY DEF Create
<1>2. IsReq(req[r]) /\ Based(req[r])
    BY DEF IInv, ReqInv
<1>3. IsReq(q)
    BY <1>2 DEF IsReq
<1>4. Based(q) /\ ~InTransaction(q)
    BY <1>1, <1>2, FieldsOf DEF IsReq, Based, InTransaction, At
<1>5. QED
    BY <1>1, <1>2, <1>3, <1>4, Outside

LEMMA AllocateKeeps ==
    ASSUME IInv, NEW r \in Requests, Allocate(r)
    PROVE  IInv'
<1> DEFINE q == [req[r] EXCEPT !.at = "insert", !.key = NextFreeKey(req[r].base, StoredKeys)]
<1>1. req' = [req EXCEPT ![r] = q] /\ UNCHANGED <<project, issues>> /\ At(r, "create", "alloc")
    BY DEF Allocate
<1>2. IsReq(req[r]) /\ Based(req[r])
    BY DEF IInv, ReqInv
<1>3. IsReq(q)
    BY <1>2 DEF IsReq
<1>4. Based(q) /\ ~InTransaction(q)
    BY <1>1, <1>2, FieldsOf DEF IsReq, Based, InTransaction, At
<1>5. QED
    BY <1>1, <1>2, <1>3, <1>4, Outside

LEMMA FeatureKeeps ==
    ASSUME IInv, NEW r \in Requests, NEW p \in Projects, Feature(r, p)
    PROVE  IInv'
<1> DEFINE q == [req[r] EXCEPT !.at = "increment", !.call = "feature", !.project = p,
                               !.base = project[p].base]
<1>1. req' = [req EXCEPT ![r] = q] /\ UNCHANGED <<project, issues>> /\ project[p].base \in Bases
    BY DEF Feature, IInv, ProjectInv
<1>2. IsReq(req[r]) /\ Based(req[r])
    BY DEF IInv, ReqInv
<1>3. IsReq(q)
    BY <1>2 DEF IsReq
<1>4. Based(q) /\ ~InTransaction(q)
    BY <1>1, <1>2, FieldsOf DEF IsReq, Based, InTransaction, At
<1>5. QED
    BY <1>1, <1>2, <1>3, <1>4, Outside

LEMMA UpdateKeeps ==
    ASSUME IInv, NEW r \in Requests, NEW p \in Projects, NEW b \in Bases, Update(r, p, b)
    PROVE  IInv'
<1> DEFINE q == [req[r] EXCEPT !.at = "rename", !.call = "update", !.project = p, !.base = b]
<1>1. req' = [req EXCEPT ![r] = q] /\ UNCHANGED <<project, issues>>
    BY DEF Update
<1>2. IsReq(req[r]) /\ Based(req[r])
    BY DEF IInv, ReqInv
<1>3. IsReq(q)
    BY <1>2 DEF IsReq
<1>4. Based(q) /\ ~InTransaction(q)
    BY <1>1, <1>2, FieldsOf DEF IsReq, Based, InTransaction, At
<1>5. QED
    BY <1>1, <1>2, <1>3, <1>4, Outside

LEMMA RemoveKeeps ==
    ASSUME IInv, NEW r \in Requests, NEW p \in Projects, Remove(r, p)
    PROVE  IInv'
<1> DEFINE q == [req[r] EXCEPT !.at = "delete", !.call = "remove", !.project = p]
<1>1. req' = [req EXCEPT ![r] = q] /\ UNCHANGED <<project, issues>>
    BY DEF Remove
<1>2. IsReq(req[r]) /\ Based(req[r])
    BY DEF IInv, ReqInv
<1>3. IsReq(q)
    BY <1>2 DEF IsReq
<1>4. Based(q) /\ ~InTransaction(q)
    BY <1>1, <1>2, FieldsOf DEF IsReq, Based, InTransaction, At
<1>5. QED
    BY <1>1, <1>2, <1>3, <1>4, Outside

LEMMA AddMemberKeeps ==
    ASSUME IInv, NEW r \in Requests, NEW p \in Projects, NEW m \in Members, AddMember(r, p, m)
    PROVE  IInv'
<1> DEFINE q == [req[r] EXCEPT !.at = "add", !.call = "addMember", !.project = p, !.member = m]
<1>1. req' = [req EXCEPT ![r] = q] /\ UNCHANGED <<project, issues>>
    BY DEF AddMember
<1>2. IsReq(req[r]) /\ Based(req[r])
    BY DEF IInv, ReqInv
<1>3. IsReq(q)
    BY <1>2 DEF IsReq
<1>4. Based(q) /\ ~InTransaction(q)
    BY <1>1, <1>2, FieldsOf DEF IsReq, Based, InTransaction, At
<1>5. QED
    BY <1>1, <1>2, <1>3, <1>4, Outside

LEMMA RemoveMemberKeeps ==
    ASSUME IInv, NEW r \in Requests, NEW p \in Projects, NEW m \in Members,
           RemoveMember(r, p, m)
    PROVE  IInv'
<1>1. PICK j \in RowsOf(p, m) :
         req' = [req EXCEPT ![r] = [req[r] EXCEPT !.at = "delete", !.call = "removeMember",
                                        !.project = p, !.member = m, !.row = j.row]]
    BY DEF RemoveMember, IInv, ReqInv
<1> DEFINE q == [req[r] EXCEPT !.at = "delete", !.call = "removeMember",
                               !.project = p, !.member = m, !.row = j.row]
<1>2. UNCHANGED <<project, issues>>
    BY DEF RemoveMember
<1>3. IsReq(req[r]) /\ Based(req[r])
    BY DEF IInv, ReqInv
<1>4. IsReq(q)
    BY <1>3 DEF IsReq
<1>5. Based(q) /\ ~InTransaction(q)
    BY <1>1, <1>3, FieldsOf DEF IsReq, Based, InTransaction, At
<1>6. QED
    BY <1>1, <1>2, <1>3, <1>4, <1>5, Outside

LEMMA MemberKeeps ==
    ASSUME IInv, NEW r \in Requests, Add(r) \/ DeleteMember(r)
    PROVE  IInv'
<1>1. /\ \E step \in {"done", "failed"} : Go(r, step)
      /\ UNCHANGED <<project, issues>> /\ req[r].at # "idle"
    BY DEF Add, DeleteMember, At
<1>2. QED
    BY <1>1, GoOn DEF InTransaction, IInv, ReqInv, IsReq

(***************************************************************************)
(* The transaction of an issue.                                             *)
(***************************************************************************)

LEMMA DeriveKeeps ==
    ASSUME IInv, NEW r \in Requests, Derive(r)
    PROVE  IInv'
<1> DEFINE k == NextFreeKey(req[r].base, StoredKeys)
<1> DEFINE q == [req[r] EXCEPT !.at = "persist", !.key = k]
<1>1. req' = [req EXCEPT ![r] = q] /\ UNCHANGED <<project, issues>> /\ At(r, "feature", "derive")
    BY DEF Derive
<1>2. IsReq(req[r]) /\ Based(req[r]) /\ InTransaction(req[r])
    BY <1>1 DEF IInv, ReqInv, At, InTransaction
<1>3. k # NoKey
    BY <1>1, <1>2, ProjectsAssumption DEF NextFreeKey, NoKey, Based, At
<1> HIDE DEF k
<1>4. /\ IsReq(q) /\ Based(q) /\ InTransaction(q) /\ ~Committing(q) /\ q.key = k
      /\ q.project = req[r].project /\ q.at = "persist"
    <2>1. IsReq(q)
        BY <1>2 DEF IsReq
    <2>2. q.at = "persist" /\ q.key = k /\ q.project = req[r].project /\ q.base = req[r].base
          /\ q.call = "feature"
        BY <1>1, <1>2, FieldsOf DEF IsReq, At
    <2>3. QED
        BY <1>1, <1>2, <2>1, <2>2 DEF Based, InTransaction, Committing, At
<1> HIDE DEF q
<1>5. /\ ReqInv' /\ req'[r] = q
      /\ \A o \in Requests : o # r => req'[o] = req[o]
    BY <1>1, <1>4, BecomesOne DEF IInv
<1>6. /\ \A o \in Requests : InTransaction(req'[o]) => InTransaction(req[o])
      /\ \A o \in Requests : req'[o].project = req[o].project
    BY <1>2, <1>4, <1>5
<1>7. project[req[r].project].key = NoKey /\ Exists(req[r].project)
    BY <1>1, <1>2 DEF IInv, HoldsInv, At
<1>8. HoldsInv'
    BY <1>1, <1>3, <1>4, <1>5, <1>6, <1>7 DEF IInv, HoldsInv, Exists, StoredKeys
<1>9. CommitsInv'
    BY <1>4, <1>5 DEF IInv, CommitsInv
<1>10. ProjectInv' /\ IssuesInv' /\ UniqueKeys'
    BY <1>1 DEF IInv, ProjectInv, IssuesInv, UniqueKeys, Exists
<1>11. QED
    BY <1>5, <1>8, <1>9, <1>10 DEF IInv

\* The update of the project's row gives the request the row, and the key if it has one.
LEMMA IncrementKeeps ==
    ASSUME IInv, NEW r \in Requests, Increment(r)
    PROVE  IInv'
<1> DEFINE p == req[r].project
<1>1. /\ UNCHANGED <<project, issues>> /\ At(r, "feature", "increment") /\ Free(p, r)
      /\ p \in Projects
    BY DEF Increment, IInv, ReqInv, Based, At
<1>2. CASE ~Exists(p)
    <2>1. Go(r, "failed") /\ ~InTransaction([req[r] EXCEPT !.at = "failed"])
        BY <1>2, FieldsOf DEF Increment, IInv, ReqInv, IsReq, InTransaction
    <2>2. QED
        BY <1>1, <2>1, GoOn DEF At
<1>3. CASE Exists(p)
    <2> DEFINE k == project[p].key
    <2> DEFINE at == IF k = NoKey THEN "derive" ELSE "commit"
    <2> DEFINE q == [req[r] EXCEPT !.number = project[p].next, !.key = k, !.at = at]
    <2>1. req' = [req EXCEPT ![r] = q]
        BY <1>3 DEF Increment
    <2>2. IsReq(req[r]) /\ Based(req[r])
        BY DEF IInv, ReqInv
    <2>3. IsReq(q)
        BY <2>2 DEF IsReq
    <2>4. /\ q.at = at /\ q.key = k /\ q.project = p /\ q.call = "feature"
          /\ q.base = req[r].base
        BY <1>1, <2>2, FieldsOf DEF IsReq, At
    <2> HIDE DEF q
    <2>5. Based(q) /\ InTransaction(q)
        BY <1>1, <2>2, <2>4 DEF Based, InTransaction, At
    <2>6. /\ ReqInv' /\ req'[r] = q
          /\ \A o \in Requests : o # r => req'[o] = req[o]
        BY <2>1, <2>3, <2>5, BecomesOne DEF IInv
    <2>7. ASSUME NEW o \in Requests, o # r, InTransaction(req[o])
          PROVE  req[o].project # p
        BY <1>1, <2>7 DEF Free, Holds, At, InTransaction
    <2>8. HoldsInv'
        <3>1. UNCHANGED <<project, StoredKeys>>
            BY <1>1 DEF StoredKeys, Exists
        <3>2. ASSUME NEW o \in Requests, o # r, InTransaction(req'[o])
              PROVE  /\ Exists(req[o].project)
                     /\ \A t \in Requests :
                           InTransaction(req'[t]) /\ req'[t].project = req[o].project => t = o
                     /\ req[o].at # "derive" => req[o].key # NoKey
                     /\ req[o].at # "commit" => project[req[o].project].key = NoKey
                     /\ req[o].at = "commit" =>
                           \/ project[req[o].project].key = req[o].key
                           \/ /\ project[req[o].project].key = NoKey
                              /\ req[o].key \notin StoredKeys
            BY <2>4, <2>6, <2>7, <3>2 DEF IInv, HoldsInv
        <3>3. /\ \A t \in Requests : InTransaction(req'[t]) /\ req'[t].project = p => t = r
              /\ at # "derive" => k # NoKey
              /\ at # "commit" => k = NoKey
            BY <2>6, <2>7
        <3>4. ASSUME NEW o \in Requests, InTransaction(req'[o])
              PROVE  /\ Exists(req'[o].project)
                     /\ \A t \in Requests :
                           InTransaction(req'[t]) /\ req'[t].project = req'[o].project => t = o
                     /\ req'[o].at # "derive" => req'[o].key # NoKey
                     /\ req'[o].at # "commit" => project[req'[o].project].key = NoKey
                     /\ req'[o].at = "commit" =>
                           \/ project[req'[o].project].key = req'[o].key
                           \/ /\ project[req'[o].project].key = NoKey
                              /\ req'[o].key \notin StoredKeys
            BY <1>3, <2>4, <2>6, <3>2, <3>3, <3>4
        <3>5. QED
            BY <3>1, <3>4 DEF HoldsInv, Exists
    <2>9. CommitsInv'
        <3>1. ASSUME NEW o \in Requests, o # r, Committing(req[o]), Committing(q)
              PROVE  req[o].key # k
            <4>1. k \in StoredKeys
                BY <1>1, <1>3, <2>4, <3>1, Stored DEF Committing
            <4>2. InTransaction(req[o]) /\ req[o].project \in Projects /\ Exists(req[o].project)
                BY <3>1 DEF Committing, InTransaction, IInv, ReqInv, Based, HoldsInv
            <4>3. project[req[o].project].key = req[o].key \/ req[o].key \notin StoredKeys
                BY <3>1, <4>2 DEF Committing, IInv, HoldsInv
            <4>4. req[o].project # p /\ k # NoKey
                BY <2>4, <2>7, <3>1, <4>2 DEF Committing
            <4>5. QED
                BY <1>1, <1>3, <4>1, <4>2, <4>3, <4>4 DEF IInv, UniqueKeys
        <3>2. QED
            BY <2>4, <2>6, <3>1 DEF IInv, CommitsInv
    <2>10. ProjectInv' /\ IssuesInv' /\ UniqueKeys'
        BY <1>1 DEF IInv, ProjectInv, IssuesInv, UniqueKeys, Exists
    <2>11. QED
        BY <2>6, <2>8, <2>9, <2>10 DEF IInv
<1>4. QED
    BY <1>2, <1>3

LEMMA PersistKeeps ==
    ASSUME IInv, NEW r \in Requests, Persist(r)
    PROVE  IInv'
<1>1. /\ UNCHANGED <<project, issues>> /\ At(r, "feature", "persist") /\ KeyFree(req[r].key, r)
      /\ InTransaction(req[r]) /\ IsReq(req[r]) /\ Based(req[r])
    BY DEF Persist, At, InTransaction, IInv, ReqInv
<1>2. CASE req[r].key \in StoredKeys
    <2>1. Go(r, "failed") /\ ~InTransaction([req[r] EXCEPT !.at = "failed"])
        BY <1>1, <1>2, FieldsOf DEF Persist, IsReq, InTransaction
    <2>2. QED
        BY <1>1, <2>1, GoOn DEF At
<1>3. CASE req[r].key \notin StoredKeys
    <2> DEFINE q == [req[r] EXCEPT !.at = "commit"]
    <2>1. req' = [req EXCEPT ![r] = q]
        BY <1>3 DEF Persist, Go
    <2>2. /\ IsReq(q) /\ q.at = "commit" /\ q.call = "feature" /\ q.key = req[r].key
          /\ q.project = req[r].project /\ q.base = req[r].base
        BY <1>1, FieldsOf DEF IsReq, At
    <2> HIDE DEF q
    <2>3. Based(q)
        BY <1>1, <2>2 DEF Based, At
    <2>4. /\ ReqInv' /\ req'[r] = q
          /\ \A o \in Requests : o # r => req'[o] = req[o]
        BY <2>1, <2>2, <2>3, BecomesOne DEF IInv
    <2>5. /\ Exists(req[r].project) /\ req[r].key # NoKey
          /\ project[req[r].project].key = NoKey
        BY <1>1 DEF IInv, HoldsInv, At
    <2>6. /\ \A o \in Requests : InTransaction(req'[o]) => InTransaction(req[o])
          /\ \A o \in Requests : req'[o].project = req[o].project /\ req'[o].key = req[o].key
        BY <1>1, <2>2, <2>4
    <2>7. HoldsInv'
        BY <1>1, <1>3, <2>2, <2>4, <2>5, <2>6 DEF IInv, HoldsInv, Exists, StoredKeys
    <2>8. CommitsInv'
        BY <1>1, <2>2, <2>4 DEF IInv, CommitsInv, Committing, KeyFree, At
    <2>9. ProjectInv' /\ IssuesInv' /\ UniqueKeys'
        BY <1>1 DEF IInv, ProjectInv, IssuesInv, UniqueKeys, Exists
    <2>10. QED
        BY <2>4, <2>7, <2>8, <2>9 DEF IInv
<1>4. QED
    BY <1>2, <1>3

(***************************************************************************)
(* The steps that write a project's row.                                    *)
(***************************************************************************)

\* r ends, outside of a transaction.
LEMMA Ends ==
    ASSUME IInv, NEW r \in Requests, req[r].at # "idle", Go(r, "done")
    PROVE  /\ ReqInv' /\ ~InTransaction(req'[r])
           /\ \A o \in Requests : o # r => req'[o] = req[o]
<1> DEFINE q == [req[r] EXCEPT !.at = "done"]
<1>1. IsReq(req[r]) /\ Based(req[r])
    BY DEF IInv, ReqInv
<1>2. IsReq(q)
    BY <1>1 DEF IsReq
<1>3. Based(q) /\ ~InTransaction(q)
    BY <1>1, FieldsOf DEF IsReq, Based, InTransaction
<1>4. req' = [req EXCEPT ![r] = q]
    BY DEF Go
<1> HIDE DEF q
<1>5. QED
    BY <1>2, <1>3, <1>4, BecomesOne DEF IInv

\* A row may be written so.
LEMMA Writes ==
    ASSUME ProjectInv, NEW p \in Projects, NEW x, IsRow(x), x.base # None => x.base \in Bases,
           project' = [project EXCEPT ![p] = x]
    PROVE  /\ ProjectInv' /\ project'[p] = x
           /\ \A q \in Projects : q # p => project'[q] = project[q]
<1>1. project'[p] = x /\ \A q \in Projects : q # p => project'[q] = project[q]
    BY DEF ProjectInv
<1>2. project' = [q \in Projects |-> project'[q]]
    BY DEF ProjectInv
<1>3. QED
    BY <1>1, <1>2 DEF ProjectInv, Exists

\* What holds of the others when r ends and has written p, whose row none of them holds.
LEMMA Others ==
    ASSUME IInv, NEW r \in Requests, NEW p \in Projects,
           ReqInv', ~InTransaction(req'[r]), \A o \in Requests : o # r => req'[o] = req[o],
           \A o \in Requests : o # r /\ InTransaction(req[o]) => req[o].project # p,
           \A q \in Projects : q # p => project'[q] = project[q],
           \A o \in Requests : o # r /\ Committing(req[o]) /\ req[o].key \in StoredKeys' =>
               req[o].key \in StoredKeys
    PROVE  HoldsInv' /\ CommitsInv'
<1>1. ASSUME NEW o \in Requests, InTransaction(req'[o])
      PROVE  /\ o # r /\ req'[o] = req[o] /\ InTransaction(req[o])
             /\ req[o].project \in Projects /\ req[o].project # p
             /\ project'[req[o].project] = project[req[o].project]
    BY <1>1 DEF IInv, ReqInv, Based, InTransaction
<1>2. ASSUME NEW o \in Requests, InTransaction(req'[o])
      PROVE  /\ project'[req'[o].project].base # None
             /\ \A t \in Requests :
                   InTransaction(req'[t]) /\ req'[t].project = req'[o].project => t = o
             /\ req'[o].at # "derive" => req'[o].key # NoKey
             /\ req'[o].at # "commit" => project'[req'[o].project].key = NoKey
             /\ req'[o].at = "commit" =>
                   \/ project'[req'[o].project].key = req'[o].key
                   \/ /\ project'[req'[o].project].key = NoKey
                      /\ req'[o].key \notin StoredKeys'
    <2>1. /\ o # r /\ req'[o] = req[o] /\ InTransaction(req[o])
          /\ project'[req[o].project] = project[req[o].project]
        BY <1>1, <1>2
    <2>2. req[o].at = "commit" => Committing(req[o])
        BY <2>1 DEF Committing, InTransaction
    <2>3. QED
        BY <1>1, <2>1, <2>2 DEF IInv, HoldsInv, Exists
<1>3. HoldsInv'
    BY <1>2 DEF HoldsInv, Exists
<1>4. CommitsInv'
    BY DEF IInv, CommitsInv, Committing, InTransaction
<1>5. QED
    BY <1>3, <1>4

LEMMA InsertKeeps ==
    ASSUME IInv, NEW r \in Requests, Insert(r)
    PROVE  IInv'
<1> DEFINE k == req[r].key
<1>1. /\ At(r, "create", "insert") /\ KeyFree(k, r) /\ issues' = issues
      /\ IsReq(req[r]) /\ Based(req[r])
    BY DEF Insert, IInv, ReqInv
<1>2. CASE k \in StoredKeys
    <2>1. UNCHANGED project
        BY <1>2 DEF Insert
    <2>2. CASE Go(r, "failed")
        <3>1. ~InTransaction([req[r] EXCEPT !.at = "failed"])
            BY <1>1, FieldsOf DEF IsReq, InTransaction
        <3>2. QED
            BY <1>1, <2>1, <2>2, <3>1, GoOn DEF At
    <2>3. CASE req' = [req EXCEPT ![r] =
                        [req[r] EXCEPT !.at = "alloc", !.attempt = req[r].attempt + 1]]
        <3> DEFINE q == [req[r] EXCEPT !.at = "alloc", !.attempt = req[r].attempt + 1]
        <3>1. IsReq(q)
            BY <1>1 DEF IsReq
        <3>2. Based(q) /\ ~InTransaction(q)
            BY <1>1, FieldsOf DEF IsReq, Based, InTransaction, At
        <3> HIDE DEF q
        <3>3. QED
            BY <1>1, <2>1, <2>3, <3>1, <3>2, Outside DEF q
    <2>4. QED
        BY <1>2, <2>2, <2>3, Zenon DEF Insert
<1>3. CASE k \notin StoredKeys
    <2> DEFINE x == [base |-> req[r].base, key |-> k, next |-> 1]
    <2>1. PICK p \in Projects : ~Exists(p) /\ project' = [project EXCEPT ![p] = x]
        BY <1>3 DEF Insert
    <2>2. Go(r, "done")
        BY <1>3 DEF Insert
    <2>3. IsRow(x) /\ x.base \in Bases
        BY <1>1 DEF IsRow, RowFields, Absent, Based, At
    <2>4. x.key = k
        OBVIOUS
    <2> HIDE DEF x
    <2>5. /\ ProjectInv' /\ project'[p] = x
          /\ \A q \in Projects : q # p => project'[q] = project[q]
        BY <2>1, <2>3, Writes DEF IInv
    <2>6. /\ ReqInv' /\ ~InTransaction(req'[r])
          /\ \A o \in Requests : o # r => req'[o] = req[o]
        BY <1>1, <2>2, Ends DEF At
    <2>7. \A o \in Requests : InTransaction(req[o]) => req[o].project # p
        BY <2>1 DEF IInv, HoldsInv
    <2>8. \A other \in StoredKeys' : other \in StoredKeys \/ other = k
        BY <2>4, <2>5 DEF StoredKeys, Exists
    <2>9. HoldsInv' /\ CommitsInv'
        <3>1. \A o \in Requests : o # r /\ Committing(req[o]) => req[o].key # k
            BY <1>1 DEF KeyFree, Committing, At
        <3>2. QED
            BY <2>5, <2>6, <2>7, <2>8, <3>1, Others
    <2>10. IssuesInv'
        BY <1>1, <2>1, <2>5 DEF IInv, IssuesInv, Exists
    <2>11. UniqueKeys'
        <3>1. \A q \in Projects : Exists(q) /\ project[q].key = k => k = NoKey
            BY <1>3, Stored
        <3>2. QED
            BY <2>4, <2>5, <3>1 DEF IInv, UniqueKeys, Exists
    <2>12. QED
        BY <2>5, <2>6, <2>9, <2>10, <2>11 DEF IInv
<1>4. QED
    BY <1>2, <1>3

\* The key was nobody's when it was written, and is nobody's at the end.
LEMMA CommitKeeps ==
    ASSUME IInv, NEW r \in Requests, Commit(r)
    PROVE  IInv'
<1> DEFINE p == req[r].project
<1> DEFINE k == req[r].key
<1> DEFINE x == [project[p] EXCEPT !.key = k, !.next = project[p].next + 1]
<1> DEFINE i == [project |-> p, key |-> k, number |-> req[r].number]
<1>1. /\ At(r, "feature", "commit") /\ Go(r, "done") /\ issues' = issues \cup {i}
      /\ Committing(req[r]) /\ InTransaction(req[r]) /\ project' = [project EXCEPT ![p] = x]
    <2>1. At(r, "feature", "commit") /\ Go(r, "done") /\ issues' = issues \cup {i}
        BY DEF Commit
    <2>2. project' = [project EXCEPT ![p] = x]
        BY Zenon DEF Commit
    <2>3. QED
        BY <2>1, <2>2 DEF At, Committing, InTransaction
<1>2. p \in Projects
    BY <1>1 DEF IInv, ReqInv, Based, Committing
<1>3. Exists(p) /\ k # NoKey
    BY <1>1 DEF IInv, HoldsInv, Committing
<1>4. project[p].key = k \/ (project[p].key = NoKey /\ k \notin StoredKeys)
    <2>1. HoldsInv /\ InTransaction(req[r]) /\ req[r].at = "commit"
        BY <1>1 DEF IInv, At
    <2>2. QED
        BY <2>1 DEF HoldsInv
<1>5. /\ IsRow(project[p]) /\ project[p].base \in Bases
    BY <1>2, <1>3 DEF IInv, ProjectInv
<1>6. IsRow(x) /\ x.base = project[p].base /\ x.key = k
    BY <1>5 DEF IsRow, RowFields, Absent
<1> HIDE DEF x
<1>7. /\ ProjectInv' /\ project'[p] = x
      /\ \A q \in Projects : q # p => project'[q] = project[q]
    BY <1>1, <1>2, <1>5, <1>6, Writes DEF IInv
<1>8. /\ ReqInv' /\ ~InTransaction(req'[r])
      /\ \A o \in Requests : o # r => req'[o] = req[o]
    BY <1>1, Ends DEF At
<1>9. HoldsInv' /\ CommitsInv'
    <2>1. \A o \in Requests : o # r /\ InTransaction(req[o]) => req[o].project # p
        BY <1>1 DEF IInv, HoldsInv
    <2>2. \A o \in Requests : o # r /\ Committing(req[o]) => req[o].key # k
        BY <1>1 DEF IInv, CommitsInv
    <2>3. \A other \in StoredKeys' : other \in StoredKeys \/ other = k
        BY <1>6, <1>7 DEF StoredKeys, Exists
    <2>4. QED
        BY <1>2, <1>7, <1>8, <2>1, <2>2, <2>3, Others
<1>10. IssuesInv'
    <2>1. ASSUME NEW j \in issues
          PROVE  /\ j.project \in Projects /\ project'[j.project].base # None
                 /\ j.key # NoKey /\ j.key = project'[j.project].key
        BY <1>3, <1>4, <1>6, <1>7 DEF IInv, IssuesInv, Exists
    <2>2. /\ i.project \in Projects /\ project'[i.project].base # None
          /\ i.key # NoKey /\ i.key = project'[i.project].key
        BY <1>2, <1>3, <1>6, <1>7 DEF Exists
    <2> HIDE DEF i
    <2>3. QED
        BY <1>1, <2>1, <2>2 DEF IssuesInv, Exists
<1>11. UniqueKeys'
    <2>1. \A q \in Projects : q # p /\ Exists(q) => project[q].key # k
        BY <1>2, <1>3, <1>4, Stored DEF IInv, UniqueKeys
    <2>2. \A q \in Projects : Exists(q)' <=> Exists(q)
        BY <1>2, <1>6, <1>7 DEF Exists
    <2>3. QED
        BY <1>2, <1>6, <1>7, <2>1, <2>2 DEF IInv, UniqueKeys
<1>12. QED
    BY <1>7, <1>8, <1>9, <1>10, <1>11 DEF IInv

LEMMA RenameKeeps ==
    ASSUME IInv, NEW r \in Requests, Rename(r)
    PROVE  IInv'
<1> DEFINE p == req[r].project
<1>1. /\ At(r, "update", "rename") /\ Free(p, r) /\ issues' = issues
      /\ IsReq(req[r]) /\ Based(req[r])
    BY DEF Rename, IInv, ReqInv
<1>2. CASE ~Exists(p)
    <2>1. Go(r, "failed") /\ UNCHANGED project
        BY <1>2 DEF Rename
    <2>2. ~InTransaction([req[r] EXCEPT !.at = "failed"])
        BY <1>1, FieldsOf DEF IsReq, InTransaction
    <2>3. QED
        BY <1>1, <2>1, <2>2, GoOn DEF At
<1>3. CASE Exists(p) /\ p \notin Projects
    <2>1. Go(r, "done") /\ UNCHANGED project
        BY <1>3 DEF Rename, IInv, ProjectInv
    <2>2. ~InTransaction([req[r] EXCEPT !.at = "done"])
        BY <1>1, FieldsOf DEF IsReq, InTransaction
    <2>3. QED
        BY <1>1, <2>1, <2>2, GoOn DEF At
<1>4. CASE Exists(p) /\ p \in Projects
    <2> DEFINE x == [project[p] EXCEPT !.base = req[r].base]
    <2>1. Go(r, "done") /\ project' = [project EXCEPT ![p] = x]
        BY <1>4 DEF Rename, IInv, ProjectInv
    <2>2. IsRow(project[p]) /\ req[r].base \in Bases
        BY <1>1, <1>4 DEF IInv, ProjectInv, Based, At
    <2>3. IsRow(x) /\ x.base \in Bases /\ x.key = project[p].key
        BY <2>2 DEF IsRow, RowFields, Absent
    <2> HIDE DEF x
    <2>4. /\ ProjectInv' /\ project'[p] = x
          /\ \A q \in Projects : q # p => project'[q] = project[q]
        BY <1>4, <2>1, <2>3, Writes DEF IInv
    <2>5. /\ ReqInv' /\ ~InTransaction(req'[r])
          /\ \A o \in Requests : o # r => req'[o] = req[o]
        BY <1>1, <2>1, Ends DEF At
    <2>6. \A q \in Projects : project'[q].key = project[q].key /\ (Exists(q)' => Exists(q))
        BY <1>4, <2>3, <2>4 DEF Exists
    <2>7. HoldsInv' /\ CommitsInv'
        <3>1. \A o \in Requests : o # r /\ InTransaction(req[o]) => req[o].project # p
            BY <1>1 DEF Free, Holds, At, InTransaction
        <3>2. StoredKeys' \subseteq StoredKeys
            BY <2>6 DEF StoredKeys
        <3>3. QED
            BY <1>4, <2>4, <2>5, <3>1, <3>2, Others
    <2>8. x.base # None
        BY <2>3, ProjectsAssumption
    <2>9. IssuesInv'
        BY <1>1, <2>3, <2>4, <2>8 DEF IInv, IssuesInv, Exists
    <2>10. UniqueKeys'
        BY <2>6 DEF IInv, UniqueKeys
    <2>11. QED
        BY <2>4, <2>5, <2>7, <2>9, <2>10 DEF IInv
<1>5. QED
    BY <1>2, <1>3, <1>4

LEMMA DeleteKeeps ==
    ASSUME IInv, NEW r \in Requests, Delete(r)
    PROVE  IInv'
<1> DEFINE p == req[r].project
<1>1. /\ At(r, "remove", "delete") /\ Free(p, r)
      /\ IsReq(req[r]) /\ Based(req[r])
    BY DEF Delete, IInv, ReqInv
<1>2. CASE ~Exists(p)
    <2>1. Go(r, "failed") /\ UNCHANGED <<project, issues>>
        BY <1>2 DEF Delete
    <2>2. ~InTransaction([req[r] EXCEPT !.at = "failed"])
        BY <1>1, FieldsOf DEF IsReq, InTransaction
    <2>3. QED
        BY <1>1, <2>1, <2>2, GoOn DEF At
<1>3. CASE Exists(p)
    <2>1. /\ Go(r, "done") /\ project' = [project EXCEPT ![p] = Absent]
          /\ issues' = {i \in issues : i.project # p}
        BY <1>3 DEF Delete
    <2>2. IsRow(Absent) /\ Absent.base = None /\ Absent.key = NoKey
        BY DEF IsRow, RowFields, Absent
    <2>3. /\ ProjectInv' /\ \A q \in Projects : q # p => project'[q] = project[q]
          /\ p \in Projects => project'[p] = Absent
        <3>1. CASE p \in Projects
            BY <2>1, <2>2, <3>1, Writes DEF IInv
        <3>2. CASE p \notin Projects
            BY <2>1, <3>2 DEF IInv, ProjectInv, Exists
        <3>3. QED
            BY <3>1, <3>2
    <2>4. /\ ReqInv' /\ ~InTransaction(req'[r])
          /\ \A o \in Requests : o # r => req'[o] = req[o]
        BY <1>1, <2>1, Ends DEF At
    <2>5. \A q \in Projects : Exists(q)' => q # p /\ project'[q] = project[q] /\ Exists(q)
        BY <2>2, <2>3 DEF Exists
    <2>6. \A o \in Requests : o # r /\ InTransaction(req[o]) => req[o].project # p
        BY <1>1 DEF Free, Holds, At, InTransaction
    <2>7. StoredKeys' \subseteq StoredKeys
        BY <2>5 DEF StoredKeys
    <2>8. HoldsInv' /\ CommitsInv'
        <3>1. CASE p \in Projects
            BY <2>3, <2>4, <2>6, <2>7, <3>1, Others
        <3>2. CASE p \notin Projects
            <4>1. UNCHANGED project
                BY <2>1, <3>2 DEF IInv, ProjectInv
            <4>2. HoldsInv'
                BY <2>4, <4>1 DEF IInv, HoldsInv, Exists, StoredKeys
            <4>3. CommitsInv'
                BY <2>4 DEF IInv, CommitsInv, Committing, InTransaction
            <4>4. QED
                BY <4>2, <4>3
        <3>3. QED
            BY <3>1, <3>2
    <2>9. IssuesInv'
        BY <2>1, <2>3 DEF IInv, IssuesInv, Exists
    <2>10. UniqueKeys'
        BY <2>5 DEF IInv, UniqueKeys
    <2>11. QED
        BY <2>3, <2>4, <2>8, <2>9, <2>10 DEF IInv
<1>4. QED
    BY <1>2, <1>3

(***************************************************************************)
(* Every step.                                                              *)
(***************************************************************************)

LEMMA IInvNext == IInv /\ [Next]_vars => IInv'
<1> SUFFICES ASSUME IInv, [Next]_vars PROVE IInv'
    OBVIOUS
<1>1. ASSUME NEW r \in Requests, Step(r)
      PROVE  IInv'
    BY <1>1, AllocateKeeps, InsertKeeps, IncrementKeeps, DeriveKeeps, PersistKeeps, CommitKeeps,
       RenameKeeps, DeleteKeeps, MemberKeeps DEF Step
<1>2. CASE UNCHANGED vars
    <2>1. UNCHANGED <<project, issues, req>>
        BY <1>2 DEF vars
    <2>2. ProjectInv' /\ ReqInv' /\ IssuesInv' /\ UniqueKeys'
        BY <2>1 DEF IInv, ProjectInv, ReqInv, IssuesInv, UniqueKeys, Exists
    <2>3. HoldsInv' /\ CommitsInv'
        BY <2>1 DEF IInv, HoldsInv, CommitsInv, Exists, StoredKeys
    <2>4. QED
        BY <2>2, <2>3 DEF IInv
<1>3. QED
    BY <1>1, <1>2, CreateKeeps, FeatureKeeps, RemoveKeeps, UpdateKeeps, AddMemberKeeps,
       RemoveMemberKeeps DEF Next

\* Projects are created, renamed and deleted and issues of projects without a key given
\* one, all at once: the row lock of the transaction and the unique index on the key keep
\* an issue's key that of its project, and no other's.
THEOREM IssuesGoByProject == Spec => []GoesByProject
<1>1. IInv => GoesByProject
    BY DEF IInv, IssuesInv, UniqueKeys, GoesByProject
<1>2. QED
    BY <1>1, IInvInit, IInvNext, PTL DEF Spec

(***************************************************************************)
(* Who is a member of a project, and what the callers were told.            *)
(***************************************************************************)

\* What a call about members or about a whole project holds: where it looks, and a row that
\* is of the member, if the row is still there.
Served(q) ==
    q.at # "idle" =>
        /\ q.call \in {"remove", "addMember", "removeMember"} => q.project \in Projects
        /\ q.call \in {"addMember", "removeMember"} => q.member \in Members
        /\ q.call = "removeMember" =>
              /\ q.row \in Nat /\ q.row < nextRow
              /\ \A j \in joined :
                    j.row = q.row => j.project = q.project /\ j.member = q.member

\* The ids of rows are not used again, and nobody is a member twice.
JoinedInv ==
    /\ nextRow \in Nat
    /\ joined \subseteq [row : Nat, project : Projects, member : Members]
    /\ \A j \in joined : j.row < nextRow
    /\ \A i, j \in joined : i.row = j.row => i = j
    /\ \A i, j \in joined : i.project = j.project /\ i.member = j.member => i = j

MembersInv ==
    /\ JoinedInv
    /\ \A r \in Requests : Served(req[r])
    /\ balance \in [Projects -> [Members -> Int]]
    /\ RepliesAddUp

\* A step of a call stays in the call and keeps what the call is about.
LEMMA StepFrame ==
    ASSUME ReqInv, NEW r \in Requests, Step(r)
    PROVE  /\ req[r].at # "idle"
           /\ \A o \in Requests : o # r => req'[o] = req[o]
           /\ req'[r].call = req[r].call /\ req'[r].project = req[r].project
           /\ req'[r].member = req[r].member /\ req'[r].row = req[r].row
<1>1. IsReq(req[r]) /\ req = [o \in Requests |-> req[o]]
    BY DEF ReqInv
<1>2. {"at", "call", "project", "member", "row"} \subseteq Fields
    BY FieldsOf
<1>3. ASSUME NEW q, req' = [req EXCEPT ![r] = q],
             q.call = req[r].call /\ q.project = req[r].project,
             q.member = req[r].member /\ q.row = req[r].row
      PROVE  /\ \A o \in Requests : o # r => req'[o] = req[o]
             /\ req'[r].call = req[r].call /\ req'[r].project = req[r].project
             /\ req'[r].member = req[r].member /\ req'[r].row = req[r].row
    BY <1>1, <1>3
<1>4. ASSUME NEW step, Go(r, step)
      PROVE  /\ \A o \in Requests : o # r => req'[o] = req[o]
             /\ req'[r].call = req[r].call /\ req'[r].project = req[r].project
             /\ req'[r].member = req[r].member /\ req'[r].row = req[r].row
    BY <1>1, <1>2, <1>4 DEF Go, IsReq
<1>5. ASSUME NEW k, NEW a, NEW step,
             \/ req' = [req EXCEPT ![r] = [req[r] EXCEPT !.at = step, !.key = k]]
             \/ req' = [req EXCEPT ![r] = [req[r] EXCEPT !.at = step, !.attempt = a]]
             \/ req' = [req EXCEPT ![r] = [req[r] EXCEPT !.number = a, !.key = k, !.at = step]]
      PROVE  /\ \A o \in Requests : o # r => req'[o] = req[o]
             /\ req'[r].call = req[r].call /\ req'[r].project = req[r].project
             /\ req'[r].member = req[r].member /\ req'[r].row = req[r].row
    BY <1>1, <1>2, <1>5 DEF IsReq
<1>6. req[r].at # "idle"
    BY DEF Step, Allocate, Insert, Increment, Derive, Persist, Commit, Rename, Delete, Add,
           DeleteMember, At
<1>7. CASE Allocate(r) \/ Derive(r)
    BY <1>5, <1>6, <1>7 DEF Allocate, Derive
<1>8. CASE Insert(r)
    BY <1>4, <1>5, <1>6, <1>8 DEF Insert
<1>9. CASE Increment(r)
    <2>1. \/ Go(r, "failed")
          \/ \E k, a, step :
                req' = [req EXCEPT ![r] = [req[r] EXCEPT !.number = a, !.key = k, !.at = step]]
        BY <1>9, Zenon DEF Increment
    <2>2. QED
        BY <1>4, <1>5, <1>6, <2>1
<1>10. CASE Persist(r) \/ Commit(r) \/ Rename(r) \/ Delete(r) \/ Add(r) \/ DeleteMember(r)
    BY <1>4, <1>6, <1>10 DEF Persist, Commit, Rename, Delete, Add, DeleteMember
<1>11. QED
    BY <1>7, <1>8, <1>9, <1>10 DEF Step

\* So does the first step, which fixes it.
LEMMA CallFrame ==
    ASSUME ReqInv, NEW r \in Requests, NEW q, req' = [req EXCEPT ![r] = q]
    PROVE  req'[r] = q /\ \A o \in Requests : o # r => req'[o] = req[o]
BY DEF ReqInv

\* The other steps leave the members alone.
LEMMA QuietJoins ==
    ASSUME MembersInv, UNCHANGED <<joined, nextRow, balance>>,
           \A r \in Requests : Served(req'[r])
    PROVE  MembersInv'
BY DEF MembersInv, JoinedInv, Served, RepliesAddUp, RowsOf

\* The rows after an insert: the new one has an id of its own and is the only one of its
\* member.
LEMMA AddJoins ==
    ASSUME MembersInv, ReqInv, NEW r \in Requests, Add(r)
    PROVE  MembersInv'
<1> PICK p \in Projects, m \in Members : p = req[r].project /\ m = req[r].member
    BY DEF MembersInv, Served, Add, At
<1>1. /\ \A o \in Requests : o # r => req'[o] = req[o]
      /\ req'[r].call = "addMember" /\ req'[r].project = p /\ req'[r].member = m
    BY StepFrame DEF Step, Add, At
<1>2. CASE Exists(p) /\ RowsOf(p, m) = {}
    <2> PICK new : new = [row |-> nextRow, project |-> p, member |-> m]
        OBVIOUS
    <2>1. /\ joined' = joined \cup {new} /\ nextRow' = nextRow + 1
          /\ balance' = [balance EXCEPT ![p][m] = @ + 1]
        BY <1>2 DEF Add
    <2>2. /\ nextRow \in Nat
          /\ \A j \in joined : j \in [row : Nat, project : Projects, member : Members]
                                               /\ j.row < nextRow
        BY DEF MembersInv, JoinedInv
    <2>3. \A j \in joined : ~(j.project = p /\ j.member = m)
        BY <1>2 DEF RowsOf
    <2>4. JoinedInv'
        BY <2>1, <2>2, <2>3 DEF MembersInv, JoinedInv
    <2>5. ASSUME NEW o \in Requests PROVE Served(req[o])'
        <3>1. CASE o = r
            BY <1>1, <3>1 DEF Served
        <3>2. CASE o # r
            BY <1>1, <2>1, <2>2, <3>2 DEF Served, MembersInv
        <3>3. QED
            BY <3>1, <3>2
    <2>6. balance' \in [Projects -> [Members -> Int]]
        BY <2>1 DEF MembersInv
    <2>7. ASSUME NEW q \in Projects, NEW n \in Members
          PROVE  balance'[q][n] = IF RowsOf(q, n)' = {} THEN 0 ELSE 1
        <3>1. balance[q][n] = IF RowsOf(q, n) = {} THEN 0 ELSE 1
            BY DEF MembersInv, RepliesAddUp
        <3>2. CASE q = p /\ n = m
            <4>1. new \in RowsOf(q, n)'
                BY <2>1, <3>2 DEF RowsOf
            <4>2. QED
                BY <1>2, <2>1, <3>1, <3>2, <4>1 DEF MembersInv
        <3>3. CASE ~(q = p /\ n = m)
            <4>1. RowsOf(q, n)' = RowsOf(q, n)
                BY <2>1, <3>3 DEF RowsOf
            <4>2. balance'[q][n] = balance[q][n]
                BY <2>1, <3>3 DEF MembersInv
            <4>3. QED
                BY <3>1, <4>1, <4>2
        <3>4. QED
            BY <3>2, <3>3
    <2>8. QED
        BY <2>4, <2>5, <2>6, <2>7 DEF MembersInv, RepliesAddUp
<1>3. CASE ~(Exists(p) /\ RowsOf(p, m) = {})
    <2>1. UNCHANGED <<joined, nextRow, balance>>
        BY <1>3 DEF Add
    <2>2. \A o \in Requests : Served(req'[o])
        BY <1>1 DEF MembersInv, Served
    <2>3. QED
        BY <2>1, <2>2, QuietJoins
<1>4. QED
    BY <1>2, <1>3

\* The one row of the member goes, or it was gone and nobody is told that it went now.
LEMMA DeleteMemberJoins ==
    ASSUME MembersInv, ReqInv, NEW r \in Requests, DeleteMember(r)
    PROVE  MembersInv'
<1> PICK p \in Projects, m \in Members : p = req[r].project /\ m = req[r].member
    BY DEF MembersInv, Served, DeleteMember, At
<1> PICK hit : hit = {j \in joined : j.row = req[r].row}
    OBVIOUS
<1>1. /\ \A o \in Requests : o # r => req'[o] = req[o]
      /\ req'[r].call = "removeMember" /\ req'[r].project = p /\ req'[r].member = m
      /\ req'[r].row = req[r].row /\ req[r].call = "removeMember" /\ req[r].at # "idle"
    BY StepFrame DEF Step, DeleteMember, At
<1>2. joined' = joined \ hit /\ nextRow' = nextRow
    BY DEF DeleteMember
<1>3. JoinedInv'
    BY <1>2 DEF MembersInv, JoinedInv
<1>4. \A o \in Requests : Served(req[o])'
    BY <1>1, <1>2 DEF MembersInv, Served
<1>5. CASE hit = {}
    <2>1. balance' = balance /\ joined' = joined
        BY <1>2, <1>5 DEF DeleteMember
    <2>2. QED
        BY <1>3, <1>4, <2>1 DEF MembersInv, RepliesAddUp, RowsOf
<1>6. CASE hit # {}
    <2>1. balance' = [balance EXCEPT ![p][m] = @ - 1]
        BY <1>6 DEF DeleteMember
    <2>2. PICK j \in joined : j \in hit /\ j.project = p /\ j.member = m
        BY <1>1, <1>6 DEF MembersInv, Served
    <2>3. balance' \in [Projects -> [Members -> Int]]
        BY <2>1 DEF MembersInv
    <2>4. ASSUME NEW q \in Projects, NEW n \in Members
          PROVE  balance'[q][n] = IF RowsOf(q, n)' = {} THEN 0 ELSE 1
        <3>1. balance[q][n] = IF RowsOf(q, n) = {} THEN 0 ELSE 1
            BY DEF MembersInv, RepliesAddUp
        <3>2. CASE q = p /\ n = m
            <4>1. j \in RowsOf(q, n)
                BY <2>2, <3>2 DEF RowsOf
            <4>2. RowsOf(q, n)' = {}
                BY <1>2, <2>2, <3>2 DEF RowsOf, MembersInv, JoinedInv
            <4>3. QED
                BY <2>1, <3>1, <3>2, <4>1, <4>2 DEF MembersInv
        <3>3. CASE ~(q = p /\ n = m)
            <4>1. \A i \in hit : i.project = p /\ i.member = m
                BY <1>1 DEF MembersInv, Served
            <4>2. RowsOf(q, n)' = RowsOf(q, n)
                BY <1>2, <3>3, <4>1 DEF RowsOf
            <4>3. balance'[q][n] = balance[q][n]
                BY <2>1, <3>3 DEF MembersInv
            <4>4. QED
                BY <3>1, <4>2, <4>3
        <3>4. QED
            BY <3>2, <3>3
    <2>5. QED
        BY <1>3, <1>4, <2>3, <2>4 DEF MembersInv, RepliesAddUp
<1>7. QED
    BY <1>5, <1>6

\* With the project everything about its members goes.
LEMMA DeleteJoins ==
    ASSUME MembersInv, ReqInv, NEW r \in Requests, Delete(r)
    PROVE  MembersInv'
<1> PICK p \in Projects : p = req[r].project
    BY DEF MembersInv, Served, Delete, At
<1>1. /\ \A o \in Requests : o # r => req'[o] = req[o]
      /\ req'[r].call = "remove" /\ req'[r].project = p
    BY StepFrame DEF Step, Delete, At
<1>2. CASE Exists(p)
    <2>1. /\ joined' = {j \in joined : j.project # p} /\ nextRow' = nextRow
          /\ balance' = [balance EXCEPT ![p] = [m \in Members |-> 0]]
        BY <1>2 DEF Delete
    <2>2. JoinedInv'
        BY <2>1 DEF MembersInv, JoinedInv
    <2>3. \A o \in Requests : Served(req[o])'
        BY <1>1, <2>1 DEF MembersInv, Served
    <2>4. balance' \in [Projects -> [Members -> Int]]
        BY <2>1 DEF MembersInv
    <2>5. ASSUME NEW q \in Projects, NEW m \in Members
          PROVE  balance'[q][m] = IF RowsOf(q, m)' = {} THEN 0 ELSE 1
        <3>1. CASE q = p
            BY <2>1, <3>1 DEF RowsOf, MembersInv
        <3>2. CASE q # p
            <4>1. RowsOf(q, m)' = RowsOf(q, m)
                BY <2>1, <3>2 DEF RowsOf
            <4>2. QED
                BY <2>1, <3>2, <4>1 DEF MembersInv, RepliesAddUp
        <3>3. QED
            BY <3>1, <3>2
    <2>6. QED
        BY <2>2, <2>3, <2>4, <2>5 DEF MembersInv, RepliesAddUp
<1>3. CASE ~Exists(p)
    <2>1. UNCHANGED <<joined, nextRow, balance>>
        BY <1>3 DEF Delete
    <2>2. \A o \in Requests : Served(req'[o])
        BY <1>1 DEF MembersInv, Served
    <2>3. QED
        BY <2>1, <2>2, QuietJoins
<1>4. QED
    BY <1>2, <1>3

LEMMA MembersInvStep ==
    ASSUME IInv, MembersInv, [Next]_vars
    PROVE  MembersInv'
<1>0. ReqInv /\ \A r \in Requests : IsReq(req[r])
    BY DEF IInv, ReqInv
<1>1. ASSUME NEW r \in Requests, Step(r), ~Add(r), ~DeleteMember(r), ~Delete(r)
      PROVE  MembersInv'
    <2>1. UNCHANGED <<joined, nextRow, balance>>
        BY <1>1 DEF Step, Allocate, Insert, Increment, Derive, Persist, Commit, Rename
    <2>2. \A o \in Requests : Served(req'[o])
        BY <1>0, <1>1, StepFrame DEF MembersInv, Served
    <2>3. QED
        BY <2>1, <2>2, QuietJoins
<1>2. ASSUME NEW r \in Requests, NEW q, req' = [req EXCEPT ![r] = q], Served(q),
             UNCHANGED <<joined, nextRow, balance>>
      PROVE  MembersInv'
    BY <1>0, <1>2, CallFrame, QuietJoins DEF MembersInv
<1>3. ASSUME NEW r \in Requests, NEW b \in Bases, Create(r, b) PROVE MembersInv'
    <2>1. PICK q : q = [req[r] EXCEPT !.at = "alloc", !.call = "create", !.base = b]
        OBVIOUS
    <2>2. Served(q)
        BY <1>0, <2>1, FieldsOf DEF IsReq, Served
    <2>3. QED
        BY <1>2, <1>3, <2>1, <2>2 DEF Create
<1>4. ASSUME NEW r \in Requests, NEW p \in Projects, Feature(r, p) PROVE MembersInv'
    <2>1. PICK q : q = [req[r] EXCEPT !.at = "increment", !.call = "feature", !.project = p,
                                      !.base = project[p].base]
        OBVIOUS
    <2>2. Served(q)
        BY <1>0, <2>1, FieldsOf DEF IsReq, Served
    <2>3. QED
        BY <1>2, <1>4, <2>1, <2>2 DEF Feature
<1>5. ASSUME NEW r \in Requests, NEW p \in Projects, NEW b \in Bases, Update(r, p, b)
      PROVE  MembersInv'
    <2>1. PICK q : q = [req[r] EXCEPT !.at = "rename", !.call = "update", !.project = p,
                                      !.base = b]
        OBVIOUS
    <2>2. Served(q)
        BY <1>0, <2>1, FieldsOf DEF IsReq, Served
    <2>3. QED
        BY <1>2, <1>5, <2>1, <2>2 DEF Update
<1>6. ASSUME NEW r \in Requests, NEW p \in Projects, Remove(r, p) PROVE MembersInv'
    <2>1. PICK q : q = [req[r] EXCEPT !.at = "delete", !.call = "remove", !.project = p]
        OBVIOUS
    <2>2. Served(q)
        BY <1>0, <2>1, FieldsOf DEF IsReq, Served
    <2>3. QED
        BY <1>2, <1>6, <2>1, <2>2 DEF Remove
<1>7. ASSUME NEW r \in Requests, NEW p \in Projects, NEW m \in Members, AddMember(r, p, m)
      PROVE  MembersInv'
    <2>1. PICK q : q = [req[r] EXCEPT !.at = "add", !.call = "addMember", !.project = p,
                                      !.member = m]
        OBVIOUS
    <2>2. Served(q)
        BY <1>0, <2>1, FieldsOf DEF IsReq, Served
    <2>3. QED
        BY <1>2, <1>7, <2>1, <2>2 DEF AddMember
<1>8. ASSUME NEW r \in Requests, NEW p \in Projects, NEW m \in Members, RemoveMember(r, p, m)
      PROVE  MembersInv'
    <2>1. PICK j \in RowsOf(p, m) :
             req' = [req EXCEPT ![r] = [req[r] EXCEPT !.at = "delete", !.call = "removeMember",
                                                      !.project = p, !.member = m, !.row = j.row]]
        BY <1>8 DEF RemoveMember
    <2>2. PICK q : q = [req[r] EXCEPT !.at = "delete", !.call = "removeMember",
                                      !.project = p, !.member = m, !.row = j.row]
        OBVIOUS
    <2>3. /\ j.row \in Nat /\ j.row < nextRow
          /\ \A i \in joined : i.row = j.row => i.project = p /\ i.member = m
        BY DEF RowsOf, MembersInv, JoinedInv
    <2>4. /\ q.call = "removeMember" /\ q.project = p /\ q.member = m /\ q.row = j.row
        BY <1>0, <2>2, FieldsOf DEF IsReq
    <2>5. Served(q)
        BY <2>3, <2>4 DEF Served
    <2>6. QED
        BY <1>2, <1>8, <2>1, <2>2, <2>5 DEF RemoveMember
<1>9. CASE UNCHANGED vars
    BY <1>9, QuietJoins DEF vars, MembersInv
<1>10. QED
    BY <1>0, <1>1, <1>3, <1>4, <1>5, <1>6, <1>7, <1>8, <1>9, AddJoins, DeleteMemberJoins,
       DeleteJoins DEF Next

LEMMA MembersInvInit == Init => MembersInv
BY DEF Init, MembersInv, JoinedInv, Served, Idle, RepliesAddUp, RowsOf

\* However additions and removals of members and removals of projects overlap, the callers'
\* answers add up to the memberships: the unique index lets one addition in, and a removal
\* that finds its row gone is told so.
THEOREM MembersAddUp == Spec => []RepliesAddUp
<1>1. IInv /\ MembersInv => RepliesAddUp
    BY DEF MembersInv
<1>2. QED
    BY <1>1, IInvInit, IInvNext, MembersInvInit, MembersInvStep, PTL DEF Spec

(***************************************************************************)
(* A create that loses its key tries again.                                 *)
(***************************************************************************)

\* What is free among more names than are used exists, and the least of it is allocated.
LEMMA LeastOfNaturals ==
    ASSUME NEW S \in SUBSET Nat, S # {}
    PROVE  Min(S) \in S
<1>1. PICK x \in S : \A y \in S : ~(<<y, x>> \in OpToRel(<, Nat))
    BY NatLessThanWellFounded, WFMin
<1>2. \A y \in S : <<y, x>> \in Nat \X Nat /\ (<<y, x>> \in OpToRel(<, Nat) <=> y < x)
    BY DEF OpToRel
<1>3. \A y \in S : x <= y
    <2>1. ASSUME NEW y \in S PROVE ~(y < x)
        BY <1>1, <1>2
    <2>2. QED
        BY <2>1
<1>4. QED
    BY <1>3 DEF Min

LEMMA StoredFinite ==
    ASSUME IInv
    PROVE  IsFiniteSet(StoredKeys)
<1> DEFINE T == {project[p].key : p \in Projects}
<1> DEFINE f == [p \in Projects |-> project[p].key]
<1>1. f \in Surjection(Projects, T)
    BY DEF Surjection
<1>2. IsFiniteSet(T)
    BY <1>1, FS_Surjection, ProjectsAssumption
<1>3. StoredKeys \in SUBSET T
    BY DEF StoredKeys
<1>4. QED
    BY <1>2, <1>3, FS_Subset

LEMMA NextFreeIsFree ==
    ASSUME NEW b, NEW used, IsFiniteSet(used)
    PROVE  /\ NextFreeKey(b, used) \notin used
           /\ \E s \in Nat : NextFreeKey(b, used) = [base |-> b, suffix |-> s]
<1> DEFINE n == Cardinality(used)
<1> DEFINE suffixes == {0} \cup 2..(n + 2)
<1> DEFINE free == {s \in suffixes : [base |-> b, suffix |-> s] \notin used}
<1>1. n \in Nat
    BY FS_CardinalityType
<1> HIDE DEF n
<1>2. IsFiniteSet(suffixes) /\ Cardinality(suffixes) = n + 2
    <2>1. IsFiniteSet(2..(n + 2)) /\ Cardinality(2..(n + 2)) = n + 1
        BY <1>1, FS_Interval
    <2>2. 0 \notin 2..(n + 2) /\ suffixes = (2..(n + 2)) \cup {0}
        BY <1>1
    <2>3. /\ IsFiniteSet((2..(n + 2)) \cup {0})
          /\ Cardinality((2..(n + 2)) \cup {0}) = Cardinality(2..(n + 2)) + 1
        BY <2>1, <2>2, FS_AddElement
    <2>4. QED
        BY <1>1, <2>1, <2>2, <2>3
<1>3. free # {}
    <2> SUFFICES ASSUME \A s \in suffixes : [base |-> b, suffix |-> s] \in used PROVE FALSE
        OBVIOUS
    <2> DEFINE f == [s \in suffixes |-> [base |-> b, suffix |-> s]]
    <2>1. f \in [suffixes -> used]
        OBVIOUS
    <2>2. Cardinality(used) < Cardinality(suffixes)
        BY <1>1, <1>2 DEF n
    <2> HIDE DEF suffixes
    <2>3. PICK x, y \in suffixes : x # y /\ f[x] = f[y]
        <3> HIDE DEF f
        <3>1. QED
            BY <1>2, <2>1, <2>2, FS_PigeonHole
    <2>4. QED
        BY <2>3
<1>4. free \in SUBSET Nat
    BY <1>1
<1>5. Min(free) \in free
    BY <1>3, <1>4, LeastOfNaturals
<1>6. NextFreeKey(b, used) = [base |-> b, suffix |-> Min(free)]
    BY DEF NextFreeKey, n
<1>7. QED
    BY <1>4, <1>5, <1>6

\* As many keys were taken under the eyes of a create as it has made attempts, and one more
\* when the key it is about to insert is no longer free.
Tries(q, n) ==
    /\ q.at = "idle" => q.attempt = 0
    /\ q.call = "create" /\ q.at \in {"alloc", "insert"} =>
          q.attempt \in 0..(Attempts - 1) /\ n >= q.attempt
    /\ q.call = "create" /\ q.at = "insert" /\ q.key \in StoredKeys => n >= q.attempt + 1
    /\ q.call = "create" /\ q.at = "failed" => n >= Attempts

TriesInv ==
    /\ taken \in [Requests -> Nat]
    /\ \A r \in Requests : Tries(req[r], taken[r])

\* A step takes no key, or counts the one it takes.
Counted(r) == (StoredKeys' \subseteq StoredKeys /\ taken' = taken) \/ CountKey(r)

LEMMA CountedTries ==
    ASSUME TriesInv, NEW r \in Requests, Counted(r),
           \A o \in Requests : o # r => req'[o] = req[o], Tries(req[r], taken[r])'
    PROVE  TriesInv'
<1>1. taken' \in [Requests -> Nat]
    BY DEF TriesInv, Counted, CountKey
<1>2. ASSUME NEW o \in Requests, o # r PROVE Tries(req[o], taken[o])'
    <2>1. req'[o] = req[o] /\ taken[o] \in Nat /\ Tries(req[o], taken[o])
        BY <1>2 DEF TriesInv
    <2>2. CASE StoredKeys' \subseteq StoredKeys /\ taken' = taken
        BY <2>1, <2>2 DEF Tries
    <2>3. CASE CountKey(r)
        <3>1. taken'[o] = IF req[o].call = "create" /\ req[o].at \in {"alloc", "insert"}
                          THEN taken[o] + 1 ELSE taken[o]
            BY <1>2, <2>3 DEF CountKey
        <3>2. QED
            BY <2>1, <3>1, ProjectsAssumption DEF Tries
    <2>4. QED
        BY <2>2, <2>3 DEF Counted
<1>3. QED
    BY <1>1, <1>2 DEF TriesInv

\* The insert of a create and the commit of an issue are the steps that take keys.
LEMMA KeysAreCounted ==
    ASSUME IInv, NEW r \in Requests, Step(r)
    PROVE  Counted(r)
<1>1. CASE Allocate(r) \/ Increment(r) \/ Derive(r) \/ Persist(r) \/ Add(r) \/ DeleteMember(r)
    BY <1>1 DEF Allocate, Increment, Derive, Persist, Add, DeleteMember, Counted, StoredKeys, Exists
<1>2. CASE Insert(r)
    <2>1. CountKey(r) \/ UNCHANGED <<project, taken>>
        BY <1>2 DEF Insert
    <2>2. QED
        BY <2>1 DEF Counted, StoredKeys, Exists
<1>3. CASE Commit(r)
    <2> PICK p : p = req[r].project
        OBVIOUS
    <2>1. /\ req[r].call = "feature" /\ req[r].at = "commit"
          /\ p \in Projects /\ Exists(p)
          /\ project[p].key # NoKey => project[p].key = req[r].key
        BY <1>3 DEF Commit, At, IInv, HoldsInv, InTransaction, ReqInv, Based
    <2>2. CASE project[p].key = NoKey
        BY <1>3, <2>2 DEF Commit, Counted
    <2>3. CASE project[p].key # NoKey
        <3>1. taken' = taken
            BY <1>3, <2>3 DEF Commit
        <3>2. project' = [project EXCEPT ![p] = [project[p] EXCEPT !.key = req[r].key,
                                                         !.next = project[p].next + 1]]
            BY <1>3, Zenon DEF Commit
        <3>3. \A q \in Projects : /\ project'[q].key = project[q].key
                                  /\ project'[q].base = project[q].base
            BY <2>1, <2>3, <3>2 DEF IInv, ProjectInv, IsRow, RowFields, Absent
        <3>4. QED
            BY <3>1, <3>3 DEF Counted, StoredKeys, Exists
    <2>4. QED
        BY <2>2, <2>3
<1>4. CASE Rename(r)
    <2> PICK p : p = req[r].project
        OBVIOUS
    <2>1. taken' = taken
        BY <1>4 DEF Rename
    <2>2. CASE Exists(p)
        <3>1. project' = [project EXCEPT ![p] = [project[p] EXCEPT !.base = req[r].base]]
            BY <1>4, <2>2, Zenon DEF Rename
        <3>2. \A q \in Projects : /\ project'[q].key = project[q].key
                                  /\ Exists(q)' => Exists(q)
            BY <2>2, <3>1 DEF IInv, ProjectInv, IsRow, RowFields, Absent, Exists
        <3>3. QED
            BY <2>1, <3>2 DEF Counted, StoredKeys
    <2>3. CASE ~Exists(p)
        BY <1>4, <2>1, <2>3 DEF Rename, Counted, StoredKeys, Exists
    <2>4. QED
        BY <2>2, <2>3
<1>5. CASE Delete(r)
    <2> PICK p : p = req[r].project
        OBVIOUS
    <2>1. /\ taken' = taken
          /\ project' = [project EXCEPT ![p] = Absent] \/ project' = project
        BY <1>5 DEF Delete
    <2>2. \A q \in Projects : Exists(q)' => Exists(q) /\ project'[q] = project[q]
        BY <2>1 DEF IInv, ProjectInv, Exists, Absent
    <2>3. QED
        BY <2>1, <2>2 DEF Counted, StoredKeys
<1>6. QED
    BY <1>1, <1>2, <1>3, <1>4, <1>5 DEF Step

LEMMA AllocateTries ==
    ASSUME IInv, TriesInv, NEW r \in Requests, Allocate(r)
    PROVE  Tries(req[r], taken[r])'
<1> PICK k : k = NextFreeKey(req[r].base, StoredKeys)
    OBVIOUS
<1>1. k \notin StoredKeys
    BY StoredFinite, NextFreeIsFree
<1>2. /\ At(r, "create", "alloc") /\ UNCHANGED <<project, taken>>
      /\ req' = [req EXCEPT ![r] = [req[r] EXCEPT !.at = "insert", !.key = k]]
    BY DEF Allocate
<1>3. /\ req'[r].at = "insert" /\ req'[r].key = k /\ req'[r].call = "create"
      /\ req'[r].attempt = req[r].attempt
    <2>1. /\ IsReq(req[r]) /\ req = [o \in Requests |-> req[o]] /\ req[r].call = "create"
        BY <1>2 DEF IInv, ReqInv, At
    <2>2. req'[r] = [req[r] EXCEPT !.at = "insert", !.key = k]
        BY <1>2, <2>1
    <2>3. QED
        BY <2>1, <2>2, FieldsOf DEF IsReq
<1>4. StoredKeys' = StoredKeys
    BY <1>2 DEF StoredKeys, Exists
<1>5. QED
    BY <1>1, <1>2, <1>3, <1>4 DEF TriesInv, Tries, At

LEMMA InsertTries ==
    ASSUME IInv, TriesInv, NEW r \in Requests, Insert(r)
    PROVE  Tries(req[r], taken[r])'
<1>1. /\ At(r, "create", "insert") /\ IsReq(req[r]) /\ req = [o \in Requests |-> req[o]]
      /\ req[r].attempt \in 0..(Attempts - 1) /\ taken[r] \in Nat
    BY DEF Insert, IInv, ReqInv, TriesInv, Tries, At
<1>2. CASE Go(r, "done")
    <2>1. req'[r].at = "done"
        BY <1>1, <1>2, FieldsOf DEF Go, IsReq
    <2>2. QED
        BY <2>1 DEF Tries
<1>3. CASE ~Go(r, "done")
    <2>1. taken' = taken /\ taken[r] >= req[r].attempt + 1
        BY <1>1, <1>3 DEF Insert, TriesInv, Tries, At
    <2>2. CASE req[r].attempt = Attempts - 1
        <3>1. Go(r, "failed")
            BY <1>3, <2>2 DEF Insert
        <3>2. req'[r].at = "failed"
            BY <1>1, <3>1, FieldsOf DEF Go, IsReq
        <3>3. QED
            BY <1>1, <2>1, <2>2, <3>2, ProjectsAssumption DEF Tries
    <2>3. CASE req[r].attempt # Attempts - 1
        <3>1. req' = [req EXCEPT ![r] = [req[r] EXCEPT !.at = "alloc",
                                                       !.attempt = req[r].attempt + 1]]
            BY <1>3, <2>3, Zenon DEF Insert
        <3>2. req'[r].at = "alloc" /\ req'[r].attempt = req[r].attempt + 1
            BY <1>1, <3>1, FieldsOf DEF IsReq
        <3>3. QED
            BY <1>1, <2>1, <2>3, <3>2, ProjectsAssumption DEF Tries
    <2>4. QED
        BY <2>2, <2>3
<1>4. QED
    BY <1>2, <1>3

\* The other calls make no attempts.
LEMMA OtherTries ==
    ASSUME IInv, NEW r \in Requests, Step(r), ~Allocate(r), ~Insert(r)
    PROVE  Tries(req[r], taken[r])'
<1>0. IsReq(req[r]) /\ req = [o \in Requests |-> req[o]] /\ ReqInv
    BY DEF IInv, ReqInv
<1>1. req'[r].call # "create"
    <2>1. req[r].call # "create"
        BY DEF Step, Increment, Derive, Persist, Commit, Rename, Delete, Add, DeleteMember, At
    <2>2. QED
        BY <1>0, <2>1, StepFrame
<1>2. ASSUME NEW step, Go(r, step) PROVE req'[r].at = step
    BY <1>0, <1>2, FieldsOf DEF Go, IsReq
<1>3. ASSUME NEW k, NEW a, NEW step \in {"derive", "commit", "persist"},
             \/ req' = [req EXCEPT ![r] = [req[r] EXCEPT !.number = a, !.key = k, !.at = step]]
             \/ req' = [req EXCEPT ![r] = [req[r] EXCEPT !.at = step, !.key = k]]
      PROVE  req'[r].at # "idle"
    BY <1>0, <1>3, FieldsOf DEF IsReq
<1>4. CASE Increment(r)
    <2>1. \/ Go(r, "failed")
          \/ \E k, a, step : /\ step \in {"derive", "commit", "persist"}
                             /\ req' = [req EXCEPT ![r] =
                                   [req[r] EXCEPT !.number = a, !.key = k, !.at = step]]
        <3>1. CASE ~Exists(req[r].project)
            BY <1>4, <3>1 DEF Increment
        <3>2. CASE Exists(req[r].project)
            <4> PICK step : step = IF project[req[r].project].key = NoKey THEN "derive" ELSE "commit"
                OBVIOUS
            <4>1. req' = [req EXCEPT ![r] =
                     [req[r] EXCEPT !.number = project[req[r].project].next,
                                    !.key = project[req[r].project].key, !.at = step]]
                BY <1>4, <3>2 DEF Increment
            <4>2. QED
                BY <4>1
        <3>3. QED
            BY <3>1, <3>2
    <2>2. req'[r].at # "idle"
        BY <1>2, <1>3, <2>1
    <2>3. QED
        BY <1>1, <2>2 DEF Tries
<1>5. CASE Derive(r)
    <2>1. req'[r].at # "idle"
        BY <1>3, <1>5 DEF Derive
    <2>2. QED
        BY <1>1, <2>1 DEF Tries
<1>6. CASE Persist(r) \/ Commit(r) \/ Rename(r) \/ Delete(r) \/ Add(r) \/ DeleteMember(r)
    <2>1. \E step \in {"failed", "commit", "done"} : Go(r, step)
        BY <1>6 DEF Persist, Commit, Rename, Delete, Add, DeleteMember
    <2>2. req'[r].at # "idle"
        BY <1>2, <2>1
    <2>3. QED
        BY <1>1, <2>2 DEF Tries
<1>7. QED
    BY <1>4, <1>5, <1>6 DEF Step

LEMMA TriesInvStep ==
    ASSUME IInv, TriesInv, [Next]_vars
    PROVE  TriesInv'
<1>0. ReqInv /\ \A r \in Requests : IsReq(req[r])
    BY DEF IInv, ReqInv
<1>1. ASSUME NEW r \in Requests, Step(r) PROVE TriesInv'
    <2>1. Tries(req[r], taken[r])'
        BY <1>1, AllocateTries, InsertTries, OtherTries
    <2>2. QED
        BY <1>0, <1>1, <2>1, KeysAreCounted, StepFrame, CountedTries
<1>2. ASSUME NEW r \in Requests, NEW q, req' = [req EXCEPT ![r] = q], q.at # "idle",
             q.call = "create" => q.at = "alloc" /\ q.attempt = req[r].attempt,
             req[r].at = "idle", UNCHANGED <<project, taken>>
      PROVE  TriesInv'
    <2>1. req'[r] = q /\ \A o \in Requests : o # r => req'[o] = req[o]
        BY <1>0, <1>2, CallFrame
    <2>2. taken[r] \in Nat /\ req[r].attempt = 0
        BY <1>2 DEF TriesInv, Tries
    <2>3. Tries(req[r], taken[r])'
        BY <1>2, <2>1, <2>2, ProjectsAssumption DEF Tries
    <2>4. Counted(r)
        BY <1>2 DEF Counted, StoredKeys, Exists
    <2>5. QED
        BY <2>1, <2>3, <2>4, CountedTries
<1>3. ASSUME NEW r \in Requests, NEW b \in Bases, Create(r, b) PROVE TriesInv'
    <2>1. PICK q : q = [req[r] EXCEPT !.at = "alloc", !.call = "create", !.base = b]
        OBVIOUS
    <2>2. q.at = "alloc" /\ q.attempt = req[r].attempt
        BY <1>0, <2>1, FieldsOf DEF IsReq
    <2>3. QED
        BY <1>2, <1>3, <2>1, <2>2 DEF Create
<1>4. ASSUME NEW r \in Requests, NEW p \in Projects, Feature(r, p) PROVE TriesInv'
    <2>1. PICK q : q = [req[r] EXCEPT !.at = "increment", !.call = "feature", !.project = p,
                                      !.base = project[p].base]
        OBVIOUS
    <2>2. q.at # "idle" /\ q.call # "create"
        BY <1>0, <2>1, FieldsOf DEF IsReq
    <2>3. QED
        BY <1>2, <1>4, <2>1, <2>2 DEF Feature
<1>5. ASSUME NEW r \in Requests, NEW p \in Projects, NEW b \in Bases, Update(r, p, b)
      PROVE  TriesInv'
    <2>1. PICK q : q = [req[r] EXCEPT !.at = "rename", !.call = "update", !.project = p,
                                      !.base = b]
        OBVIOUS
    <2>2. q.at # "idle" /\ q.call # "create"
        BY <1>0, <2>1, FieldsOf DEF IsReq
    <2>3. QED
        BY <1>2, <1>5, <2>1, <2>2 DEF Update
<1>6. ASSUME NEW r \in Requests, NEW p \in Projects, Remove(r, p) PROVE TriesInv'
    <2>1. PICK q : q = [req[r] EXCEPT !.at = "delete", !.call = "remove", !.project = p]
        OBVIOUS
    <2>2. q.at # "idle" /\ q.call # "create"
        BY <1>0, <2>1, FieldsOf DEF IsReq
    <2>3. QED
        BY <1>2, <1>6, <2>1, <2>2 DEF Remove
<1>7. ASSUME NEW r \in Requests, NEW p \in Projects, NEW m \in Members, AddMember(r, p, m)
      PROVE  TriesInv'
    <2>1. PICK q : q = [req[r] EXCEPT !.at = "add", !.call = "addMember", !.project = p,
                                      !.member = m]
        OBVIOUS
    <2>2. q.at # "idle" /\ q.call # "create"
        BY <1>0, <2>1, FieldsOf DEF IsReq
    <2>3. QED
        BY <1>2, <1>7, <2>1, <2>2 DEF AddMember
<1>8. ASSUME NEW r \in Requests, NEW p \in Projects, NEW m \in Members, RemoveMember(r, p, m)
      PROVE  TriesInv'
    <2>1. PICK row :
             req' = [req EXCEPT ![r] = [req[r] EXCEPT !.at = "delete", !.call = "removeMember",
                                                      !.project = p, !.member = m, !.row = row]]
        BY <1>8 DEF RemoveMember
    <2>2. PICK q : q = [req[r] EXCEPT !.at = "delete", !.call = "removeMember",
                                      !.project = p, !.member = m, !.row = row]
        OBVIOUS
    <2>3. q.at # "idle" /\ q.call # "create"
        BY <1>0, <2>2, FieldsOf DEF IsReq
    <2>4. QED
        BY <1>2, <1>8, <2>1, <2>2, <2>3 DEF RemoveMember
<1>9. CASE UNCHANGED vars
    BY <1>9 DEF vars, TriesInv, Tries, StoredKeys, Exists
<1>10. QED
    BY <1>1, <1>3, <1>4, <1>5, <1>6, <1>7, <1>8, <1>9 DEF Next

LEMMA TriesInvInit == Init => TriesInv
BY ProjectsAssumption DEF Init, TriesInv, Tries, Idle

\* The loser of a race for a key gets the next one: a create is refused only when as many
\* keys were taken while it ran as it made attempts, for every number of attempts.
THEOREM LoserTriesAgain == Spec => []LoserRetries
<1>1. TriesInv => LoserRetries
    BY DEF TriesInv, Tries, LoserRetries, At
<1>2. QED
    BY <1>1, IInvInit, IInvNext, TriesInvInit, TriesInvStep, PTL DEF Spec

(***************************************************************************)
(* The type invariant.                                                      *)
(***************************************************************************)

ProjectRow == [base : Bases \cup {None}, key : Keys, next : Nat]
Steps == {"idle", "alloc", "insert", "increment", "derive", "persist", "commit",
          "rename", "delete", "add", "done", "failed"}
Request == [at : Steps, call : Calls \cup {None}, project : Projects \cup {None},
            base : Bases \cup {None}, key : Keys, number : Nat, attempt : 0..Attempts - 1,
            member : Members \cup {None}, row : Nat]

\* A project counts its issues from one, and so does what a transaction has read of it.
RowsTyped ==
    /\ project \in [Projects -> ProjectRow]
    /\ \A p \in Projects : Exists(p) => project[p].next # 0

ReqTyped ==
    /\ req \in [Requests -> Request]
    /\ \A r \in Requests : InTransaction(req[r]) => req[r].number # 0

IssuesTyped == \A i \in issues : i.project \in Projects /\ i.key \in Keys /\ i.number \in Nat \ {0}

\* The keys taken while a create runs are taken by requests that have ended.
Ended == {r \in Requests : req[r].at = "done"}
TakenInv == \A r \in Requests : taken[r] \in Nat /\ taken[r] <= Cardinality(Ended)

TypedInv == RowsTyped /\ ReqTyped /\ IssuesTyped /\ TakenInv /\ nextRow # 0

LEMMA KeyTyped == NoKey \in Keys /\ \A b \in Bases, s \in Nat : [base |-> b, suffix |-> s] \in Keys
BY DEF Keys

LEMMA TypedInit == Init => TypedInv
<1> SUFFICES ASSUME Init PROVE TypedInv
    OBVIOUS
<1>1. PICK b \in [Legacy -> Bases] :
         project = [p \in Projects |-> IF p \in Legacy
                       THEN [base |-> b[p], key |-> NoKey, next |-> 1] ELSE Absent]
    BY DEF Init
<1>2. RowsTyped
    <2>1. ASSUME NEW p \in Projects
          PROVE  project[p] \in ProjectRow /\ (Exists(p) => project[p].next # 0)
        <3>1. CASE p \in Legacy
            BY <1>1, <3>1, KeyTyped DEF ProjectRow
        <3>2. CASE p \notin Legacy
            BY <1>1, <3>2, KeyTyped DEF ProjectRow, Absent, Exists
        <3>3. QED
            BY <3>1, <3>2
    <2>2. QED
        BY <1>1, <2>1 DEF RowsTyped
<1>3. ReqTyped
    <2>1. Idle \in Request
        BY KeyTyped, ProjectsAssumption DEF Idle, Request, Steps
    <2>2. QED
        BY <2>1 DEF Init, ReqTyped, Idle, InTransaction
<1>4. TakenInv
    <2>1. IsFiniteSet(Ended)
        BY FS_Subset, ProjectsAssumption DEF Ended
    <2>2. Cardinality(Ended) \in Nat
        BY <2>1, FS_CardinalityType
    <2>3. \A r \in Requests : taken[r] = 0
        BY DEF Init
    <2>4. QED
        BY <2>2, <2>3 DEF TakenInv
<1>5. IssuesTyped /\ nextRow # 0
    BY DEF Init, IssuesTyped
<1>6. QED
    BY <1>2, <1>3, <1>4, <1>5 DEF TypedInv

\* Requests.
LEMMA BecomesTyped ==
    ASSUME ReqTyped, NEW r \in Requests, NEW q \in Request, InTransaction(q) => q.number # 0,
           req' = [req EXCEPT ![r] = q]
    PROVE  ReqTyped'
BY DEF ReqTyped

LEMMA GoTyped ==
    ASSUME ReqTyped, NEW r \in Requests, NEW step \in Steps, Go(r, step),
           step \in {"derive", "persist", "commit"} => InTransaction(req[r])
    PROVE  ReqTyped'
<1> DEFINE q == [req[r] EXCEPT !.at = step]
<1>1. req[r] \in Request /\ req' = [req EXCEPT ![r] = q]
    BY DEF ReqTyped, Go
<1>2. q \in Request /\ q.at = step /\ q.number = req[r].number
    BY <1>1 DEF Request
<1> HIDE DEF q
<1>3. InTransaction(q) => q.number # 0
    BY <1>2 DEF ReqTyped, InTransaction
<1>4. QED
    BY <1>1, <1>2, <1>3, BecomesTyped

LEMMA FreeTyped ==
    ASSUME IInv, NEW r \in Requests, req[r].at # "idle", req[r].call \in {"create", "feature"}
    PROVE  NextFreeKey(req[r].base, StoredKeys) \in Keys
<1>1. req[r].base \in Bases
    BY DEF IInv, ReqInv, Based
<1>2. PICK s \in Nat : NextFreeKey(req[r].base, StoredKeys) = [base |-> req[r].base, suffix |-> s]
    BY StoredFinite, NextFreeIsFree
<1>3. QED
    BY <1>1, <1>2, KeyTyped

LEMMA StepTyped ==
    ASSUME IInv, RowsTyped, ReqTyped, NEW r \in Requests, Step(r)
    PROVE  ReqTyped'
<1>1. req[r] \in Request
    BY DEF ReqTyped
<1>2. CASE Allocate(r) \/ Derive(r)
    <2> DEFINE k == NextFreeKey(req[r].base, StoredKeys)
    <2>1. PICK step \in {"insert", "persist"} :
              /\ req' = [req EXCEPT ![r] = [req[r] EXCEPT !.at = step, !.key = k]]
              /\ step = "persist" => InTransaction(req[r])
        BY <1>2 DEF Allocate, Derive, At, InTransaction
    <2>2. k \in Keys
        BY <1>2, FreeTyped DEF Allocate, Derive, At
    <2> HIDE DEF k
    <2> DEFINE q == [req[r] EXCEPT !.at = step, !.key = k]
    <2>3. q \in Request /\ q.at = step /\ q.number = req[r].number
        BY <1>1, <2>1, <2>2 DEF Request, Steps
    <2>4. InTransaction(q) => q.number # 0
        <3> HIDE DEF q
        <3>1. QED
            BY <2>1, <2>3 DEF ReqTyped, InTransaction
    <2>5. QED
        BY <2>1, <2>3, <2>4, BecomesTyped
<1>3. CASE Insert(r)
    <2>1. CASE \E step \in {"done", "failed"} : Go(r, step)
        BY <2>1, GoTyped DEF Steps
    <2>2. CASE /\ req[r].attempt # Attempts - 1
               /\ req' = [req EXCEPT ![r] = [req[r] EXCEPT !.at = "alloc",
                                                           !.attempt = req[r].attempt + 1]]
        <3> DEFINE q == [req[r] EXCEPT !.at = "alloc", !.attempt = req[r].attempt + 1]
        <3>1. req[r].attempt + 1 \in 0..Attempts - 1
            <4>1. req[r].attempt \in 0..Attempts - 1
                BY <1>1 DEF Request
            <4>2. QED
                BY <2>2, <4>1, ProjectsAssumption
        <3>2. q \in Request /\ q.at = "alloc"
            BY <1>1, <3>1 DEF Request, Steps
        <3> HIDE DEF q
        <3>3. ~InTransaction(q)
            BY <3>2 DEF InTransaction
        <3>4. QED
            BY <2>2, <3>2, <3>3, BecomesTyped DEF q
    <2>3. QED
        BY <1>3, <2>1, <2>2 DEF Insert
<1>4. CASE Increment(r)
    <2> DEFINE p == req[r].project
    <2>1. p \in Projects
        BY <1>4 DEF Increment, At, IInv, ReqInv, Based
    <2>2. CASE ~Exists(p)
        <3>1. Go(r, "failed")
            BY <1>4, <2>2 DEF Increment
        <3>2. QED
            BY <3>1, GoTyped DEF Steps
    <2>3. CASE Exists(p)
        <3> DEFINE step == IF project[p].key = NoKey THEN "derive" ELSE "commit"
                   q == [req[r] EXCEPT !.number = project[p].next, !.key = project[p].key,
                                       !.at = step]
        <3>1. req' = [req EXCEPT ![r] = q]
            BY <1>4, <2>3 DEF Increment
        <3>2. project[p].next \in Nat \ {0} /\ project[p].key \in Keys
            BY <2>1, <2>3 DEF RowsTyped, ProjectRow
        <3>3. step \in Steps
            BY DEF Steps
        <3> HIDE DEF step, p
        <3>4. q \in Request /\ q.number = project[p].next
            BY <1>1, <3>2, <3>3 DEF Request
        <3> HIDE DEF q
        <3>5. QED
            BY <3>1, <3>2, <3>4, BecomesTyped
    <2>4. QED
        BY <2>2, <2>3
<1>5. CASE Persist(r)
    <2>1. Go(r, "commit") \/ Go(r, "failed")
        BY <1>5 DEF Persist
    <2>2. InTransaction(req[r])
        BY <1>5 DEF Persist, At, InTransaction
    <2>3. QED
        BY <2>1, <2>2, GoTyped DEF Steps
<1>6. CASE Commit(r) \/ Rename(r) \/ Delete(r) \/ Add(r) \/ DeleteMember(r)
    <2>1. Go(r, "done") \/ Go(r, "failed")
        BY <1>6 DEF Commit, Rename, Delete, Add, DeleteMember
    <2>2. QED
        BY <2>1, GoTyped DEF Steps
<1>7. QED
    BY <1>2, <1>3, <1>4, <1>5, <1>6 DEF Step

CallStep(r) ==
    \/ \E b \in Bases : Create(r, b)
    \/ \E p \in Projects : Feature(r, p) \/ Remove(r, p)
    \/ \E p \in Projects, b \in Bases : Update(r, p, b)
    \/ \E p \in Projects, m \in Members : AddMember(r, p, m) \/ RemoveMember(r, p, m)

LEMMA CallTyped ==
    ASSUME MembersInv, RowsTyped, ReqTyped, NEW r \in Requests, CallStep(r)
    PROVE  ReqTyped' /\ req'[r].at # "done"
<1>1. req[r] \in Request /\ req \in [Requests -> Request]
    BY DEF ReqTyped
<1>2. ASSUME NEW q \in Request, q.at \in {"alloc", "increment", "rename", "delete", "add"},
             req' = [req EXCEPT ![r] = q]
      PROVE  ReqTyped' /\ req'[r].at # "done"
    <2>1. ~InTransaction(q)
        BY <1>2 DEF InTransaction
    <2>2. QED
        BY <1>1, <1>2, <2>1, BecomesTyped
<1>3. ASSUME NEW b \in Bases, Create(r, b) PROVE ReqTyped' /\ req'[r].at # "done"
    <2> DEFINE q == [req[r] EXCEPT !.at = "alloc", !.call = "create", !.base = b]
    <2>1. q \in Request /\ q.at = "alloc" /\ req' = [req EXCEPT ![r] = q]
        BY <1>1, <1>3 DEF Create, Request, Steps
    <2> HIDE DEF q
    <2>2. QED
        BY <1>2, <2>1
<1>4. ASSUME NEW p \in Projects, Feature(r, p) PROVE ReqTyped' /\ req'[r].at # "done"
    <2> DEFINE q == [req[r] EXCEPT !.at = "increment", !.call = "feature", !.project = p,
                                   !.base = project[p].base]
    <2>1. project[p].base \in Bases \cup {None}
        BY DEF RowsTyped, ProjectRow
    <2>2. q \in Request /\ q.at = "increment" /\ req' = [req EXCEPT ![r] = q]
        BY <1>1, <1>4, <2>1 DEF Feature, Request, Steps
    <2> HIDE DEF q
    <2>3. QED
        BY <1>2, <2>2
<1>5. ASSUME NEW p \in Projects, Remove(r, p) PROVE ReqTyped' /\ req'[r].at # "done"
    <2> DEFINE q == [req[r] EXCEPT !.at = "delete", !.call = "remove", !.project = p]
    <2>1. q \in Request /\ q.at = "delete" /\ req' = [req EXCEPT ![r] = q]
        BY <1>1, <1>5 DEF Remove, Request, Steps
    <2> HIDE DEF q
    <2>2. QED
        BY <1>2, <2>1
<1>6. ASSUME NEW p \in Projects, NEW b \in Bases, Update(r, p, b)
      PROVE  ReqTyped' /\ req'[r].at # "done"
    <2> DEFINE q == [req[r] EXCEPT !.at = "rename", !.call = "update", !.project = p, !.base = b]
    <2>1. q \in Request /\ q.at = "rename" /\ req' = [req EXCEPT ![r] = q]
        BY <1>1, <1>6 DEF Update, Request, Steps
    <2> HIDE DEF q
    <2>2. QED
        BY <1>2, <2>1
<1>7. ASSUME NEW p \in Projects, NEW m \in Members, AddMember(r, p, m)
      PROVE  ReqTyped' /\ req'[r].at # "done"
    <2> DEFINE q == [req[r] EXCEPT !.at = "add", !.call = "addMember", !.project = p, !.member = m]
    <2>1. q \in Request /\ q.at = "add" /\ req' = [req EXCEPT ![r] = q]
        BY <1>1, <1>7 DEF AddMember, Request, Steps
    <2> HIDE DEF q
    <2>2. QED
        BY <1>2, <2>1
<1>8. ASSUME NEW p \in Projects, NEW m \in Members, RemoveMember(r, p, m)
      PROVE  ReqTyped' /\ req'[r].at # "done"
    <2>1. PICK j \in RowsOf(p, m) :
             req' = [req EXCEPT ![r] = [req[r] EXCEPT !.at = "delete", !.call = "removeMember",
                                            !.project = p, !.member = m, !.row = j.row]]
        BY <1>1, <1>8 DEF RemoveMember
    <2>2. j.row \in Nat /\ "removeMember" \in Calls
        BY <1>8 DEF RowsOf, MembersInv, JoinedInv, RemoveMember
    <2> DEFINE q == [req[r] EXCEPT !.at = "delete", !.call = "removeMember",
                                   !.project = p, !.member = m, !.row = j.row]
    <2>3. q \in Request /\ q.at = "delete"
        BY <1>1, <2>2 DEF Request, Steps
    <2> HIDE DEF q
    <2>4. QED
        BY <1>2, <2>1, <2>3 DEF q
<1>9. QED
    BY <1>3, <1>4, <1>5, <1>6, <1>7, <1>8 DEF CallStep

\* Rows and issues.
LEMMA RowsNext ==
    ASSUME IInv, RowsTyped, ReqTyped, IssuesTyped, NEW r \in Requests, Step(r)
    PROVE  RowsTyped' /\ IssuesTyped'
<1> DEFINE q == req[r]
           p == q.project
<1>1. q \in Request /\ IsReq(q) /\ Based(q)
    BY DEF ReqTyped, IInv, ReqInv
<1>2. ASSUME NEW x, NEW row \in ProjectRow, row.base # None => row.next # 0,
             project' = [project EXCEPT ![x] = row]
      PROVE  RowsTyped'
    BY <1>2 DEF RowsTyped, Exists
<1>3. CASE UNCHANGED <<project, issues>>
    BY <1>3 DEF RowsTyped, IssuesTyped, Exists
<1>4. CASE Insert(r)
    <2>1. q.base \in Bases /\ q.key \in Keys /\ UNCHANGED issues
        BY <1>1, <1>4 DEF Insert, At, Based, Request
    <2> DEFINE new == [base |-> q.base, key |-> q.key, next |-> 1]
    <2>2. new \in ProjectRow /\ new.next # 0
        BY <2>1 DEF ProjectRow
    <2>3. RowsTyped'
        <3>1. CASE UNCHANGED project
            BY <3>1 DEF RowsTyped, Exists
        <3>2. UNCHANGED project \/ \E x \in Projects : project' = [project EXCEPT ![x] = new]
            BY <1>4 DEF Insert
        <3> HIDE DEF new
        <3>3. QED
            BY <1>2, <2>2, <3>1, <3>2
    <2>4. QED
        BY <2>1, <2>3 DEF IssuesTyped
<1>5. CASE Commit(r)
    <2>1. /\ q.key \in Keys /\ q.number \in Nat \ {0} /\ p \in Projects
        BY <1>1, <1>5 DEF Commit, At, Based, Request, ReqTyped, InTransaction
    <2>2. project[p] \in ProjectRow
        BY <2>1 DEF RowsTyped
    <2>3. project[p].next \in Nat /\ project[p].next + 1 \in Nat /\ project[p].next + 1 # 0
        BY <2>2 DEF ProjectRow
    <2> DEFINE n == project[p].next + 1
               row == [project[p] EXCEPT !.key = q.key, !.next = n]
    <2>4. row \in ProjectRow /\ row.next # 0
        <3>1. n \in Nat /\ n # 0
            BY <2>3
        <3> HIDE DEF n
        <3>2. QED
            BY <2>1, <2>2, <3>1 DEF ProjectRow
    <2>5. project' = [project EXCEPT ![p] = row]
        BY <1>5, Zenon DEF Commit
    <2> HIDE DEF row, p
    <2>6. RowsTyped'
        BY <1>2, <2>4, <2>5
    <2>7. issues' = issues \cup {[project |-> p, key |-> q.key, number |-> q.number]}
        BY <1>5 DEF Commit, p
    <2>8. IssuesTyped'
        BY <2>1, <2>7 DEF IssuesTyped
    <2>9. QED
        BY <2>6, <2>8
<1>6. CASE Rename(r)
    <2>1. q.base \in Bases
        BY <1>1, <1>6 DEF Rename, At, Based
    <2>2. UNCHANGED issues
        BY <1>6 DEF Rename
    <2>3. CASE Exists(p) /\ p \in Projects
        <3> DEFINE row == [project[p] EXCEPT !.base = q.base]
        <3>1. project[p] \in ProjectRow /\ project[p].next # 0
            BY <2>3 DEF RowsTyped
        <3>2. row \in ProjectRow /\ row.next # 0
            BY <2>1, <3>1 DEF ProjectRow
        <3>3. project' = [project EXCEPT ![p] = row]
            BY <1>6, <2>3, Zenon DEF Rename
        <3> HIDE DEF row, p
        <3>4. QED
            BY <1>2, <2>2, <3>2, <3>3 DEF IssuesTyped
    <2>4. CASE UNCHANGED project
        BY <2>2, <2>4, <1>3
    <2>5. p \in Projects \/ UNCHANGED project
        BY <1>1, <1>6 DEF Rename, At, Based, RowsTyped
    <2>6. QED
        BY <1>6, <2>3, <2>4, <2>5 DEF Rename
<1>7. CASE Delete(r)
    <2>1. Absent \in ProjectRow /\ Absent.base = None
        BY KeyTyped DEF Absent, ProjectRow
    <2>2. issues' \subseteq issues /\ (UNCHANGED project \/ project' = [project EXCEPT ![p] = Absent])
        BY <1>7 DEF Delete
    <2>3. RowsTyped'
        <3> HIDE DEF p
        <3>1. CASE UNCHANGED project
            BY <3>1 DEF RowsTyped, Exists
        <3>2. CASE project' = [project EXCEPT ![p] = Absent]
            BY <1>2, <2>1, <3>2
        <3>3. QED
            BY <2>2, <3>1, <3>2
    <2>4. QED
        BY <2>2, <2>3 DEF IssuesTyped
<1>8. CASE Allocate(r) \/ Increment(r) \/ Derive(r) \/ Persist(r) \/ Add(r) \/ DeleteMember(r)
    <2>1. UNCHANGED <<project, issues>>
        BY <1>8 DEF Allocate, Increment, Derive, Persist, Add, DeleteMember
    <2>2. QED
        BY <1>3, <2>1
<1>9. QED
    BY <1>4, <1>5, <1>6, <1>7, <1>8 DEF Step

\* Keys taken.
LEMMA TakenNext ==
    ASSUME TakenInv, NEW r \in Requests, req[r].at # "done",
           \A o \in Requests : o # r => req'[o] = req[o],
           \/ UNCHANGED taken
           \/ CountKey(r) /\ req'[r].at = "done"
    PROVE  TakenInv'
<1>1. IsFiniteSet(Ended) /\ IsFiniteSet(Ended') /\ IsFiniteSet(Ended \cup {r})
    <2>1. Ended \subseteq Requests /\ Ended' \subseteq Requests /\ Ended \cup {r} \subseteq Requests
        BY DEF Ended
    <2>2. QED
        BY <2>1, FS_Subset, ProjectsAssumption
<1>2. Cardinality(Ended) \in Nat /\ Cardinality(Ended') \in Nat
    BY <1>1, FS_CardinalityType
<1>3. Ended \subseteq Ended' /\ r \notin Ended
    BY DEF Ended
<1>4. CASE UNCHANGED taken
    <2>1. Cardinality(Ended) <= Cardinality(Ended')
        BY <1>1, <1>3, FS_Subset
    <2>2. QED
        BY <1>2, <1>4, <2>1 DEF TakenInv
<1>5. CASE CountKey(r) /\ req'[r].at = "done"
    <2>1. Ended' = Ended \cup {r}
        BY <1>5 DEF Ended
    <2>2. Cardinality(Ended') = Cardinality(Ended) + 1
        BY <1>1, <1>3, <2>1, FS_AddElement
    <2>3. \A o \in Requests : taken'[o] = taken[o] \/ taken'[o] = taken[o] + 1
        BY <1>5 DEF CountKey
    <2>4. ASSUME NEW o \in Requests PROVE taken'[o] \in Nat /\ taken'[o] <= Cardinality(Ended')
        <3>1. taken[o] \in Nat /\ taken[o] <= Cardinality(Ended)
            BY DEF TakenInv
        <3>2. QED
            BY <1>2, <2>2, <2>3, <3>1
    <2>5. QED
        BY <2>4 DEF TakenInv
<1>6. QED
    BY <1>4, <1>5

LEMMA TypedNext ==
    ASSUME IInv, MembersInv, TypedInv, [Next]_vars
    PROVE  TypedInv'
<1>1. ReqInv /\ RowsTyped /\ ReqTyped /\ IssuesTyped /\ TakenInv /\ nextRow \in Nat /\ nextRow # 0
    BY DEF IInv, TypedInv, MembersInv, JoinedInv
<1>2. ASSUME NEW r \in Requests, Step(r) PROVE TypedInv'
    <2>1. RowsTyped' /\ ReqTyped' /\ IssuesTyped'
        BY <1>1, <1>2, StepTyped, RowsNext
    <2>2. req[r].at # "done"
        BY <1>2 DEF Step, Allocate, Insert, Increment, Derive, Persist, Commit, Rename, Delete,
           Add, DeleteMember, At
    <2>3. \A o \in Requests : o # r => req'[o] = req[o]
        BY <1>1, <1>2, StepFrame
    <2>4. UNCHANGED taken \/ (CountKey(r) /\ Go(r, "done"))
        BY <1>2 DEF Step, Allocate, Insert, Increment, Derive, Persist, Commit, Rename, Delete,
           Add, DeleteMember
    <2>5. Go(r, "done") => req'[r].at = "done"
        <3>1. req[r] \in Request /\ req \in [Requests -> Request]
            BY <1>1 DEF ReqTyped
        <3>2. QED
            BY <3>1 DEF Go, Request
    <2>6. TakenInv'
        BY <1>1, <2>2, <2>3, <2>4, <2>5, TakenNext
    <2>7. nextRow' # 0
        <3>1. nextRow' = nextRow \/ nextRow' = nextRow + 1
            BY <1>2 DEF Step, Allocate, Insert, Increment, Derive, Persist, Commit, Rename,
               Delete, Add, DeleteMember
        <3>2. QED
            BY <1>1, <3>1
    <2>8. QED
        BY <2>1, <2>6, <2>7 DEF TypedInv
<1>3. ASSUME NEW r \in Requests, CallStep(r) PROVE TypedInv'
    <2>1. ReqTyped' /\ req'[r].at # "done"
        BY <1>1, <1>3, CallTyped
    <2>2. UNCHANGED <<project, issues, nextRow, taken>>
        BY <1>3 DEF CallStep, Create, Feature, Remove, Update, AddMember, RemoveMember
    <2>3. req[r].at # "done" /\ \E q : req' = [req EXCEPT ![r] = q]
        BY <1>3, Zenon DEF CallStep, Create, Feature, Remove, Update, AddMember, RemoveMember
    <2>4. \A o \in Requests : o # r => req'[o] = req[o]
        BY <1>1, <2>3, CallFrame
    <2>5. TakenInv'
        BY <1>1, <2>2, <2>3, <2>4, TakenNext
    <2>6. RowsTyped' /\ IssuesTyped' /\ nextRow' # 0
        BY <1>1, <2>2 DEF RowsTyped, IssuesTyped, Exists
    <2>7. QED
        BY <2>1, <2>5, <2>6 DEF TypedInv
<1>4. CASE UNCHANGED vars
    <2>1. Ended' = Ended
        BY <1>4 DEF vars, Ended
    <2>2. QED
        BY <1>1, <1>4, <2>1 DEF vars, TypedInv, RowsTyped, ReqTyped, IssuesTyped, TakenInv, Exists
<1>5. QED
    BY <1>2, <1>3, <1>4, Zenon DEF Next, CallStep

\* Every row and every request stays what it is: keys are made of a base and a number, issues
\* are counted from one and are of a project that may be in the table, a create makes no more
\* attempts than it may, and sees no more keys taken than there are requests to take them.
THEOREM ProjectsTyped == Spec => []TypeOK
<1>1. IInv /\ MembersInv /\ TypedInv => TypeOK
    <2> SUFFICES ASSUME IInv, MembersInv, TypedInv PROVE TypeOK
        OBVIOUS
    <2>1. /\ project \in [Projects -> ProjectRow] /\ req \in [Requests -> Request]
          /\ IssuesTyped /\ nextRow \in Nat \ {0}
        BY DEF TypedInv, RowsTyped, ReqTyped, MembersInv, JoinedInv
    <2>2. \A j \in joined : j.row < nextRow /\ j.project \in Projects /\ j.member \in Members
        BY DEF MembersInv, JoinedInv
    <2>3. ASSUME NEW r \in Requests PROVE taken[r] <= Cardinality(Requests)
        <3>1. Ended \subseteq Requests
            BY DEF Ended
        <3>2. IsFiniteSet(Ended) /\ Cardinality(Ended) <= Cardinality(Requests)
            BY <3>1, FS_Subset, ProjectsAssumption
        <3>3. Cardinality(Ended) \in Nat /\ Cardinality(Requests) \in Nat
            BY <3>2, FS_CardinalityType, ProjectsAssumption
        <3>4. taken[r] \in Nat /\ taken[r] <= Cardinality(Ended)
            BY DEF TypedInv, TakenInv
        <3>5. QED
            BY <3>2, <3>3, <3>4
    <2>4. QED
        BY <2>1, <2>2, <2>3 DEF TypeOK, ProjectRow, Request, Steps, IssuesTyped
<1>2. QED
    BY <1>1, IInvInit, IInvNext, MembersInvInit, MembersInvStep,
       TypedInit, TypedNext, PTL DEF Spec
=============================================================================
