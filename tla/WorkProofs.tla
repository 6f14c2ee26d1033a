----------------------------- MODULE WorkProofs -----------------------------
(***************************************************************************)
(* The records of the work, for any number of requests and rows.            *)
(*   Releases: no version and no link twice, and notes made of merged work. *)
(*   Lifecycle: what is kept with a status fits it, and who is told.        *)
(*   IssueRecords: a bug is in the project of its feature.                  *)
(*   Of each of them, and of Projects, the type invariant.                  *)
(***************************************************************************)
EXTENDS MCWork, Sequences, FiniteSetTheorems, TLAPS

ReleaseRow == [version : Versions \cup {None}, notes : SUBSET PRs, by : Requests \cup {None}]
LinkRow == [release : Releases, feature : Features, row : Nat]
PRRow == [feature : Features \cup {None}, merged : BOOLEAN, summary : BOOLEAN]
Steps == {"idle", "read", "synthesize", "check", "write", "answer", "feature", "existing",
          "delete", "done", "linked", "conflict", "missing", "failed"}
Request == [at : Steps, call : AllCalls \cup {None}, release : Releases \cup {None},
            version : Versions \cup {None}, features : SUBSET Features,
            repeated : BOOLEAN, notes : SUBSET PRs, link : Nat]

(***************************************************************************)
(* The inductive invariant.                                                 *)
(***************************************************************************)

ReleaseInv == release \in [Releases -> ReleaseRow]
LinksInv == links \subseteq LinkRow
PRInv == features \subseteq Features /\ pr \in [PRs -> PRRow]
ReqInv == req \in [Requests -> Request]
UsedInv == used \in [releases : SUBSET Releases, links : Nat]

\* Adding a feature is of a release.
OfRelease == \A r \in Requests : req[r].call = "addFeature" => req[r].release \in Releases

\* A new release is none that was there: its number was given out to nobody.
GivenOut ==
    /\ \A x \in Releases : Exists(x) => x \in used.releases
    /\ \A l \in links : l.release \in used.releases

Tables == ReleaseInv /\ LinksInv /\ UsedInv /\ GivenOut /\ UniqueVersion /\ LinkedOnce

\* Of a merged pull request the feature that it is under is known ...
MergedKnown ==
    \A p \in PRs : pr[p].merged /\ pr[p].feature # None => <<pr[p].feature, p>> \in eligible

\* ... to a create, whose notes are of its features ...
Backed(r) == \A p \in req[r].notes : \E f \in req[r].features : <<f, p>> \in eligible

HeldNotes ==
    \A r \in Requests :
        /\ req[r].at = "idle" => req[r].notes = {}
        /\ req[r].call = "create" => Backed(r)
        /\ At(r, "create", "read") => req[r].features # {}

\* ... and which keeps them once it has written a release.
WrittenBy ==
    \A x \in Releases : release[x].notes # {} =>
        release[x].by \in Requests /\ req[release[x].by].at # "idle"

NotesInv == MergedKnown /\ HeldNotes /\ WrittenBy /\ NotesMerged

IInv == Tables /\ PRInv /\ ReqInv /\ OfRelease /\ NotesInv

LEMMA IInvInit == Init => IInv
<1> SUFFICES ASSUME Init PROVE IInv
    OBVIOUS
<1>1. ReleaseInv /\ LinksInv /\ PRInv /\ UsedInv
    BY DEF Init, Absent, ReleaseInv, ReleaseRow, LinksInv, PRInv, PRRow, UsedInv
<1>2. ReqInv
    <2>1. Idle \in Request
        BY DEF Idle, Request, Steps
    <2>2. QED
        BY <2>1 DEF Init, ReqInv
<1>3. OfRelease
    BY ReleasesAssumption DEF Init, Idle, OfRelease, AllCalls
<1>4. GivenOut /\ UniqueVersion /\ LinkedOnce
    BY DEF Init, Absent, GivenOut, UniqueVersion, LinkedOnce, Exists
<1>5. MergedKnown /\ WrittenBy /\ NotesMerged
    BY DEF Init, Absent, MergedKnown, WrittenBy, NotesMerged
<1>6. HeldNotes
    BY ReleasesAssumption DEF Init, Idle, HeldNotes, Backed, At, AllCalls
<1>7. QED
    BY <1>1, <1>2, <1>3, <1>4, <1>5, <1>6 DEF IInv, Tables, NotesInv

(***************************************************************************)
(* Requests.                                                                *)
(***************************************************************************)

\* A step of r changes the row of r alone.
Only(r) == \A q \in Requests : q # r => req'[q] = req[q]

LEMMA GoOn ==
    ASSUME ReqInv, NEW r \in Requests, NEW step \in Steps, Go(r, step)
    PROVE  /\ ReqInv' /\ Only(r) /\ req'[r].at = step
           /\ req'[r].call = req[r].call /\ req'[r].release = req[r].release
           /\ req'[r].features = req[r].features /\ req'[r].notes = req[r].notes
BY DEF ReqInv, Request, Go, Only

LEMMA BecomesOne ==
    ASSUME ReqInv, NEW r \in Requests, NEW q \in Request, req' = [req EXCEPT ![r] = q]
    PROVE  ReqInv' /\ Only(r) /\ req'[r] = q
BY DEF ReqInv, Only

\* What each call's first step leaves in its request.
LEMMA CreateCalled ==
    ASSUME ReqInv, NEW r \in Requests, NEW v \in Versions, NEW fs \in SUBSET Features,
           NEW repeated \in BOOLEAN, NEW ai \in BOOLEAN, Create(r, v, fs, repeated, ai)
    PROVE  /\ ReqInv' /\ Only(r) /\ req'[r].call = "create" /\ req'[r].at # "idle"
           /\ req'[r].features = fs /\ req'[r].notes = req[r].notes
           /\ req'[r].at = "read" => fs # {}
<1> DEFINE at == IF ~(fs \subseteq features) THEN "missing"
                 ELSE IF ai /\ fs # {} THEN "read" ELSE "check"
<1> DEFINE q == [req[r] EXCEPT !.call = "create", !.version = v, !.features = fs,
                               !.repeated = repeated, !.at = at]
<1>1. req' = [req EXCEPT ![r] = q]
    BY DEF Create
<1>2. req[r] \in Request
    BY DEF ReqInv
<1>3. at \in Steps \ {"idle"} /\ (at = "read" => fs # {})
    BY DEF Steps
<1> HIDE DEF at
<1>4. /\ q \in Request /\ q.call = "create" /\ q.at = at /\ q.features = fs
      /\ q.notes = req[r].notes
    BY <1>2, <1>3 DEF Request, AllCalls
<1>5. QED
    BY <1>1, <1>3, <1>4, BecomesOne

LEMMA NotesCalled ==
    ASSUME ReqInv, NEW r \in Requests, NEW fs \in SUBSET Features, Notes(r, fs)
    PROVE  ReqInv' /\ Only(r) /\ req'[r].call = "notes" /\ req'[r].at # "idle"
<1> DEFINE at == IF fs \subseteq features THEN "read" ELSE "missing"
<1> DEFINE q == [req[r] EXCEPT !.call = "notes", !.features = fs, !.at = at]
<1>1. req' = [req EXCEPT ![r] = q]
    BY DEF Notes
<1>2. req[r] \in Request
    BY DEF ReqInv
<1>3. at \in Steps \ {"idle"}
    BY DEF Steps
<1> HIDE DEF at
<1>4. q \in Request /\ q.call = "notes" /\ q.at = at
    BY <1>2, <1>3 DEF Request, AllCalls
<1>5. QED
    BY <1>1, <1>3, <1>4, BecomesOne

LEMMA UpdateCalled ==
    ASSUME ReqInv, NEW r \in Requests, NEW x \in Releases, NEW v \in Versions, Update(r, x, v)
    PROVE  ReqInv' /\ Only(r) /\ req'[r].call = "update" /\ req'[r].at # "idle"
<1> DEFINE at == IF v = release[x].version THEN "write" ELSE "check"
<1> DEFINE q == [req[r] EXCEPT !.call = "update", !.release = x, !.version = v, !.at = at]
<1>1. req' = [req EXCEPT ![r] = q]
    BY DEF Update
<1>2. req[r] \in Request
    BY DEF ReqInv
<1>3. at \in Steps \ {"idle"}
    BY DEF Steps
<1> HIDE DEF at
<1>4. q \in Request /\ q.call = "update" /\ q.at = at
    BY <1>2, <1>3 DEF Request, AllCalls
<1>5. QED
    BY <1>1, <1>3, <1>4, BecomesOne

LEMMA RemoveCalled ==
    ASSUME ReqInv, NEW r \in Requests, NEW x \in Releases, Remove(r, x)
    PROVE  ReqInv' /\ Only(r) /\ req'[r].call = "remove" /\ req'[r].at # "idle"
<1> DEFINE q == [req[r] EXCEPT !.call = "remove", !.release = x, !.at = "delete"]
<1>1. req' = [req EXCEPT ![r] = q]
    BY DEF Remove
<1>2. q \in Request /\ q.call = "remove" /\ q.at = "delete"
    BY ZenonT(60) DEF ReqInv, Request, AllCalls, Steps
<1>3. QED
    BY <1>1, <1>2, BecomesOne

LEMMA FindReleaseCalled ==
    ASSUME ReqInv, NEW r \in Requests, NEW call \in Calls, NEW x \in Releases,
           NEW f \in Features, FindRelease(r, call, x, f)
    PROVE  /\ ReqInv' /\ Only(r) /\ req'[r].call = call /\ req'[r].release = x
           /\ call # "create" /\ req'[r].at # "idle"
<1> DEFINE at == IF call = "addFeature" THEN "feature" ELSE "existing"
<1> DEFINE q == [req[r] EXCEPT !.call = call, !.release = x, !.features = {f}, !.at = at]
<1>1. req' = [req EXCEPT ![r] = q] /\ call \in {"addFeature", "removeFeature"}
    BY DEF FindRelease
<1>2. req[r] \in Request
    BY DEF ReqInv
<1>3. at \in Steps \ {"idle"}
    BY DEF Steps
<1> HIDE DEF at
<1>4. q \in Request /\ q.call = call /\ q.at = at /\ q.release = x
    BY <1>1, <1>2, <1>3 DEF Request, AllCalls
<1>5. QED
    BY <1>1, <1>3, <1>4, BecomesOne

\* The other steps that write more than where the request stands.
LEMMA ReadMergedReq ==
    ASSUME ReqInv, NEW r \in Requests, ReadMerged(r)
    PROVE  /\ ReqInv' /\ Only(r) /\ req'[r].at \notin {"idle", "read"}
           /\ req'[r].call = req[r].call /\ req'[r].release = req[r].release
           /\ req'[r].features = req[r].features
           /\ req'[r].notes = {p \in Merged(req[r].features) : pr[p].summary}
<1> DEFINE found == Merged(req[r].features)
<1> DEFINE given == {p \in found : pr[p].summary}
<1> DEFINE next == IF found # {} THEN "synthesize"
                   ELSE IF req[r].call = "create" THEN "check" ELSE "done"
<1> DEFINE q == [req[r] EXCEPT !.notes = given, !.at = next]
<1>1. req' = [req EXCEPT ![r] = q]
    BY DEF ReadMerged
<1>2. req[r] \in Request
    BY DEF ReqInv
<1>3. next \in Steps \ {"idle", "read"}
    BY DEF Steps
<1>4. given \in SUBSET PRs
    BY DEF Merged
<1> HIDE DEF next, given
<1>5. /\ q \in Request /\ q.call = req[r].call /\ q.release = req[r].release
      /\ q.features = req[r].features /\ q.at = next /\ q.notes = given
    BY <1>2, <1>3, <1>4 DEF Request
<1>6. QED
    BY <1>1, <1>3, <1>5, BecomesOne DEF given

LEMMA SynthesizeReq ==
    ASSUME ReqInv, NEW r \in Requests, Synthesize(r)
    PROVE  /\ ReqInv' /\ Only(r) /\ req'[r].at \notin {"idle", "read"}
           /\ req'[r].call = req[r].call /\ req'[r].release = req[r].release
           /\ req'[r].features = req[r].features /\ req'[r].notes \subseteq req[r].notes
<1> DEFINE next == IF req[r].call = "create" THEN "check" ELSE "done"
<1>1. PICK made \in {{}, req[r].notes} :
         req' = [req EXCEPT ![r] = [req[r] EXCEPT !.notes = made, !.at = next]]
    BY DEF Synthesize, ReqInv
<1> DEFINE q == [req[r] EXCEPT !.notes = made, !.at = next]
<1>2. req[r] \in Request
    BY DEF ReqInv
<1>3. next \in Steps \ {"idle", "read"}
    BY DEF Steps
<1> HIDE DEF next
<1>4. /\ q \in Request /\ q.call = req[r].call /\ q.release = req[r].release
      /\ q.features = req[r].features /\ q.at = next /\ q.notes \subseteq req[r].notes
    BY <1>2, <1>3 DEF Request
<1>5. QED
    BY <1>1, <1>3, <1>4, BecomesOne

LEMMA FindLinkReq ==
    ASSUME ReqInv, LinksInv, NEW r \in Requests, FindLink(r)
    PROVE  /\ ReqInv' /\ Only(r) /\ req'[r].at \notin {"idle", "read"}
           /\ req'[r].call = req[r].call /\ req'[r].release = req[r].release
           /\ req'[r].features = req[r].features /\ req'[r].notes = req[r].notes
<1>1. CASE \E step \in {"write", "missing", "linked"} : Go(r, step)
    <2>1. {"write", "missing", "linked"} \subseteq Steps \ {"idle", "read"}
        BY DEF Steps
    <2>2. QED
        BY <1>1, <2>1, GoOn
<1>2. CASE \E l \in links :
              req' = [req EXCEPT ![r] = [req[r] EXCEPT !.link = l.row, !.at = "delete"]]
    <2>1. PICK l \in links :
              req' = [req EXCEPT ![r] = [req[r] EXCEPT !.link = l.row, !.at = "delete"]]
        BY <1>2
    <2> DEFINE q == [req[r] EXCEPT !.link = l.row, !.at = "delete"]
    <2>2. req[r] \in Request /\ l.row \in Nat
        BY DEF ReqInv, LinksInv, LinkRow
    <2>3. /\ q \in Request /\ q.call = req[r].call /\ q.release = req[r].release
          /\ q.features = req[r].features /\ q.at = "delete" /\ q.notes = req[r].notes
        BY <2>2 DEF Request, Steps
    <2>4. QED
        BY <2>1, <2>3, BecomesOne
<1>3. QED
    BY <1>1, <1>2 DEF FindLink, Linked, ReqInv

LEMMA WriteCreateReq ==
    ASSUME ReqInv, NEW r \in Requests, WriteCreate(r)
    PROVE  /\ ReqInv' /\ Only(r) /\ req'[r].at \notin {"idle", "read"}
           /\ req'[r].call = "create"
           /\ req'[r].features = req[r].features /\ req'[r].notes = req[r].notes
<1>1. CASE \E x \in Releases :
              req' = [req EXCEPT ![r] = [req[r] EXCEPT !.release = x, !.at = "answer"]]
    <2>1. PICK x \in Releases :
              req' = [req EXCEPT ![r] = [req[r] EXCEPT !.release = x, !.at = "answer"]]
        BY <1>1
    <2> DEFINE q == [req[r] EXCEPT !.release = x, !.at = "answer"]
    <2>2. /\ q \in Request /\ q.call = req[r].call /\ q.at = "answer"
          /\ q.features = req[r].features /\ q.notes = req[r].notes
        BY ZenonT(60) DEF ReqInv, Request, Steps
    <2>3. QED
        BY <2>1, <2>2, BecomesOne DEF WriteCreate, At
<1>2. CASE \E step \in {"conflict", "failed"} : Go(r, step)
    <2>1. {"conflict", "failed"} \subseteq Steps \ {"idle", "read"}
        BY DEF Steps
    <2>2. QED
        BY <1>2, <2>1, GoOn DEF WriteCreate, At
<1>3. QED
    BY <1>1, <1>2 DEF WriteCreate, ReqInv

\* Every step of a request that has called.
LEMMA StepReq ==
    ASSUME ReqInv, LinksInv, NEW r \in Requests, Step(r)
    PROVE  /\ ReqInv' /\ Only(r) /\ req'[r].at \notin {"idle", "read"}
           /\ req'[r].call = req[r].call /\ req'[r].features = req[r].features
           /\ req[r].call # "create" => req'[r].release = req[r].release
           /\ ~ReadMerged(r) => req'[r].notes \subseteq req[r].notes
<1>1. CASE ReadMerged(r)
    BY <1>1, ReadMergedReq
<1>2. CASE Synthesize(r) \/ FindLink(r)
    BY <1>2, SynthesizeReq, FindLinkReq
<1>3. CASE WriteCreate(r)
    BY <1>3, WriteCreateReq DEF WriteCreate, At
<1>4. CASE \/ CheckVersion(r) \/ Answer(r) \/ WriteUpdate(r) \/ DeleteRelease(r)
           \/ FindFeature(r) \/ WriteLink(r) \/ DeleteLink(r)
    <2>1. \E step \in {"write", "conflict", "done", "missing", "failed", "existing"} : Go(r, step)
        BY <1>4 DEF CheckVersion, Answer, WriteUpdate, DeleteRelease, FindFeature, WriteLink, DeleteLink
    <2>2. {"write", "conflict", "done", "missing", "failed", "existing"}
              \subseteq Steps \ {"idle", "read"}
        BY DEF Steps
    <2>3. QED
        BY <2>1, <2>2, GoOn
<1>5. QED
    BY <1>1, <1>2, <1>3, <1>4 DEF Step

\* Every first step of a call.
CallStep(r) ==
    \/ \E v \in Versions, fs \in SUBSET Features, repeated \in Repeats, ai \in BOOLEAN :
          Create(r, v, fs, repeated, ai)
    \/ \E x \in Releases, v \in Versions : Update(r, x, v)
    \/ \E x \in Releases : Remove(r, x)
    \/ \E call \in Calls, x \in Releases, f \in Features : FindRelease(r, call, x, f)
    \/ \E fs \in SUBSET Features : Notes(r, fs)

LEMMA CallReq ==
    ASSUME ReqInv, NEW r \in Requests, CallStep(r)
    PROVE  /\ ReqInv' /\ Only(r) /\ req[r].at = "idle" /\ req'[r].at # "idle"
           /\ req'[r].call = "addFeature" => req'[r].release \in Releases
           /\ req'[r].call = "create" => /\ req'[r].notes = req[r].notes
                                         /\ req'[r].at = "read" => req'[r].features # {}
<1>1. req[r].at = "idle"
    BY DEF CallStep, Create, Update, Remove, FindRelease, Notes, Call
<1>2. ASSUME NEW v \in Versions, NEW fs \in SUBSET Features, NEW repeated \in Repeats,
             NEW ai \in BOOLEAN, Create(r, v, fs, repeated, ai)
      PROVE  /\ ReqInv' /\ Only(r) /\ req'[r].at # "idle" /\ req'[r].call = "create"
             /\ req'[r].notes = req[r].notes
             /\ req'[r].at = "read" => req'[r].features # {}
    <2>1. repeated \in BOOLEAN
        BY ReleasesAssumption
    <2>2. QED
        BY <1>2, <2>1, CreateCalled
<1>3. ASSUME NEW x \in Releases
      PROVE  \/ \E v \in Versions : Update(r, x, v)
             \/ Remove(r, x)
             \/ \E call \in Calls, f \in Features : FindRelease(r, call, x, f)
             => /\ ReqInv' /\ Only(r) /\ req'[r].at # "idle" /\ req'[r].call # "create"
                /\ req'[r].call = "addFeature" => req'[r].release \in Releases
    BY UpdateCalled, RemoveCalled, FindReleaseCalled
<1>4. ASSUME NEW fs \in SUBSET Features, Notes(r, fs)
      PROVE  ReqInv' /\ Only(r) /\ req'[r].at # "idle" /\ req'[r].call = "notes"
    BY <1>4, NotesCalled
<1>5. QED
    BY <1>1, <1>2, <1>3, <1>4 DEF CallStep

(***************************************************************************)
(* Releases and links.                                                      *)
(***************************************************************************)

\* What the transaction of create inserts: a release of a free number, and a link of each feature.
Inserted(r, x, row) ==
    LET q == req[r] IN
    /\ release' = [release EXCEPT ![x] = [version |-> q.version, notes |-> q.notes, by |-> r]]
    /\ links' = links \cup {[release |-> x, feature |-> f, row |-> row[f]] : f \in q.features}
    /\ used' = [releases |-> used.releases \cup {x},
                links |-> used.links + Cardinality(q.features)]

LEMMA InsertKeeps ==
    ASSUME Tables, ReqInv, NEW r \in Requests, NEW x \in Releases \ used.releases, NEW row,
           row \in [req[r].features -> used.links + 1..used.links + Cardinality(req[r].features)],
           Holders(req[r].version) = {}, Inserted(r, x, row)
    PROVE  Tables'
<1> DEFINE q == req[r]
<1> DEFINE n == Cardinality(q.features)
<1> DEFINE new == {[release |-> x, feature |-> f, row |-> row[f]] : f \in q.features}
<1>1. q \in Request
    BY DEF ReqInv
<1>2. n \in Nat
    <2>1. q.features \subseteq Features
        BY <1>1 DEF Request
    <2>2. QED
        BY <2>1, ReleasesAssumption, FS_Subset, FS_CardinalityType
<1>3. used.links \in Nat /\ used.releases \in SUBSET Releases
    BY DEF Tables, UsedInv
<1>4. ReleaseInv'
    <2>1. [version |-> q.version, notes |-> q.notes, by |-> r] \in ReleaseRow
        BY <1>1 DEF Request, ReleaseRow
    <2>2. QED
        BY <2>1 DEF Inserted, Tables, ReleaseInv
<1>5. LinksInv'
    <2>1. ASSUME NEW f \in q.features
          PROVE  [release |-> x, feature |-> f, row |-> row[f]] \in LinkRow
        <3>1. row[f] \in used.links + 1..used.links + n
            OBVIOUS
        <3>2. row[f] \in Nat /\ f \in Features
            BY <3>1, <1>1, <1>2, <1>3 DEF Request
        <3>3. QED
            BY <3>2 DEF LinkRow
    <2>2. new \subseteq LinkRow
        BY <2>1
    <2>3. QED
        BY <2>2 DEF Inserted, Tables, LinksInv
<1>6. UsedInv'
    BY <1>2, <1>3 DEF Inserted, UsedInv
<1>7. \A y \in Releases : release'[y] = IF y = x THEN [version |-> q.version, notes |-> q.notes, by |-> r]
                                                  ELSE release[y]
    BY DEF Inserted, Tables, ReleaseInv
<1>8. GivenOut'
    <2>1. used'.releases = used.releases \cup {x}
        BY DEF Inserted
    <2>2. \A y \in Releases : Exists(y)' => y \in used'.releases
        BY <1>7, <2>1 DEF Tables, GivenOut, Exists
    <2>3. \A l \in links' : l.release \in used'.releases
        BY <2>1 DEF Inserted, Tables, GivenOut
    <2>4. QED
        BY <2>2, <2>3 DEF GivenOut
<1>9. UniqueVersion'
    <2>1. \A y \in Releases : release[y].version # q.version
        BY DEF Holders
    <2>2. ASSUME NEW y \in Releases, NEW z \in Releases, release'[y].version # None,
                 release'[y].version = release'[z].version
          PROVE  y = z
        BY <1>7, <2>1, <2>2 DEF Tables, UniqueVersion, Exists
    <2>3. QED
        BY <2>2 DEF UniqueVersion, Exists
<1>10. LinkedOnce'
    <2>1. \A l \in links : l.release # x
        BY DEF Tables, GivenOut
    <2>2. \A l \in new : l.release = x
        OBVIOUS
    <2>3. \A l, k \in new : l.feature = k.feature => l = k
        OBVIOUS
    <2>4. links' = links \cup new
        BY DEF Inserted
    <2> HIDE DEF new
    <2>5. QED
        BY <2>1, <2>2, <2>3, <2>4 DEF Tables, LinkedOnce
<1>11. QED
    BY <1>4, <1>5, <1>6, <1>8, <1>9, <1>10 DEF Tables

\* Rows of links go: nothing is found twice that was not.
LEMMA FewerLinks ==
    ASSUME Tables, links' \subseteq links, UNCHANGED <<release, used>>
    PROVE  Tables'
<1>1. ReleaseInv' /\ UsedInv' /\ UniqueVersion'
    BY DEF Tables, ReleaseInv, UsedInv, UniqueVersion, Exists
<1>2. LinksInv' /\ GivenOut' /\ LinkedOnce'
    BY DEF Tables, LinksInv, GivenOut, LinkedOnce, Exists
<1>3. QED
    BY <1>1, <1>2 DEF Tables

LEMMA WriteCreateTables ==
    ASSUME Tables, ReqInv, NEW r \in Requests, WriteCreate(r)
    PROVE  Tables'
<1>1. CASE UNCHANGED <<release, links, used>>
    BY <1>1, FewerLinks
<1>2. CASE \E x \in Releases \ used.releases,
              row \in [req[r].features -> used.links + 1..used.links + Cardinality(req[r].features)] :
              Holders(req[r].version) = {} /\ Inserted(r, x, row)
    BY <1>2, InsertKeeps
<1>3. QED
    BY <1>1, <1>2, Zenon DEF WriteCreate, Inserted

LEMMA WriteUpdateTables ==
    ASSUME Tables, ReqInv, NEW r \in Requests, WriteUpdate(r)
    PROVE  Tables'
<1> DEFINE q == req[r]
<1>1. CASE UNCHANGED release
    BY <1>1, FewerLinks DEF WriteUpdate
<1>2. CASE /\ Holders(q.version) \ {q.release} = {} /\ Exists(q.release)
           /\ release' = [release EXCEPT ![q.release].version = q.version]
    <2>1. q.version \in Versions \cup {None}
        BY DEF ReqInv, Request
    <2>2. ASSUME NEW y \in Releases
          PROVE  /\ release'[y] \in ReleaseRow
                 /\ release'[y].version = IF y = q.release THEN q.version ELSE release[y].version
        <3>1. release[y] \in ReleaseRow
            BY DEF Tables, ReleaseInv
        <3>2. release'[y] = IF y = q.release THEN [release[y] EXCEPT !.version = q.version]
                            ELSE release[y]
            BY <1>2 DEF Tables, ReleaseInv
        <3>3. QED
            BY <2>1, <3>1, <3>2 DEF ReleaseRow
    <2>3. release' = [y \in Releases |-> release'[y]]
        BY <1>2 DEF Tables, ReleaseInv
    <2>4. ReleaseInv'
        BY <2>2, <2>3, Zenon DEF ReleaseInv
    <2>5. UNCHANGED <<links, used>>
        BY DEF WriteUpdate
    <2>6. GivenOut'
        BY <1>2, <2>2, <2>5 DEF Tables, GivenOut, Exists
    <2>7. UniqueVersion'
        <3>1. \A y \in Releases : y # q.release => release[y].version # q.version
            BY <1>2 DEF Holders
        <3>2. ASSUME NEW y \in Releases, NEW z \in Releases, release'[y].version # None,
                     release'[y].version = release'[z].version
              PROVE  y = z
            BY <2>2, <3>1, <3>2 DEF Tables, UniqueVersion, Exists
        <3>3. QED
            BY <3>2 DEF UniqueVersion, Exists
    <2>8. LinksInv' /\ UsedInv' /\ LinkedOnce'
        BY <2>5 DEF Tables, LinksInv, UsedInv, LinkedOnce
    <2>9. QED
        BY <2>4, <2>6, <2>7, <2>8 DEF Tables
<1>3. QED
    BY <1>1, <1>2 DEF WriteUpdate

LEMMA DeleteReleaseTables ==
    ASSUME Tables, NEW r \in Requests, DeleteRelease(r)
    PROVE  Tables'
<1> DEFINE x == req[r].release
<1>1. release' = [release EXCEPT ![x] = Absent] /\ links' \subseteq links /\ UNCHANGED used
    BY DEF DeleteRelease
<1>2. Absent \in ReleaseRow
    BY DEF Absent, ReleaseRow
<1>3. ReleaseInv'
    BY <1>1, <1>2 DEF Tables, ReleaseInv
<1>4. \A y \in Releases : release'[y] = IF y = x THEN Absent ELSE release[y]
    BY <1>1 DEF Tables, ReleaseInv
<1>5. \A y \in Releases : Exists(y)' => Exists(y) /\ release'[y] = release[y]
    BY <1>4 DEF Absent, Exists
<1>6. UniqueVersion'
    BY <1>5 DEF Tables, UniqueVersion, Exists
<1>7. GivenOut'
    BY <1>1, <1>5 DEF Tables, GivenOut
<1>8. LinksInv' /\ UsedInv' /\ LinkedOnce'
    BY <1>1 DEF Tables, LinksInv, UsedInv, LinkedOnce
<1>9. QED
    BY <1>3, <1>6, <1>7, <1>8 DEF Tables

LEMMA WriteLinkTables ==
    ASSUME Tables, ReqInv, OfRelease, NEW r \in Requests, WriteLink(r)
    PROVE  Tables'
<1> DEFINE q == req[r]
<1>1. CASE UNCHANGED <<links, used>>
    BY <1>1, FewerLinks DEF WriteLink
<1>2. ASSUME NEW f \in q.features, Exists(q.release), Linked(q.release, f) = {},
             links' = links \cup {[release |-> q.release, feature |-> f, row |-> used.links + 1]},
             used' = [used EXCEPT !.links = @ + 1]
      PROVE  Tables'
    <2> DEFINE l0 == [release |-> q.release, feature |-> f, row |-> used.links + 1]
    <2>1. q.release \in Releases /\ f \in Features
        BY DEF WriteLink, At, OfRelease, ReqInv, Request
    <2>2. used.links \in Nat
        BY DEF Tables, UsedInv
    <2>3. UsedInv' /\ used'.releases = used.releases
        BY <1>2 DEF Tables, UsedInv
    <2>4. l0 \in LinkRow
        BY <2>1, <2>2 DEF LinkRow
    <2>5. UNCHANGED release
        BY DEF WriteLink
    <2>6. ReleaseInv' /\ UniqueVersion'
        BY <2>5 DEF Tables, ReleaseInv, UniqueVersion, Exists
    <2>7. LinksInv'
        BY <1>2, <2>4 DEF Tables, LinksInv
    <2>8. GivenOut'
        BY <1>2, <2>1, <2>3, <2>5 DEF Tables, GivenOut, Exists
    <2>9. LinkedOnce'
        <3>1. \A l \in links : ~(l.release = q.release /\ l.feature = f)
            BY <1>2 DEF Linked
        <3>2. links' = links \cup {l0} /\ l0.release = q.release /\ l0.feature = f
            BY <1>2
        <3> HIDE DEF l0
        <3>3. QED
            BY <3>1, <3>2 DEF Tables, LinkedOnce
    <2>10. QED
        BY <2>3, <2>6, <2>7, <2>8, <2>9 DEF Tables
<1>3. QED
    BY <1>1, <1>2 DEF WriteLink

LEMMA NextTables ==
    ASSUME Tables, ReqInv, OfRelease, [Next]_vars
    PROVE  Tables'
<1>1. ASSUME NEW r \in Requests, Step(r)
      PROVE  Tables'
    <2>1. CASE WriteCreate(r) \/ WriteUpdate(r) \/ DeleteRelease(r) \/ WriteLink(r)
        BY <2>1, WriteCreateTables, WriteUpdateTables, DeleteReleaseTables, WriteLinkTables
    <2>2. CASE \/ ReadMerged(r) \/ Synthesize(r) \/ CheckVersion(r) \/ Answer(r)
               \/ FindFeature(r) \/ FindLink(r) \/ DeleteLink(r)
        <3>1. links' \subseteq links /\ UNCHANGED <<release, used>>
            BY <2>2 DEF ReadMerged, Synthesize, CheckVersion, Answer, FindFeature, FindLink, DeleteLink
        <3>2. QED
            BY <3>1, FewerLinks
    <2>3. QED
        BY <1>1, <2>1, <2>2 DEF Step
<1>2. ASSUME NEW r \in Requests, CallStep(r)
      PROVE  Tables'
    <2>1. UNCHANGED <<release, links, used>>
        BY <1>2 DEF CallStep, Create, Update, Remove, FindRelease, Notes
    <2>2. QED
        BY <2>1, FewerLinks
<1>3. CASE \/ UNCHANGED vars
           \/ \E f \in Features : RemoveFeature(f)
           \/ \E p \in PRs : PRChanges(p)
    <2>1. links' \subseteq links /\ UNCHANGED <<release, used>>
        BY <1>3 DEF vars, RemoveFeature, PRChanges
    <2>2. QED
        BY <2>1, FewerLinks
<1>4. QED
    BY <1>1, <1>2, <1>3, Zenon DEF Next, CallStep

(***************************************************************************)
(* Notes.                                                                   *)
(***************************************************************************)

\* Requests that have called keep their features, and releases their notes.
LEMMA NotesStay ==
    ASSUME WrittenBy, NotesMerged, eligible \subseteq eligible',
           \A b \in Requests : req[b].at # "idle" =>
               req'[b].at # "idle" /\ req'[b].features = req[b].features,
           \A x \in Releases :
               \/ release'[x].notes = {}
               \/ release'[x].notes = release[x].notes /\ release'[x].by = release[x].by
    PROVE  WrittenBy' /\ NotesMerged'
<1>1. WrittenBy'
    BY DEF WrittenBy
<1>2. ASSUME NEW x \in Releases, NEW p \in release'[x].notes
      PROVE  \E f \in req'[release'[x].by].features : <<f, p>> \in eligible'
    <2>1. release'[x].notes = release[x].notes /\ release'[x].by = release[x].by
        BY <1>2
    <2>2. req'[release[x].by].features = req[release[x].by].features
        BY <2>1 DEF WrittenBy
    <2>3. PICK f \in req[release[x].by].features : <<f, p>> \in eligible
        BY <2>1 DEF NotesMerged
    <2>4. QED
        BY <2>1, <2>2, <2>3
<1>3. QED
    BY <1>1, <1>2 DEF NotesMerged

\* What one request does to its own notes and features.
LEMMA HeldStays ==
    ASSUME HeldNotes, eligible \subseteq eligible', NEW r \in Requests, Only(r),
           req'[r].at # "idle",
           req'[r].call = "create" =>
              /\ \A p \in req'[r].notes : \E f \in req'[r].features : <<f, p>> \in eligible
              /\ req'[r].at = "read" => req'[r].features # {}
    PROVE  HeldNotes'
<1>1. ASSUME NEW q \in Requests
      PROVE  /\ req'[q].at = "idle" => req'[q].notes = {}
             /\ req'[q].call = "create" =>
                   \A p \in req'[q].notes : \E f \in req'[q].features : <<f, p>> \in eligible'
             /\ req'[q].call = "create" /\ req'[q].at = "read" => req'[q].features # {}
    <2>1. CASE q = r
        BY <2>1
    <2>2. CASE q # r
        BY <2>2 DEF Only, HeldNotes, Backed, At
    <2>3. QED
        BY <2>1, <2>2
<1>2. QED
    BY <1>1 DEF HeldNotes, Backed, At

LEMMA StepNotes ==
    ASSUME IInv, NEW r \in Requests, Step(r)
    PROVE  NotesInv'
<1>1. /\ ReqInv' /\ Only(r) /\ req'[r].at \notin {"idle", "read"}
      /\ req'[r].call = req[r].call /\ req'[r].features = req[r].features
      /\ ~ReadMerged(r) => req'[r].notes \subseteq req[r].notes
    BY StepReq DEF IInv, Tables
<1>2. UNCHANGED <<features, pr, eligible>>
    BY DEF Step, ReadMerged, Synthesize, CheckVersion, WriteCreate, Answer, WriteUpdate,
           DeleteRelease, FindFeature, FindLink, WriteLink, DeleteLink
<1>3. ASSUME req[r].call = "create", NEW p \in req'[r].notes
      PROVE  \E f \in req[r].features : <<f, p>> \in eligible
    <2>1. CASE ReadMerged(r)
        <3>1. req'[r].notes = {o \in Merged(req[r].features) : pr[o].summary}
            BY <2>1, ReadMergedReq DEF IInv
        <3>2. req[r].features # {} /\ req[r].features \subseteq Features
            BY <2>1, <1>3 DEF ReadMerged, IInv, NotesInv, HeldNotes, At, ReqInv, Request
        <3>3. p \in PRs /\ pr[p].merged /\ pr[p].feature \in req[r].features
            BY <1>3, <3>1, <3>2 DEF Merged
        <3>4. pr[p].feature # None
            BY <3>2, <3>3, ReleasesAssumption
        <3>5. QED
            BY <3>3, <3>4 DEF IInv, NotesInv, MergedKnown
    <2>2. CASE ~ReadMerged(r)
        BY <1>1, <1>3, <2>2 DEF IInv, NotesInv, HeldNotes, Backed
    <2>3. QED
        BY <2>1, <2>2
<1>4. HeldNotes'
    BY <1>1, <1>2, <1>3, HeldStays DEF IInv, NotesInv
<1>5. \A b \in Requests : req[b].at # "idle" =>
           req'[b].at # "idle" /\ req'[b].features = req[b].features
    BY <1>1 DEF Only
<1>6. WrittenBy' /\ NotesMerged'
    <2>1. CASE \E x \in Releases \ used.releases : \E row : At(r, "create", "write") /\ Inserted(r, x, row)
        <3>1. PICK x \in Releases \ used.releases : \E row : At(r, "create", "write") /\ Inserted(r, x, row)
            BY <2>1
        <3>2. /\ release'[x].notes = req[r].notes /\ release'[x].by = r
              /\ \A y \in Releases : y # x => release'[y] = release[y]
            BY <3>1 DEF Inserted, IInv, Tables, ReleaseInv
        <3>3. WrittenBy'
            BY <1>1, <1>5, <3>2 DEF IInv, NotesInv, WrittenBy
        <3>4. ASSUME NEW y \in Releases, NEW p \in release'[y].notes
              PROVE  \E f \in req'[release'[y].by].features : <<f, p>> \in eligible
            <4>1. CASE y = x
                BY <1>1, <3>1, <3>2, <3>4, <4>1 DEF At, IInv, NotesInv, HeldNotes, Backed
            <4>2. CASE y # x
                <5>1. release'[y] = release[y] /\ req'[release[y].by].features = req[release[y].by].features
                    BY <1>5, <3>2, <3>4, <4>2 DEF IInv, NotesInv, WrittenBy
                <5>2. QED
                    BY <5>1, <3>4 DEF IInv, NotesInv, NotesMerged
            <4>3. QED
                BY <4>1, <4>2
        <3>5. QED
            BY <1>2, <3>3, <3>4 DEF NotesMerged
    <2>2. CASE \A x \in Releases :
                  \/ release'[x].notes = {}
                  \/ release'[x].notes = release[x].notes /\ release'[x].by = release[x].by
        BY <1>2, <1>5, <2>2, NotesStay DEF IInv, NotesInv
    <2>3. CASE UNCHANGED release
        BY <2>2, <2>3
    <2>4. CASE WriteCreate(r)
        <3>1. CASE UNCHANGED <<release, links, used>>
            BY <2>3, <3>1
        <3>2. CASE \E x \in Releases \ used.releases,
                      row \in [req[r].features ->
                                  used.links + 1..used.links + Cardinality(req[r].features)] :
                      Inserted(r, x, row)
            BY <2>1, <2>4, <3>2 DEF WriteCreate
        <3>3. QED
            BY <2>4, <3>1, <3>2, Zenon DEF WriteCreate, Inserted
    <2>5. CASE WriteUpdate(r) \/ DeleteRelease(r)
        <3>1. ASSUME NEW x \in Releases
              PROVE  \/ release'[x].notes = {}
                     \/ release'[x].notes = release[x].notes /\ release'[x].by = release[x].by
            BY <2>5 DEF WriteUpdate, DeleteRelease, Absent, IInv, Tables, ReleaseInv, ReleaseRow
        <3>2. QED
            BY <3>1, <2>2
    <2>6. CASE ~(WriteCreate(r) \/ WriteUpdate(r) \/ DeleteRelease(r))
        BY <2>3, <2>6 DEF Step, ReadMerged, Synthesize, CheckVersion, Answer, FindFeature, FindLink,
           WriteLink, DeleteLink
    <2>7. QED
        BY <2>4, <2>5, <2>6
<1>7. MergedKnown'
    BY <1>2 DEF IInv, NotesInv, MergedKnown
<1>8. QED
    BY <1>4, <1>6, <1>7 DEF NotesInv

LEMMA NextNotes ==
    ASSUME IInv, [Next]_vars
    PROVE  NotesInv'
<1>1. ASSUME NEW r \in Requests, Step(r)
      PROVE  NotesInv'
    BY <1>1, StepNotes
<1>2. ASSUME NEW r \in Requests, CallStep(r)
      PROVE  NotesInv'
    <2>1. /\ Only(r) /\ req[r].at = "idle" /\ req'[r].at # "idle"
          /\ req'[r].call = "create" => /\ req'[r].notes = req[r].notes
                                        /\ req'[r].at = "read" => req'[r].features # {}
        BY <1>2, CallReq DEF IInv
    <2>2. UNCHANGED <<release, pr, eligible>>
        BY <1>2 DEF CallStep, Create, Update, Remove, FindRelease, Notes
    <2>3. req[r].notes = {}
        BY <2>1 DEF IInv, NotesInv, HeldNotes
    <2>4. HeldNotes'
        <3>1. ASSUME req'[r].call = "create"
              PROVE  req'[r].notes = {} /\ (req'[r].at = "read" => req'[r].features # {})
            BY <2>1, <2>3, <3>1
        <3>2. eligible \subseteq eligible' /\ HeldNotes /\ Only(r) /\ req'[r].at # "idle"
            BY <2>1, <2>2 DEF IInv, NotesInv
        <3>3. QED
            BY <3>1, <3>2, HeldStays
    <2>5. WrittenBy' /\ NotesMerged'
        BY <2>1, <2>2, NotesStay DEF IInv, NotesInv, Only
    <2>6. MergedKnown'
        BY <2>2 DEF IInv, NotesInv, MergedKnown
    <2>7. QED
        BY <2>4, <2>5, <2>6 DEF NotesInv
<1>3. CASE \/ UNCHANGED vars
           \/ \E f \in Features : RemoveFeature(f)
           \/ \E p \in PRs : PRChanges(p)
    <2>1. UNCHANGED <<release, req>> /\ eligible \subseteq eligible'
        BY <1>3 DEF vars, RemoveFeature, PRChanges
    <2>2. HeldNotes'
        BY <2>1 DEF IInv, NotesInv, HeldNotes, Backed, At
    <2>3. WrittenBy' /\ NotesMerged'
        BY <2>1, NotesStay DEF IInv, NotesInv
    <2>4. MergedKnown'
        <3>1. CASE UNCHANGED vars
            BY <3>1 DEF vars, IInv, NotesInv, MergedKnown
        <3>2. ASSUME NEW f \in Features, RemoveFeature(f)
              PROVE  MergedKnown'
            <4>1. UNCHANGED eligible
                BY <3>2 DEF RemoveFeature
            <4>2. ASSUME NEW p \in PRs
                  PROVE  /\ pr'[p].merged = pr[p].merged
                         /\ pr'[p].feature # None => pr'[p].feature = pr[p].feature
                BY <3>2 DEF RemoveFeature, IInv, PRInv, PRRow
            <4>3. QED
                BY <4>1, <4>2 DEF IInv, NotesInv, MergedKnown
        <3>3. ASSUME NEW p \in PRs, PRChanges(p)
              PROVE  MergedKnown'
            <4>1. \A o \in PRs : o # p => pr'[o] = pr[o]
                BY <3>3 DEF PRChanges, IInv, PRInv
            <4>2. pr'[p].merged => <<pr'[p].feature, p>> \in eligible'
                BY <3>3 DEF PRChanges
            <4>3. QED
                BY <2>1, <4>1, <4>2 DEF IInv, NotesInv, MergedKnown
        <3>4. QED
            BY <1>3, <3>1, <3>2, <3>3
    <2>5. QED
        BY <2>2, <2>3, <2>4 DEF NotesInv
<1>4. QED
    BY <1>1, <1>2, <1>3, Zenon DEF Next, CallStep

(***************************************************************************)
(* The theorems.                                                            *)
(***************************************************************************)

LEMMA IInvNext == IInv /\ [Next]_vars => IInv'
<1> SUFFICES ASSUME IInv, [Next]_vars
             PROVE  IInv'
    OBVIOUS
<1>1. Tables' /\ NotesInv'
    BY NextTables, NextNotes DEF IInv
<1>2. ReqInv' /\ OfRelease'
    <2>1. ASSUME NEW r \in Requests, Step(r)
          PROVE  ReqInv' /\ OfRelease'
        <3>1. /\ ReqInv' /\ Only(r) /\ req'[r].call = req[r].call
              /\ req[r].call # "create" => req'[r].release = req[r].release
            BY <2>1, StepReq DEF IInv, Tables
        <3>2. QED
            BY <3>1 DEF IInv, OfRelease, Only
    <2>2. ASSUME NEW r \in Requests, CallStep(r)
          PROVE  ReqInv' /\ OfRelease'
        <3>1. ReqInv' /\ Only(r) /\ (req'[r].call = "addFeature" => req'[r].release \in Releases)
            BY <2>2, CallReq DEF IInv
        <3>2. QED
            BY <3>1 DEF IInv, OfRelease, Only
    <2>3. CASE UNCHANGED req
        BY <2>3 DEF IInv, ReqInv, OfRelease
    <2>4. QED
        BY <2>1, <2>2, <2>3, Zenon DEF Next, CallStep, vars, RemoveFeature, PRChanges
<1>3. PRInv'
    <2>1. CASE UNCHANGED <<features, pr>>
        BY <2>1 DEF IInv, PRInv
    <2>2. ASSUME NEW f \in Features, RemoveFeature(f)
          PROVE  PRInv'
        BY <2>2 DEF RemoveFeature, IInv, PRInv, PRRow
    <2>3. ASSUME NEW p \in PRs, PRChanges(p)
          PROVE  PRInv'
        BY ZenonT(60), <2>3 DEF PRChanges, IInv, PRInv, PRRow
    <2>4. ASSUME NEW r \in Requests, Step(r) \/ CallStep(r)
          PROVE  UNCHANGED <<features, pr>>
        BY <2>4 DEF Step, ReadMerged, Synthesize, CheckVersion, WriteCreate, Answer, WriteUpdate,
           DeleteRelease, FindFeature, FindLink, WriteLink, DeleteLink,
           CallStep, Create, Update, Remove, FindRelease, Notes
    <2>5. QED
        BY <2>1, <2>2, <2>3, <2>4, Zenon DEF Next, CallStep, vars
<1>4. QED
    BY <1>1, <1>2, <1>3 DEF IInv

LEMMA IInvAlways == Spec => []IInv
BY IInvInit, IInvNext, PTL DEF Spec

\* The version is checked and the link looked for before either is written: the
\* unique indexes keep two releases of one version, and two links of one feature
\* to a release, out of the tables, however the requests interleave.
THEOREM NothingIsTwice == Spec => []NothingTwice
<1>1. IInv => NothingTwice
    BY DEF IInv, Tables, NothingTwice
<1>2. QED
    BY <1>1, IInvAlways, PTL

\* create hands the AI only merged pull requests of the features it was given, and
\* stores what comes back with that release: features are removed, pull requests
\* moved and other requests answered while it waits.
THEOREM NotesAreOfMerged == Spec => []NotesMerged
<1>1. IInv => NotesMerged
    BY DEF IInv, NotesInv
<1>2. QED
    BY <1>1, IInvAlways, PTL

(***************************************************************************)
(* Lifecycle.                                                               *)
(***************************************************************************)

FeatureState == [status : InLifecycle!FeatureStatus, started : BOOLEAN, completed : BOOLEAN,
                 assignee : People \cup {None}]
BugState == [status : InLifecycle!BugStatus, resolved : BOOLEAN, closed : BOOLEAN]
FeatureUpdate == [at : {"write", "log", "assigned", "completed"}, by : People,
                  status : FeatureTargets \cup {None}, assignee : People \cup {None},
                  old : FeatureState, new : FeatureState]
BugUpdate == [at : {"writeBug", "resolved"}, by : People, status : BugTargets, old : BugState]
Counts == [InLifecycle!Notices -> [People -> Nat]]

LifeTyped ==
    /\ feature \in FeatureState /\ bug \in BugState
    /\ updateReq \in [Updaters -> {InLifecycle!Idle} \cup FeatureUpdate \cup BugUpdate]
    /\ trail \in Seq(InLifecycle!FeatureStatus) /\ trail # <<>>
    /\ notified \in Counts /\ due \in Counts

LEMMA LifeAssumed ==
    /\ None \notin People \cup InLifecycle!FeatureStatus \cup InLifecycle!BugStatus
    /\ FeatureTargets \subseteq InLifecycle!FeatureStatus
    /\ BugTargets \subseteq InLifecycle!BugStatus
    /\ Webhooks \subseteq {"IN_PROGRESS", "IN_REVIEW"}
BY WorkAssumption DEF InLifecycle!LifecycleAssumption

(***************************************************************************)
(* The operators.                                                           *)
(***************************************************************************)

FeatureFits(f) == f.completed = (f.status = "DONE") /\ f.started = InLifecycle!Started(f.status)
BugFits(b) == b.resolved = InLifecycle!Settled(b.status) /\ b.closed = (b.status = "CLOSED")

\* What an update writes over row f.
Updated(f, q) ==
    InLifecycle!LifecycleStamps(q.old, q.status,
        [f EXCEPT !.status = InLifecycle!Put(@, q.status),
                  !.assignee = InLifecycle!Put(@, q.assignee)])

\* The stamps are derived from the row that was read: they fit when it is still there.
LEMMA UpdatedFits ==
    ASSUME NEW f \in FeatureState, NEW q \in FeatureUpdate
    PROVE  /\ Updated(f, q) \in FeatureState
           /\ Updated(f, q).status = InLifecycle!Put(f.status, q.status)
           /\ Updated(f, q).assignee = InLifecycle!Put(f.assignee, q.assignee)
           /\ q.old = f /\ FeatureFits(f) => FeatureFits(Updated(f, q))
<1> DEFINE row == [f EXCEPT !.status = InLifecycle!Put(@, q.status),
                            !.assignee = InLifecycle!Put(@, q.assignee)]
           new == InLifecycle!LifecycleStamps(q.old, q.status, row)
<1>1. /\ row \in FeatureState
      /\ row.status = InLifecycle!Put(f.status, q.status)
      /\ row.assignee = InLifecycle!Put(f.assignee, q.assignee)
      /\ row.started = f.started /\ row.completed = f.completed
    BY LifeAssumed DEF FeatureState, FeatureUpdate, InLifecycle!Put
<1>2. q.old \in FeatureState
    BY DEF FeatureUpdate
<1>3. Updated(f, q) = new
    BY DEF Updated
<1> HIDE DEF row
<1>4. CASE q.status = None \/ q.status = q.old.status
    <2>1. new = row
        BY <1>4 DEF InLifecycle!LifecycleStamps
    <2>2. q.old = f => row.status = f.status
        BY <1>1, <1>4 DEF InLifecycle!Put
    <2>3. q.old = f /\ FeatureFits(f) => FeatureFits(row)
        BY <1>1, <2>2 DEF FeatureFits
    <2>4. QED
        BY <1>1, <1>3, <2>1, <2>3
<1>5. CASE q.status # None /\ q.status # q.old.status
    <2> DEFINE s == q.status
    <2>1. new = [row EXCEPT
            !.started = IF ~InLifecycle!Started(s) THEN FALSE
                        ELSE IF ~q.old.started THEN TRUE ELSE @,
            !.completed = IF s = "DONE" THEN TRUE ELSE IF q.old.completed THEN FALSE ELSE @]
        BY <1>5 DEF InLifecycle!LifecycleStamps
    <2>2. /\ new \in FeatureState
          /\ new.status = row.status /\ new.assignee = row.assignee
        BY <1>1, <2>1 DEF FeatureState
    <2>3. new.started = IF ~InLifecycle!Started(s) THEN FALSE
                        ELSE IF ~q.old.started THEN TRUE ELSE row.started
        BY <1>1, <2>1 DEF FeatureState
    <2>4. new.completed = IF s = "DONE" THEN TRUE
                          ELSE IF q.old.completed THEN FALSE ELSE row.completed
        BY <1>1, <2>1 DEF FeatureState
    <2>5. row.status = s
        BY <1>1, <1>5 DEF InLifecycle!Put
    <2>6. ASSUME q.old = f PROVE FeatureFits(new)
        <3>1. new.completed = (s = "DONE")
            BY <1>1, <2>4, <2>6 DEF FeatureState
        <3>2. new.started = InLifecycle!Started(s)
            BY <1>1, <2>3, <2>6 DEF FeatureState, InLifecycle!Started
        <3>3. QED
            BY <2>2, <2>5, <3>1, <3>2 DEF FeatureFits
    <2>7. QED
        BY <1>1, <1>3, <2>2, <2>6
<1>6. QED
    BY <1>4, <1>5

BugUpdated(b, q) ==
    InLifecycle!BugLifecycleStamps(q.old, q.status, [b EXCEPT !.status = q.status])

LEMMA BugUpdatedFits ==
    ASSUME NEW b \in BugState, NEW q \in BugUpdate
    PROVE  /\ BugUpdated(b, q) \in BugState
           /\ q.old = b /\ BugFits(b) => BugFits(BugUpdated(b, q))
<1> DEFINE row == [b EXCEPT !.status = q.status]
           s == q.status
           new == InLifecycle!BugLifecycleStamps(q.old, s, row)
<1>1. /\ row \in BugState
      /\ row.status = s /\ row.resolved = b.resolved /\ row.closed = b.closed
    BY LifeAssumed DEF BugState, BugUpdate
<1>2. q.old \in BugState /\ s # None
    BY LifeAssumed DEF BugUpdate
<1>3. BugUpdated(b, q) = new
    BY DEF BugUpdated
<1> HIDE DEF row
<1>4. CASE s = q.old.status
    <2>1. new = row
        BY <1>4 DEF InLifecycle!BugLifecycleStamps
    <2>2. q.old = b /\ BugFits(b) => BugFits(row)
        BY <1>1, <1>4 DEF BugFits
    <2>3. QED
        BY <1>1, <1>3, <2>1, <2>2
<1>5. CASE s # q.old.status
    <2>1. new = [row EXCEPT
            !.resolved = IF InLifecycle!Settled(s) THEN TRUE
                         ELSE IF q.old.resolved THEN FALSE ELSE @,
            !.closed = IF s = "CLOSED" THEN TRUE ELSE IF q.old.closed THEN FALSE ELSE @]
        BY <1>2, <1>5 DEF InLifecycle!BugLifecycleStamps
    <2>2. new \in BugState /\ new.status = row.status
        BY <1>1, <2>1 DEF BugState
    <2>3. new.resolved = IF InLifecycle!Settled(s) THEN TRUE
                         ELSE IF q.old.resolved THEN FALSE ELSE row.resolved
        BY <1>1, <2>1 DEF BugState
    <2>4. new.closed = IF s = "CLOSED" THEN TRUE ELSE IF q.old.closed THEN FALSE ELSE row.closed
        BY <1>1, <2>1 DEF BugState
    <2>5. ASSUME q.old = b PROVE BugFits(new)
        <3>1. new.resolved = InLifecycle!Settled(s)
            <4>1. InLifecycle!Settled(s) \in BOOLEAN /\ q.old.resolved = row.resolved
                BY <1>1, <2>5 DEF InLifecycle!Settled
            <4>2. row.resolved \in BOOLEAN
                BY <1>1 DEF BugState
            <4>3. CASE InLifecycle!Settled(s)
                BY <2>3, <4>1, <4>3
            <4>4. CASE ~InLifecycle!Settled(s)
                BY <2>3, <4>1, <4>2, <4>4
            <4>5. QED
                BY <4>3, <4>4
        <3>2. new.closed = (s = "CLOSED")
            BY <1>1, <2>4, <2>5 DEF BugState
        <3>3. QED
            BY <1>1, <2>2, <3>1, <3>2 DEF BugFits
    <2>6. QED
        BY <1>3, <2>2, <2>5
<1>6. QED
    BY <1>4, <1>5

\* One more of a count.
LEMMA CountedIf ==
    ASSUME NEW c \in Counts, NEW cond \in BOOLEAN, NEW kind \in InLifecycle!Notices, NEW n,
           cond => n \in People
    PROVE  /\ InLifecycle!CountIf(c, cond, kind, n) \in Counts
           /\ \A k \in InLifecycle!Notices, m \in People :
                  InLifecycle!CountIf(c, cond, kind, n)[k][m]
                      = c[k][m] + (IF cond /\ k = kind /\ m = n THEN 1 ELSE 0)
<1>1. CASE cond
    <2>1. InLifecycle!CountIf(c, cond, kind, n) = [c EXCEPT ![kind][n] = @ + 1]
        BY <1>1 DEF InLifecycle!CountIf, InLifecycle!Count
    <2>2. /\ c \in [InLifecycle!Notices -> [People -> Nat]]
          /\ c[kind] \in [People -> Nat] /\ n \in People
        BY <1>1 DEF Counts
    <2>3. [c[kind] EXCEPT ![n] = @ + 1] \in [People -> Nat]
        BY <2>2
    <2>4. /\ [c EXCEPT ![kind] = [c[kind] EXCEPT ![n] = @ + 1]] \in [InLifecycle!Notices -> [People -> Nat]]
          /\ InLifecycle!CountIf(c, cond, kind, n) = [c EXCEPT ![kind] = [c[kind] EXCEPT ![n] = @ + 1]]
        BY <2>1, <2>2, <2>3
    <2>5. \A k \in InLifecycle!Notices, m \in People :
              InLifecycle!CountIf(c, cond, kind, n)[k][m]
                  = c[k][m] + (IF k = kind /\ m = n THEN 1 ELSE 0)
        BY <2>2, <2>4
    <2>6. QED
        BY <1>1, <2>4, <2>5 DEF Counts
<1>2. CASE ~cond
    BY <1>2 DEF InLifecycle!CountIf, Counts
<1>3. QED
    BY <1>1, <1>2

(***************************************************************************)
(* The inductive invariant: types, stamps, log.                             *)
(***************************************************************************)

LifeNext == [InLifecycle!Next]_lifecycle
Asked(r) == updateReq[r]

LEMMA AskedTyped ==
    ASSUME LifeTyped, NEW r \in Updaters
    PROVE  /\ Asked(r).at \in {"write", "log", "assigned", "completed"} => Asked(r) \in FeatureUpdate
           /\ Asked(r).at \in {"writeBug", "resolved"} => Asked(r) \in BugUpdate
BY DEF LifeTyped, Asked, InLifecycle!Idle, FeatureUpdate, BugUpdate

\* A step of request r replaces what is kept of it.
LEMMA AskedNext ==
    ASSUME LifeTyped, NEW r \in Updaters, NEW q, updateReq' = [updateReq EXCEPT ![r] = q]
    PROVE  \A o \in Updaters : Asked(o)' = IF o = r THEN q ELSE Asked(o)
BY DEF LifeTyped, Asked

\* What the steps write, in the terms of the operators above.
LEMMA WriteIs ==
    ASSUME LifeTyped, NEW r \in Updaters, InLifecycle!Write(r)
    PROVE  /\ Asked(r) \in FeatureUpdate /\ Asked(r).at = "write"
           /\ feature' = Updated(feature, Asked(r))
           /\ due' = InLifecycle!FeatureDue(Asked(r), feature')
           /\ [Asked(r) EXCEPT !.at = "log", !.new = feature'] \in FeatureUpdate
           /\ updateReq' = [updateReq EXCEPT ![r] = [Asked(r) EXCEPT !.at = "log", !.new = feature']]
<1>1. Asked(r) \in FeatureUpdate /\ Asked(r).at = "write"
    BY AskedTyped DEF InLifecycle!Write, Asked
<1>2. feature' = Updated(feature, Asked(r))
    BY DEF InLifecycle!Write, Asked, Updated
<1>3. feature' \in FeatureState
    BY <1>1, <1>2, UpdatedFits DEF LifeTyped
<1>4. [Asked(r) EXCEPT !.at = "log", !.new = feature'] \in FeatureUpdate
    BY <1>1, <1>3 DEF FeatureUpdate
<1>5. updateReq' = [updateReq EXCEPT ![r].at = "log", ![r].new = feature']
    BY DEF InLifecycle!Write
<1>6. updateReq' = [updateReq EXCEPT ![r] = [Asked(r) EXCEPT !.at = "log", !.new = feature']]
    BY <1>5 DEF LifeTyped, Asked
<1>7. due' = InLifecycle!FeatureDue(Asked(r), feature')
    BY DEF InLifecycle!Write, Asked
<1>8. QED
    BY <1>1, <1>2, <1>4, <1>6, <1>7

LEMMA WriteBugIs ==
    ASSUME LifeTyped, NEW r \in Updaters, InLifecycle!WriteBug(r)
    PROVE  /\ Asked(r) \in BugUpdate /\ Asked(r).at = "writeBug"
           /\ bug' = BugUpdated(bug, Asked(r))
           /\ [Asked(r) EXCEPT !.at = "resolved"] \in BugUpdate
           /\ updateReq' = [updateReq EXCEPT ![r] = [Asked(r) EXCEPT !.at = "resolved"]]
<1>1. Asked(r) \in BugUpdate /\ Asked(r).at = "writeBug"
    BY AskedTyped DEF InLifecycle!WriteBug, Asked
<1>2. bug' = BugUpdated(bug, Asked(r))
    BY DEF InLifecycle!WriteBug, Asked, BugUpdated
<1>3. [Asked(r) EXCEPT !.at = "resolved"] \in BugUpdate
    BY <1>1 DEF BugUpdate
<1>4. updateReq' = [updateReq EXCEPT ![r] = [Asked(r) EXCEPT !.at = "resolved"]]
    BY DEF InLifecycle!WriteBug, Asked
<1>5. QED
    BY <1>1, <1>2, <1>3, <1>4

\* What is due of an update is one notification to the new assignee and one to the
\* assignee of a feature that it completes.
AssignedDue(f, q) == q.assignee # None /\ q.assignee # f.assignee /\ q.assignee # q.by
CompletedDue(f, q, new) ==
    new.status = "DONE" /\ f.status # "DONE" /\ new.assignee \notin {None, q.by}

LEMMA FeatureDueIs ==
    ASSUME LifeTyped, NEW q \in FeatureUpdate, NEW new \in FeatureState
    PROVE  /\ InLifecycle!FeatureDue(q, new) \in Counts
           /\ \A k \in InLifecycle!Notices, m \in People :
                  InLifecycle!FeatureDue(q, new)[k][m] = due[k][m]
                      + (IF k = "FEATURE_ASSIGNED" /\ AssignedDue(feature, q) /\ m = q.assignee
                         THEN 1 ELSE 0)
                      + (IF k = "FEATURE_COMPLETED" /\ CompletedDue(feature, q, new)
                            /\ m = new.assignee THEN 1 ELSE 0)
<1> DEFINE assigned == q.assignee # None /\ q.assignee # feature.assignee /\ q.assignee # q.by
           done == new.status = "DONE" /\ feature.status # "DONE" /\ new.assignee \notin {None, q.by}
           c == InLifecycle!CountIf(due, assigned, "FEATURE_ASSIGNED", q.assignee)
           d == InLifecycle!CountIf(c, done, "FEATURE_COMPLETED", new.assignee)
<1>1. /\ assigned \in BOOLEAN /\ (assigned => q.assignee \in People)
      /\ done \in BOOLEAN /\ (done => new.assignee \in People)
    BY DEF FeatureUpdate, FeatureState
<1>2. "FEATURE_ASSIGNED" \in InLifecycle!Notices /\ "FEATURE_COMPLETED" \in InLifecycle!Notices
    BY DEF InLifecycle!Notices
<1>3. InLifecycle!FeatureDue(q, new) = d
    BY DEF InLifecycle!FeatureDue
<1>4. assigned = AssignedDue(feature, q) /\ done = CompletedDue(feature, q, new)
    BY DEF AssignedDue, CompletedDue
<1> HIDE DEF assigned, done
<1>5. /\ c \in Counts
      /\ \A k \in InLifecycle!Notices, m \in People :
             c[k][m] = due[k][m] + (IF assigned /\ k = "FEATURE_ASSIGNED" /\ m = q.assignee
                                    THEN 1 ELSE 0)
    BY SMTT(30), <1>1, <1>2, CountedIf DEF LifeTyped
<1> HIDE DEF c
<1>6. /\ d \in Counts
      /\ \A k \in InLifecycle!Notices, m \in People :
             d[k][m] = c[k][m] + (IF done /\ k = "FEATURE_COMPLETED" /\ m = new.assignee
                                  THEN 1 ELSE 0)
    BY <1>1, <1>2, <1>5, CountedIf
<1> HIDE DEF d
<1>7. QED
    BY <1>3, <1>4, <1>5, <1>6

LEMMA LifeTypedInit == InLifecycle!Init => LifeTyped
<1> SUFFICES ASSUME InLifecycle!Init PROVE LifeTyped
    OBVIOUS
<1>1. feature \in FeatureState /\ bug \in BugState
    BY DEF InLifecycle!Init, FeatureState, BugState, InLifecycle!FeatureStatus,
       InLifecycle!BugStatus
<1>2. updateReq \in [Updaters -> {InLifecycle!Idle} \cup FeatureUpdate \cup BugUpdate]
    BY DEF InLifecycle!Init
<1>3. trail \in Seq(InLifecycle!FeatureStatus) /\ trail # <<>>
    BY DEF InLifecycle!Init, InLifecycle!FeatureStatus
<1>4. notified \in Counts /\ due \in Counts
    BY DEF InLifecycle!Init, InLifecycle!NoCount, Counts
<1>5. QED
    BY <1>1, <1>2, <1>3, <1>4 DEF LifeTyped

Notify(r) ==
    InLifecycle!NotifyAssigned(r) \/ InLifecycle!NotifyCompleted(r) \/ InLifecycle!NotifyResolved(r)

\* What a notification step sends, of an update q: the kind, to whom, and whether at all.
Sends(q, k, m) ==
    \/ k = "FEATURE_ASSIGNED" /\ q.at = "assigned"
           /\ q.assignee = m /\ m # q.old.assignee /\ m # q.by
    \/ k = "FEATURE_COMPLETED" /\ q.at = "completed"
           /\ q.status = "DONE" /\ q.old.status # "DONE" /\ q.new.assignee = m /\ m # q.by
    \/ k = "BUG_RESOLVED" /\ q.at = "resolved"
           /\ q.status = "RESOLVED" /\ q.old.status # "RESOLVED"
           /\ feature.assignee = m /\ m # q.by

LEMMA NotifyIs ==
    ASSUME LifeTyped, NEW r \in Updaters, Notify(r)
    PROVE  /\ Asked(r).at \in {"assigned", "completed", "resolved"}
           /\ notified' \in Counts
           /\ \A k \in InLifecycle!Notices, m \in People :
                  notified'[k][m] = notified[k][m] + (IF Sends(Asked(r), k, m) THEN 1 ELSE 0)
           /\ UNCHANGED <<feature, bug, trail, due, mixed>>
           /\ \/ updateReq' = [updateReq EXCEPT ![r] = InLifecycle!Idle]
              \/ /\ Asked(r).at = "assigned"
                 /\ [Asked(r) EXCEPT !.at = "completed"] \in FeatureUpdate
                 /\ updateReq' = [updateReq EXCEPT ![r] = [Asked(r) EXCEPT !.at = "completed"]]
<1> DEFINE q == Asked(r)
<1>0. /\ "FEATURE_ASSIGNED" \in InLifecycle!Notices /\ "FEATURE_COMPLETED" \in InLifecycle!Notices
      /\ "BUG_RESOLVED" \in InLifecycle!Notices /\ None \notin People
      /\ notified \in Counts /\ feature \in FeatureState
    BY LifeAssumed DEF InLifecycle!Notices, LifeTyped
<1>1. CASE InLifecycle!NotifyAssigned(r)
    <2> DEFINE cond == q.assignee # None /\ q.assignee # q.old.assignee /\ q.assignee # q.by
    <2>1. /\ q.at = "assigned"
          /\ notified' = InLifecycle!CountIf(notified, cond, "FEATURE_ASSIGNED", q.assignee)
          /\ updateReq' = [updateReq EXCEPT ![r].at = "completed"]
          /\ UNCHANGED <<feature, bug, trail, due, mixed>>
        BY <1>1 DEF InLifecycle!NotifyAssigned, Asked
    <2>2. q \in FeatureUpdate
        BY <2>1, AskedTyped
    <2>3. cond \in BOOLEAN /\ (cond => q.assignee \in People)
        BY <2>2 DEF FeatureUpdate
    <2>4. \A k \in InLifecycle!Notices, m \in People :
              Sends(q, k, m) <=> cond /\ k = "FEATURE_ASSIGNED" /\ m = q.assignee
        BY <1>0, <2>1, <2>2 DEF Sends
    <2> HIDE DEF cond
    <2>5. /\ notified' \in Counts
          /\ \A k \in InLifecycle!Notices, m \in People :
                 notified'[k][m] = notified[k][m]
                     + (IF cond /\ k = "FEATURE_ASSIGNED" /\ m = q.assignee THEN 1 ELSE 0)
        BY <1>0, <2>1, <2>3, CountedIf
    <2>6. [q EXCEPT !.at = "completed"] \in FeatureUpdate
        BY <2>2 DEF FeatureUpdate
    <2>7. updateReq' = [updateReq EXCEPT ![r] = [q EXCEPT !.at = "completed"]]
        BY <2>1 DEF Asked
    <2> HIDE DEF q
    <2>8. QED
        BY ZenonT(60), <2>1, <2>4, <2>5, <2>6, <2>7 DEF q
<1>2. CASE InLifecycle!NotifyCompleted(r)
    <2> DEFINE cond == q.status = "DONE" /\ q.old.status # "DONE" /\ q.new.assignee \notin {None, q.by}
    <2>1. /\ q.at = "completed"
          /\ notified' = InLifecycle!CountIf(notified, cond, "FEATURE_COMPLETED", q.new.assignee)
          /\ updateReq' = [updateReq EXCEPT ![r] = InLifecycle!Idle]
          /\ UNCHANGED <<feature, bug, trail, due, mixed>>
        BY <1>2 DEF InLifecycle!NotifyCompleted, Asked
    <2>2. q \in FeatureUpdate
        BY <2>1, AskedTyped
    <2>3. cond \in BOOLEAN /\ (cond => q.new.assignee \in People)
        BY <2>2 DEF FeatureUpdate, FeatureState
    <2>4. \A k \in InLifecycle!Notices, m \in People :
              Sends(q, k, m) <=> cond /\ k = "FEATURE_COMPLETED" /\ m = q.new.assignee
        BY <1>0, <2>1, <2>2 DEF Sends
    <2> HIDE DEF cond
    <2>5. /\ notified' \in Counts
          /\ \A k \in InLifecycle!Notices, m \in People :
                 notified'[k][m] = notified[k][m]
                     + (IF cond /\ k = "FEATURE_COMPLETED" /\ m = q.new.assignee THEN 1 ELSE 0)
        BY <1>0, <2>1, <2>3, CountedIf
    <2> HIDE DEF q
    <2>6. QED
        BY <2>1, <2>4, <2>5 DEF q
<1>3. CASE InLifecycle!NotifyResolved(r)
    <2> DEFINE cond == q.status = "RESOLVED" /\ q.old.status # "RESOLVED"
                           /\ feature.assignee \notin {None, q.by}
    <2>1. /\ q.at = "resolved"
          /\ notified' = InLifecycle!CountIf(notified, cond, "BUG_RESOLVED", feature.assignee)
          /\ updateReq' = [updateReq EXCEPT ![r] = InLifecycle!Idle]
          /\ UNCHANGED <<feature, bug, trail, due, mixed>>
        BY <1>3 DEF InLifecycle!NotifyResolved, Asked
    <2>2. cond \in BOOLEAN /\ (cond => feature.assignee \in People)
        BY <1>0 DEF FeatureState
    <2>3. \A k \in InLifecycle!Notices, m \in People :
              Sends(q, k, m) <=> cond /\ k = "BUG_RESOLVED" /\ m = feature.assignee
        BY <1>0, <2>1 DEF Sends
    <2> HIDE DEF cond
    <2>4. /\ notified' \in Counts
          /\ \A k \in InLifecycle!Notices, m \in People :
                 notified'[k][m] = notified[k][m]
                     + (IF cond /\ k = "BUG_RESOLVED" /\ m = feature.assignee THEN 1 ELSE 0)
        BY <1>0, <2>1, <2>2, CountedIf
    <2> HIDE DEF q
    <2>5. QED
        BY <2>1, <2>3, <2>4 DEF q
<1>4. QED
    BY <1>1, <1>2, <1>3 DEF Notify

\* A request begins: it holds what it read.
Begins(r) ==
    /\ Asked(r).at = "idle"
    /\ \/ Asked(r)' \in FeatureUpdate /\ Asked(r)'.at = "write"
       \/ Asked(r)' \in BugUpdate /\ Asked(r)'.at = "writeBug"
    /\ updateReq' = [updateReq EXCEPT ![r] = Asked(r)']
    /\ UNCHANGED <<feature, bug, trail, notified, due, mixed>>

Begin(r) ==
    \E by \in People :
        \/ \E s \in FeatureTargets \cup {None}, a \in People \cup {None} :
              InLifecycle!Read(r, by, s, a)
        \/ \E s \in BugTargets : InLifecycle!ReadBug(r, by, s)

LEMMA BeginIs ==
    ASSUME LifeTyped, NEW r \in Updaters, Begin(r)
    PROVE  Begins(r)
<1>1. ASSUME NEW by \in People, NEW s \in FeatureTargets \cup {None}, NEW a \in People \cup {None},
             InLifecycle!Read(r, by, s, a)
      PROVE  Begins(r)
    <2> DEFINE q == [at |-> "write", by |-> by, status |-> s, assignee |-> a,
                     old |-> feature, new |-> feature]
    <2>1. q \in FeatureUpdate
        BY DEF FeatureUpdate, LifeTyped
    <2>2. updateReq' = [updateReq EXCEPT ![r] = q]
        BY <1>1 DEF InLifecycle!Read
    <2>3. Asked(r)' = q /\ q.at = "write"
        BY <2>2, AskedNext
    <2> HIDE DEF q
    <2>4. /\ Asked(r).at = "idle"
          /\ UNCHANGED <<feature, bug, trail, notified, due, mixed>>
        BY <1>1 DEF InLifecycle!Read, Asked
    <2>5. QED
        BY <2>1, <2>2, <2>3, <2>4 DEF Begins
<1>2. ASSUME NEW by \in People, NEW s \in BugTargets, InLifecycle!ReadBug(r, by, s)
      PROVE  Begins(r)
    <2> DEFINE q == [at |-> "writeBug", by |-> by, status |-> s, old |-> bug]
    <2>1. q \in BugUpdate
        BY DEF BugUpdate, LifeTyped
    <2>2. updateReq' = [updateReq EXCEPT ![r] = q]
        BY <1>2 DEF InLifecycle!ReadBug
    <2>3. Asked(r)' = q /\ q.at = "writeBug"
        BY <2>2, AskedNext
    <2> HIDE DEF q
    <2>4. /\ Asked(r).at = "idle"
          /\ UNCHANGED <<feature, bug, trail, notified, due, mixed>>
        BY <1>2 DEF InLifecycle!ReadBug, Asked
    <2>5. QED
        BY <2>1, <2>2, <2>3, <2>4 DEF Begins
<1>3. QED
    BY <1>1, <1>2 DEF Begin

\* The assignee of the feature is due to hear of a bug that becomes RESOLVED.
ResolvedDue(b, q) ==
    q.status = "RESOLVED" /\ b.status # "RESOLVED" /\ feature.assignee \notin {None, q.by}

LEMMA WriteBugDueIs ==
    ASSUME LifeTyped, NEW r \in Updaters, InLifecycle!WriteBug(r)
    PROVE  /\ due' \in Counts
           /\ \A k \in InLifecycle!Notices, m \in People :
                  due'[k][m] = due[k][m]
                      + (IF k = "BUG_RESOLVED" /\ ResolvedDue(bug, Asked(r)) /\ m = feature.assignee
                         THEN 1 ELSE 0)
<1> DEFINE q == Asked(r)
           cond == q.status = "RESOLVED" /\ bug.status # "RESOLVED"
                       /\ feature.assignee \notin {None, q.by}
<1>1. due' = InLifecycle!CountIf(due, cond, "BUG_RESOLVED", feature.assignee)
    BY DEF InLifecycle!WriteBug, Asked
<1>2. cond \in BOOLEAN /\ (cond => feature.assignee \in People) /\ cond = ResolvedDue(bug, q)
    BY DEF LifeTyped, FeatureState, ResolvedDue
<1>3. "BUG_RESOLVED" \in InLifecycle!Notices /\ due \in Counts
    BY DEF InLifecycle!Notices, LifeTyped
<1> HIDE DEF cond
<1>4. QED
    BY <1>1, <1>2, <1>3, CountedIf

LEMMA LogIs ==
    ASSUME LifeTyped, NEW r \in Updaters, InLifecycle!Log(r)
    PROVE  /\ Asked(r) \in FeatureUpdate /\ Asked(r).at = "log"
           /\ trail' = IF Asked(r).status = None THEN trail ELSE Append(trail, Asked(r).status)
           /\ [Asked(r) EXCEPT !.at = "assigned"] \in FeatureUpdate
           /\ updateReq' = [updateReq EXCEPT ![r] = [Asked(r) EXCEPT !.at = "assigned"]]
           /\ UNCHANGED <<feature, bug, notified, due, mixed>>
<1>1. Asked(r) \in FeatureUpdate /\ Asked(r).at = "log"
    BY AskedTyped DEF InLifecycle!Log, Asked
<1>2. [Asked(r) EXCEPT !.at = "assigned"] \in FeatureUpdate
    BY <1>1 DEF FeatureUpdate
<1>3. QED
    BY <1>1, <1>2 DEF InLifecycle!Log, Asked

LEMMA LifeCases ==
    ASSUME LifeNext
    PROVE  \/ UNCHANGED lifecycle
           \/ \E r \in Updaters : \/ Begin(r) \/ InLifecycle!Write(r) \/ InLifecycle!Log(r)
                                  \/ Notify(r) \/ InLifecycle!WriteBug(r)
           \/ \E s \in Webhooks : InLifecycle!Webhook(s)
BY DEF LifeNext, InLifecycle!Next, Begin, Notify

LEMMA LifeTypedNext ==
    ASSUME LifeTyped, LifeNext
    PROVE  LifeTyped'
<1> DEFINE Reqs == {InLifecycle!Idle} \cup FeatureUpdate \cup BugUpdate
<1>1. CASE UNCHANGED lifecycle
    BY <1>1 DEF lifecycle, LifeTyped
<1>2. ASSUME NEW r \in Updaters, NEW q \in Reqs, updateReq' = [updateReq EXCEPT ![r] = q]
      PROVE  updateReq' \in [Updaters -> Reqs]
    BY <1>2 DEF LifeTyped
<1>3. ASSUME NEW r \in Updaters, Begin(r) PROVE LifeTyped'
    <2>1. Begins(r)
        BY <1>3, BeginIs
    <2>2. updateReq' \in [Updaters -> Reqs]
        BY <1>2, <2>1 DEF Begins
    <2>3. QED
        BY <2>1, <2>2 DEF Begins, LifeTyped
<1>4. ASSUME NEW r \in Updaters, InLifecycle!Write(r) PROVE LifeTyped'
    <2>1. updateReq' \in [Updaters -> Reqs]
        BY <1>2, <1>4, WriteIs
    <2>2. feature' \in FeatureState
        <3>1. feature \in FeatureState
            BY DEF LifeTyped
        <3>2. Asked(r) \in FeatureUpdate /\ feature' = Updated(feature, Asked(r))
            BY <1>4, WriteIs
        <3>3. QED
            BY <3>1, <3>2, UpdatedFits
    <2>3. due' \in Counts
        BY ZenonT(60), <1>4, <2>2, WriteIs, FeatureDueIs
    <2>4. UNCHANGED <<bug, trail, notified>>
        BY <1>4 DEF InLifecycle!Write
    <2>5. QED
        BY <2>1, <2>2, <2>3, <2>4 DEF LifeTyped
<1>5. ASSUME NEW r \in Updaters, InLifecycle!Log(r) PROVE LifeTyped'
    <2>1. updateReq' \in [Updaters -> Reqs]
        BY <1>2, <1>5, LogIs
    <2>2. trail' \in Seq(InLifecycle!FeatureStatus) /\ trail' # <<>>
        <3>1. /\ Asked(r).status # None => Asked(r).status \in InLifecycle!FeatureStatus
              /\ trail' = IF Asked(r).status = None THEN trail ELSE Append(trail, Asked(r).status)
            BY <1>5, LogIs, LifeAssumed DEF FeatureUpdate
        <3>2. trail \in Seq(InLifecycle!FeatureStatus) /\ trail # <<>>
            BY DEF LifeTyped
        <3>3. QED
            BY <3>1, <3>2
    <2>3. UNCHANGED <<feature, bug, notified, due>>
        BY <1>5, LogIs
    <2>4. QED
        BY <2>1, <2>2, <2>3 DEF LifeTyped
<1>6. ASSUME NEW r \in Updaters, Notify(r) PROVE LifeTyped'
    <2>1. updateReq' \in [Updaters -> Reqs]
        <3>1. CASE updateReq' = [updateReq EXCEPT ![r] = InLifecycle!Idle]
            BY <1>2, <3>1
        <3>2. CASE /\ [Asked(r) EXCEPT !.at = "completed"] \in FeatureUpdate
                   /\ updateReq' = [updateReq EXCEPT ![r] = [Asked(r) EXCEPT !.at = "completed"]]
            BY <1>2, <3>2
        <3>3. QED
            BY <1>6, <3>1, <3>2, NotifyIs
    <2>2. notified' \in Counts /\ UNCHANGED <<feature, bug, trail, due>>
        BY <1>6, NotifyIs
    <2>3. QED
        BY <2>1, <2>2 DEF LifeTyped
<1>7. ASSUME NEW r \in Updaters, InLifecycle!WriteBug(r) PROVE LifeTyped'
    <2>1. updateReq' \in [Updaters -> Reqs]
        BY <1>2, <1>7, WriteBugIs
    <2>2. bug' \in BugState
        BY ZenonT(60), <1>7, WriteBugIs, BugUpdatedFits DEF LifeTyped
    <2>3. due' \in Counts
        BY <1>7, WriteBugDueIs
    <2>4. UNCHANGED <<feature, trail, notified>>
        BY <1>7 DEF InLifecycle!WriteBug
    <2>5. QED
        BY <2>1, <2>2, <2>3, <2>4 DEF LifeTyped
<1>8. ASSUME NEW s \in Webhooks, InLifecycle!Webhook(s) PROVE LifeTyped'
    <2>1. /\ feature' = [feature EXCEPT !.status = s] /\ trail' = Append(trail, s)
          /\ UNCHANGED <<bug, updateReq, notified, due>>
        BY <1>8 DEF InLifecycle!Webhook
    <2>2. s \in InLifecycle!FeatureStatus
        BY LifeAssumed DEF InLifecycle!FeatureStatus
    <2>3. feature' \in FeatureState
        BY <2>1, <2>2 DEF LifeTyped, FeatureState
    <2>4. trail' \in Seq(InLifecycle!FeatureStatus) /\ trail' # <<>>
        BY <2>1, <2>2 DEF LifeTyped
    <2>5. QED
        BY <2>1, <2>3, <2>4 DEF LifeTyped
<1>9. QED
    BY <1>1, <1>3, <1>4, <1>5, <1>6, <1>7, <1>8, LifeCases

\* The stamps and the log.
Logging(r) == Asked(r).at = "log"

\* Where no write came before the log entry of another, at most one update has to log
\* its status, and that is the feature's.
TrailInv ==
    "trail" \notin mixed =>
        /\ \A r, s \in Updaters : Logging(r) /\ Logging(s) => r = s
        /\ (\A r \in Updaters : ~Logging(r)) => trail[Len(trail)] = feature.status
        /\ \A r \in Updaters : Logging(r) =>
              feature.status = IF Asked(r).status = None THEN trail[Len(trail)] ELSE Asked(r).status

StampsInv == InLifecycle!FeatureDated /\ InLifecycle!BugDated

LEMMA DatedIsFits ==
    /\ InLifecycle!Dated <=> FeatureFits(feature)
    /\ InLifecycle!BugIsDated <=> BugFits(bug)
BY DEF InLifecycle!Dated, InLifecycle!BugIsDated, FeatureFits, BugFits

LEMMA StampsInit == InLifecycle!Init => StampsInv /\ TrailInv
<1> SUFFICES ASSUME InLifecycle!Init PROVE StampsInv /\ TrailInv
    OBVIOUS
<1>1. /\ feature.status = "PLANNED" /\ feature.started = FALSE /\ feature.completed = FALSE
      /\ bug.status = "OPEN" /\ bug.resolved = FALSE /\ bug.closed = FALSE
      /\ trail = <<"PLANNED">>
    BY DEF InLifecycle!Init
<1>2. FeatureFits(feature)
    BY <1>1 DEF FeatureFits, InLifecycle!Started
<1>3. BugFits(bug)
    <2>1. InLifecycle!Settled("OPEN") = FALSE /\ ("OPEN" = "CLOSED") = FALSE
        BY DEF InLifecycle!Settled
    <2>2. QED
        BY <1>1, <2>1 DEF BugFits
<1>4. \A r \in Updaters : ~Logging(r)
    BY DEF InLifecycle!Init, Logging, Asked, InLifecycle!Idle
<1>5. trail[Len(trail)] = feature.status
    BY <1>1
<1>6. TrailInv
    BY <1>4, <1>5 DEF TrailInv
<1>7. QED
    BY <1>2, <1>3, <1>6, DatedIsFits DEF StampsInv, InLifecycle!FeatureDated, InLifecycle!BugDated

LEMMA StampsNext ==
    ASSUME LifeTyped, StampsInv, LifeNext
    PROVE  StampsInv'
<1>0. /\ "feature" \notin mixed => FeatureFits(feature)
      /\ "bug" \notin mixed => BugFits(bug)
    BY DatedIsFits DEF StampsInv, InLifecycle!FeatureDated, InLifecycle!BugDated
<1>1. ASSUME UNCHANGED <<feature, bug, mixed>> PROVE StampsInv'
    BY <1>1 DEF StampsInv, InLifecycle!FeatureDated, InLifecycle!BugDated,
       InLifecycle!Dated, InLifecycle!BugIsDated
<1>2. ASSUME "feature" \notin mixed' => FeatureFits(feature'),
             "bug" \notin mixed' => BugFits(bug')
      PROVE  StampsInv'
    BY <1>2 DEF StampsInv, InLifecycle!FeatureDated, InLifecycle!BugDated, FeatureFits, BugFits,
       InLifecycle!Dated, InLifecycle!BugIsDated
<1>3. ASSUME NEW r \in Updaters, InLifecycle!Write(r) PROVE StampsInv'
    <2>1. feature \in FeatureState /\ Asked(r) \in FeatureUpdate
          /\ feature' = Updated(feature, Asked(r))
        BY <1>3, WriteIs DEF LifeTyped
    <2>2. /\ mixed \subseteq mixed' /\ bug' = bug
          /\ "feature" \notin mixed' => Asked(r).old = feature
        BY <1>3 DEF InLifecycle!Write, Asked
    <2>3. "feature" \notin mixed' => FeatureFits(feature')
        BY <1>0, <2>1, <2>2, UpdatedFits
    <2>4. "bug" \notin mixed' => BugFits(bug')
        BY <1>0, <2>2
    <2>5. QED
        BY <1>2, <2>3, <2>4
<1>4. ASSUME NEW r \in Updaters, InLifecycle!WriteBug(r) PROVE StampsInv'
    <2>1. bug \in BugState /\ Asked(r) \in BugUpdate /\ bug' = BugUpdated(bug, Asked(r))
        BY <1>4, WriteBugIs DEF LifeTyped
    <2>2. /\ mixed \subseteq mixed' /\ feature' = feature
          /\ "bug" \notin mixed' => Asked(r).old = bug
        BY <1>4 DEF InLifecycle!WriteBug, Asked
    <2>3. "bug" \notin mixed' => BugFits(bug')
        BY <1>0, <2>1, <2>2, BugUpdatedFits
    <2>4. "feature" \notin mixed' => FeatureFits(feature')
        BY <1>0, <2>2
    <2>5. QED
        BY <1>2, <2>3, <2>4
<1>5. ASSUME NEW s \in Webhooks, InLifecycle!Webhook(s) PROVE StampsInv'
    <2>1. mixed \subseteq mixed' /\ "feature" \in mixed' /\ bug' = bug
        BY <1>5 DEF InLifecycle!Webhook
    <2>2. "bug" \notin mixed' => BugFits(bug')
        BY <1>0, <2>1
    <2>3. QED
        BY <1>2, <2>1, <2>2
<1>6. ASSUME NEW r \in Updaters, Begin(r) \/ InLifecycle!Log(r) \/ Notify(r) PROVE StampsInv'
    <2>1. UNCHANGED <<feature, bug, mixed>>
        BY <1>6, BeginIs, LogIs, NotifyIs DEF Begins
    <2>2. QED
        BY <1>1, <2>1
<1>7. QED
    BY <1>1, <1>3, <1>4, <1>5, <1>6, LifeCases DEF lifecycle

LEMMA TrailNext ==
    ASSUME LifeTyped, TrailInv, LifeNext
    PROVE  TrailInv'
<1> DEFINE Last == trail[Len(trail)]
<1>1. ASSUME UNCHANGED <<feature, trail, mixed>>,
             \A r \in Updaters : /\ Logging(r)' <=> Logging(r)
                                 /\ Logging(r) => Asked(r)' = Asked(r)
      PROVE  TrailInv'
    BY <1>1 DEF TrailInv
<1>2. ASSUME NEW r \in Updaters, InLifecycle!Write(r) PROVE TrailInv'
    <2> DEFINE q == Asked(r)
    <2>1. /\ q \in FeatureUpdate /\ q.at = "write" /\ UNCHANGED trail
          /\ feature'.status = InLifecycle!Put(feature.status, q.status)
        BY ZenonT(60), <1>2, WriteIs, UpdatedFits DEF LifeTyped, InLifecycle!Write
    <2>2. \A o \in Updaters : Asked(o)' = IF o = r THEN [q EXCEPT !.at = "log", !.new = feature']
                                          ELSE Asked(o)
        BY <1>2, WriteIs, AskedNext
    <2>3. Asked(r)'.at = "log" /\ Asked(r)'.status = q.status
        BY <2>1, <2>2 DEF FeatureUpdate
    <2>4. \A o \in Updaters : Logging(o)' <=> o = r \/ Logging(o)
        BY <2>2, <2>3 DEF Logging
    <2>5. /\ mixed \subseteq mixed'
          /\ "trail" \notin mixed' => \A o \in Updaters : ~Logging(o)
        BY <1>2 DEF InLifecycle!Write, Logging, Asked
    <2>6. ASSUME "trail" \notin mixed'
          PROVE  feature'.status = IF q.status = None THEN trail[Len(trail)] ELSE q.status
        BY <2>1, <2>5, <2>6 DEF TrailInv, InLifecycle!Put
    <2>7. QED
        BY <2>1, <2>3, <2>4, <2>5, <2>6 DEF TrailInv
<1>3. ASSUME NEW r \in Updaters, InLifecycle!Log(r) PROVE TrailInv'
    <2> DEFINE q == Asked(r)
    <2>1. /\ q \in FeatureUpdate /\ q.at = "log" /\ UNCHANGED <<feature, mixed>>
          /\ trail' = IF q.status = None THEN trail ELSE Append(trail, q.status)
        BY <1>3, LogIs
    <2>2. \A o \in Updaters : Asked(o)' = IF o = r THEN [q EXCEPT !.at = "assigned"] ELSE Asked(o)
        BY <1>3, LogIs, AskedNext
    <2>3. Asked(r)'.at = "assigned"
        BY <2>1, <2>2 DEF FeatureUpdate
    <2>4. \A o \in Updaters : Logging(o)' <=> o # r /\ Logging(o)
        BY <2>2, <2>3 DEF Logging
    <2>5. trail'[Len(trail')] = IF q.status = None THEN trail[Len(trail)] ELSE q.status
        BY <2>1 DEF LifeTyped
    <2>6. ASSUME "trail" \notin mixed'
          PROVE  /\ \A o \in Updaters : ~Logging(o)'
                 /\ trail'[Len(trail')] = feature'.status
        BY <2>1, <2>4, <2>5, <2>6 DEF TrailInv, Logging
    <2>7. QED
        BY <2>6 DEF TrailInv
<1>4. ASSUME NEW s \in Webhooks, InLifecycle!Webhook(s) PROVE TrailInv'
    <2>1. /\ feature'.status = s /\ trail' = Append(trail, s) /\ UNCHANGED updateReq
          /\ "trail" \notin mixed' => \A o \in Updaters : ~Logging(o)
        BY <1>4 DEF InLifecycle!Webhook, LifeTyped, FeatureState, Logging, Asked
    <2>2. trail'[Len(trail')] = s
        BY <2>1, LifeAssumed DEF LifeTyped, InLifecycle!FeatureStatus
    <2>3. \A o \in Updaters : Logging(o)' <=> Logging(o)
        BY <2>1 DEF Logging, Asked
    <2>4. QED
        BY <2>1, <2>2, <2>3 DEF TrailInv
<1>5. ASSUME NEW r \in Updaters, Begin(r) PROVE TrailInv'
    <2>1. /\ UNCHANGED <<feature, trail, mixed>> /\ ~Logging(r) /\ ~Logging(r)'
          /\ updateReq' = [updateReq EXCEPT ![r] = Asked(r)']
        BY <1>5, BeginIs DEF Begins, Logging
    <2>2. \A o \in Updaters : o # r => Asked(o)' = Asked(o)
        BY <2>1 DEF LifeTyped, Asked
    <2>3. QED
        BY <1>1, <2>1, <2>2 DEF Logging
<1>6. ASSUME NEW r \in Updaters, Notify(r) PROVE TrailInv'
    <2>1. UNCHANGED <<feature, trail, mixed>> /\ ~Logging(r)
        BY <1>6, NotifyIs DEF Logging
    <2>2. \A o \in Updaters : o # r => Asked(o)' = Asked(o)
        BY <1>6, NotifyIs DEF LifeTyped, Asked
    <2>3. ~Logging(r)'
        <3>1. CASE updateReq' = [updateReq EXCEPT ![r] = InLifecycle!Idle]
            <4>1. Asked(r)' = InLifecycle!Idle
                BY <3>1, AskedNext
            <4>2. QED
                BY <4>1 DEF Logging, InLifecycle!Idle
        <3>2. CASE /\ [Asked(r) EXCEPT !.at = "completed"] \in FeatureUpdate
                   /\ Asked(r).at = "assigned"
                   /\ updateReq' = [updateReq EXCEPT ![r] = [Asked(r) EXCEPT !.at = "completed"]]
            <4>1. Asked(r)' = [Asked(r) EXCEPT !.at = "completed"] /\ Asked(r) \in FeatureUpdate
                BY <3>2, AskedNext, AskedTyped
            <4>2. QED
                BY <4>1 DEF Logging, FeatureUpdate
        <3>3. QED
            BY <1>6, <3>1, <3>2, NotifyIs
    <2>4. QED
        BY <1>1, <2>1, <2>2, <2>3 DEF Logging
<1>7. ASSUME NEW r \in Updaters, InLifecycle!WriteBug(r) PROVE TrailInv'
    <2>1. /\ UNCHANGED <<feature, trail>> /\ ("trail" \notin mixed' => "trail" \notin mixed)
          /\ ~Logging(r) /\ ~Logging(r)'
        <3>1. Asked(r)' = [Asked(r) EXCEPT !.at = "resolved"] /\ Asked(r) \in BugUpdate
            BY <1>7, WriteBugIs, AskedNext
        <3>2. ~Logging(r)'
            BY <3>1 DEF Logging, BugUpdate
        <3>3. QED
            BY <1>7, <3>2 DEF InLifecycle!WriteBug, Logging, Asked
    <2>2. \A o \in Updaters : o # r => Asked(o)' = Asked(o)
        BY <1>7, WriteBugIs DEF LifeTyped, Asked
    <2>3. QED
        BY <2>1, <2>2 DEF TrailInv, Logging
<1>8. CASE UNCHANGED lifecycle
    BY <1>8 DEF lifecycle, TrailInv, Logging, Asked
<1>9. QED
    BY <1>2, <1>3, <1>4, <1>5, <1>6, <1>7, <1>8, LifeCases

\* What is kept with a status fits it, through any interleaving of updates of the feature
\* and its bug, as long as no other writer came between the steps of one: the lifecycle
\* stamps are derived from a row that was read before, the log entry is a later write.
THEOREM StatusIsRecorded == InLifecycle!Spec => []StatusRecorded
<1>1. InLifecycle!Init => LifeTyped /\ StampsInv /\ TrailInv
    BY LifeTypedInit, StampsInit
<1>2. LifeTyped /\ StampsInv /\ TrailInv /\ [InLifecycle!Next]_(InLifecycle!vars)
          => LifeTyped' /\ StampsInv' /\ TrailInv'
    <2>1. [InLifecycle!Next]_(InLifecycle!vars) => LifeNext
        BY DEF LifeNext, InLifecycle!vars, lifecycle
    <2>2. QED
        BY <2>1, LifeTypedNext, StampsNext, TrailNext
<1>3. LifeTyped /\ StampsInv /\ TrailInv => StatusRecorded
    BY DEF StampsInv, TrailInv, Logging, Asked, StatusRecorded, InLifecycle!StatusRecorded,
       InLifecycle!TrailEnds
<1>4. QED
    BY <1>1, <1>2, <1>3, PTL DEF InLifecycle!Spec

\* Who is told.  A notification that is due has been told, or one request has it before it.
Owes(r, k, m) ==
    \/ k = "FEATURE_ASSIGNED" /\ Asked(r).at \in {"log", "assigned"}
           /\ Asked(r).assignee = m /\ m # Asked(r).old.assignee /\ m # Asked(r).by
    \/ k = "FEATURE_COMPLETED" /\ Asked(r).at \in {"log", "assigned", "completed"}
           /\ Asked(r).status = "DONE" /\ Asked(r).old.status # "DONE"
           /\ Asked(r).new.assignee = m /\ m # Asked(r).by
    \/ k = "BUG_RESOLVED" /\ Asked(r).at = "resolved"
           /\ Asked(r).status = "RESOLVED" /\ Asked(r).old.status # "RESOLVED"
           /\ feature.assignee = m /\ m # Asked(r).by

Busy == {r \in Updaters : Asked(r).at # "idle"}
Owing(k, m) == {r \in Updaters : Owes(r, k, m)}

Unmixed == "feature" \notin mixed /\ "bug" \notin mixed

TellInv ==
    /\ IsFiniteSet(Busy)
    /\ Unmixed => \A k \in InLifecycle!Notices, m \in People :
                      due[k][m] = notified[k][m] + Cardinality(Owing(k, m))

LEMMA TellInit == InLifecycle!Init => TellInv
<1> SUFFICES ASSUME InLifecycle!Init PROVE TellInv
    OBVIOUS
<1>1. \A r \in Updaters : Asked(r).at = "idle"
    BY DEF InLifecycle!Init, InLifecycle!Idle, Asked
<1>2. Busy = {} /\ \A k \in InLifecycle!Notices, m \in People : Owing(k, m) = {}
    BY <1>1 DEF Busy, Owing, Owes
<1>3. \A k \in InLifecycle!Notices, m \in People : due[k][m] = 0 /\ notified[k][m] = 0
    BY DEF InLifecycle!Init, InLifecycle!NoCount
<1>4. \A k \in InLifecycle!Notices, m \in People : Cardinality(Owing(k, m)) = 0
    BY <1>2, FS_EmptySet
<1>5. IsFiniteSet(Busy)
    BY <1>2, FS_EmptySet
<1>6. QED
    BY <1>3, <1>4, <1>5 DEF TellInv

\* What one request's step does to the number of those that owe a notification.
LEMMA OwingChanges ==
    ASSUME TellInv, NEW r \in Updaters, NEW k, NEW m,
           \A o \in Updaters : o # r => (Owes(o, k, m)' <=> Owes(o, k, m))
    PROVE  /\ Cardinality(Owing(k, m)) \in Nat
           /\ Cardinality(Owing(k, m))' \in Nat
           /\ Cardinality(Owing(k, m))' + (IF Owes(r, k, m) THEN 1 ELSE 0)
                = Cardinality(Owing(k, m)) + (IF Owes(r, k, m)' THEN 1 ELSE 0)
<1> DEFINE S == Owing(k, m)
           T == Owing(k, m)'
           R == S \ {r}
<1>1. S \in SUBSET Busy
    BY DEF Owing, Owes, Busy
<1>2. IsFiniteSet(S) /\ Cardinality(S) \in Nat
    BY <1>1, FS_Subset, FS_CardinalityType DEF TellInv
<1>3. IsFiniteSet(R) /\ Cardinality(R) \in Nat
    BY <1>2, FS_RemoveElement, FS_CardinalityType
<1>4. r \notin R
    OBVIOUS
<1>5. S = IF Owes(r, k, m) THEN R \cup {r} ELSE R
    BY DEF Owing
<1>6. T = IF Owes(r, k, m)' THEN R \cup {r} ELSE R
    BY DEF Owing
<1> HIDE DEF S, T, R
<1>7. Cardinality(R \cup {r}) = Cardinality(R) + 1
    BY <1>3, <1>4, FS_AddElement
<1>8. Cardinality(S) = Cardinality(R) + (IF Owes(r, k, m) THEN 1 ELSE 0)
    BY <1>3, <1>5, <1>7
<1>9. Cardinality(T) = Cardinality(R) + (IF Owes(r, k, m)' THEN 1 ELSE 0)
    BY <1>3, <1>6, <1>7
<1>10. Cardinality(T) \in Nat
    BY <1>3, <1>9
<1>11. QED
    BY <1>2, <1>3, <1>8, <1>9, <1>10 DEF S, T

LEMMA BusyStaysFinite ==
    ASSUME TellInv, NEW r \in Updaters, \A o \in Updaters : o # r => Asked(o)' = Asked(o)
    PROVE  IsFiniteSet(Busy')
<1>1. Busy' \in SUBSET (Busy \cup {r})
    BY DEF Busy
<1>2. IsFiniteSet(Busy \cup {r})
    BY FS_AddElement DEF TellInv
<1>3. QED
    BY <1>1, <1>2, FS_Subset

\* A step of request r in which what becomes due, and what is told, goes with what the
\* request owes.
LEMMA TellStep ==
    ASSUME LifeTyped, LifeTyped', TellInv, NEW r \in Updaters,
           \A o \in Updaters : o # r => Asked(o)' = Asked(o),
           Unmixed' => Unmixed,
           ASSUME Unmixed', NEW k \in InLifecycle!Notices, NEW m \in People
           PROVE  /\ \A o \in Updaters : o # r => (Owes(o, k, m)' <=> Owes(o, k, m))
                  /\ (due'[k][m] - due[k][m]) + (IF Owes(r, k, m) THEN 1 ELSE 0)
                       = (notified'[k][m] - notified[k][m]) + (IF Owes(r, k, m)' THEN 1 ELSE 0)
    PROVE  TellInv'
<1>1. ASSUME Unmixed', NEW k \in InLifecycle!Notices, NEW m \in People
      PROVE  due'[k][m] = notified'[k][m] + Cardinality(Owing(k, m))'
    <2>1. due[k][m] = notified[k][m] + Cardinality(Owing(k, m))
        BY <1>1 DEF TellInv
    <2>2. (due'[k][m] - due[k][m]) + (IF Owes(r, k, m) THEN 1 ELSE 0)
              = (notified'[k][m] - notified[k][m]) + (IF Owes(r, k, m)' THEN 1 ELSE 0)
        BY <1>1
    <2>3. /\ Cardinality(Owing(k, m)) \in Nat /\ Cardinality(Owing(k, m))' \in Nat
          /\ Cardinality(Owing(k, m))' + (IF Owes(r, k, m) THEN 1 ELSE 0)
                = Cardinality(Owing(k, m)) + (IF Owes(r, k, m)' THEN 1 ELSE 0)
        BY <1>1, OwingChanges
    <2>4. /\ due[k][m] \in Nat /\ notified[k][m] \in Nat
          /\ due'[k][m] \in Nat /\ notified'[k][m] \in Nat
        BY DEF LifeTyped, Counts
    <2> DEFINE a == due[k][m]
               b == notified[k][m]
               c == due'[k][m]
               d == notified'[k][m]
               n == Cardinality(Owing(k, m))
               p == Cardinality(Owing(k, m))'
               x == IF Owes(r, k, m) THEN 1 ELSE 0
               y == IF Owes(r, k, m)' THEN 1 ELSE 0
    <2>5. x \in Nat /\ y \in Nat
        OBVIOUS
    <2>6. /\ a = b + n /\ (c - a) + x = (d - b) + y /\ p + x = n + y
          /\ {a, b, c, d, n, p} \subseteq Nat
        BY <2>1, <2>2, <2>3, <2>4
    <2> HIDE DEF a, b, c, d, n, p, x, y
    <2>7. c = d + p
        BY <2>5, <2>6
    <2>8. QED
        BY <2>7 DEF c, d, p
<1>2. IsFiniteSet(Busy')
    BY BusyStaysFinite
<1>3. QED
    BY <1>1, <1>2 DEF TellInv

LEMMA TellBegin ==
    ASSUME LifeTyped, LifeTyped', TellInv, NEW r \in Updaters, Begin(r)
    PROVE  TellInv'
<1>1. Begins(r)
    BY BeginIs
<1>2. \A o \in Updaters : o # r => Asked(o)' = Asked(o)
    BY <1>1, AskedNext DEF Begins
<1>3. UNCHANGED <<feature, notified, due, mixed>>
    BY <1>1 DEF Begins
<1>4. ASSUME NEW k \in InLifecycle!Notices, NEW m \in People
      PROVE  /\ \A o \in Updaters : o # r => (Owes(o, k, m)' <=> Owes(o, k, m))
             /\ ~Owes(r, k, m) /\ ~Owes(r, k, m)'
             /\ due'[k][m] - due[k][m] = 0 /\ notified'[k][m] - notified[k][m] = 0
    <2>1. \A o \in Updaters : o # r => (Owes(o, k, m)' <=> Owes(o, k, m))
        BY <1>2, <1>3 DEF Owes
    <2>2. ~Owes(r, k, m) /\ ~Owes(r, k, m)'
        BY <1>1 DEF Begins, Owes
    <2>3. due'[k][m] - due[k][m] = 0 /\ notified'[k][m] - notified[k][m] = 0
        BY <1>3 DEF LifeTyped, Counts
    <2>4. QED
        BY <2>1, <2>2, <2>3
<1>5. QED
    BY ZenonT(60), <1>2, <1>3, <1>4, TellStep DEF Unmixed

\* The write: what it owes from then on is what becomes due of it, as it was derived from
\* the row that is there.
LEMMA TellWrite ==
    ASSUME LifeTyped, LifeTyped', TellInv, NEW r \in Updaters, InLifecycle!Write(r)
    PROVE  TellInv'
<1> DEFINE q == Asked(r)
<1>1. /\ q \in FeatureUpdate /\ q.at = "write"
      /\ feature' = Updated(feature, q)
      /\ due' = InLifecycle!FeatureDue(q, feature')
      /\ updateReq' = [updateReq EXCEPT ![r] = [q EXCEPT !.at = "log", !.new = feature']]
    BY WriteIs
<1>2. \A o \in Updaters : Asked(o)' = IF o = r THEN [q EXCEPT !.at = "log", !.new = feature']
                                      ELSE Asked(o)
    BY <1>1, AskedNext
<1>3. /\ Asked(r)'.at = "log" /\ Asked(r)'.by = q.by /\ Asked(r)'.status = q.status
      /\ Asked(r)'.assignee = q.assignee /\ Asked(r)'.old = q.old /\ Asked(r)'.new = feature'
    BY <1>1, <1>2 DEF FeatureUpdate
<1>4. /\ UNCHANGED notified
      /\ Unmixed' => Unmixed /\ q.old = feature
                     /\ \A o \in Updaters : Asked(o).at # "resolved"
    BY DEF InLifecycle!Write, Unmixed, Asked
<1>5. feature \in FeatureState /\ feature' \in FeatureState
    BY DEF LifeTyped
<1>6. /\ feature'.status = InLifecycle!Put(feature.status, q.status)
      /\ feature'.assignee = InLifecycle!Put(feature.assignee, q.assignee)
    BY <1>1, <1>5, UpdatedFits
<1>7. ASSUME Unmixed', NEW k \in InLifecycle!Notices, NEW m \in People
      PROVE  /\ \A o \in Updaters : o # r => (Owes(o, k, m)' <=> Owes(o, k, m))
             /\ (due'[k][m] - due[k][m]) + (IF Owes(r, k, m) THEN 1 ELSE 0)
                  = (notified'[k][m] - notified[k][m]) + (IF Owes(r, k, m)' THEN 1 ELSE 0)
    <2>1. \A o \in Updaters : o # r => (Owes(o, k, m)' <=> Owes(o, k, m))
        BY <1>2, <1>4, <1>7 DEF Owes
    <2>2. ~Owes(r, k, m)
        BY <1>1 DEF Owes
    <2>3. m # None
        BY LifeAssumed
    <2> DEFINE assigned == k = "FEATURE_ASSIGNED" /\ AssignedDue(feature, q) /\ m = q.assignee
               done == k = "FEATURE_COMPLETED" /\ CompletedDue(feature, q, feature')
                           /\ m = feature'.assignee
    <2>4. due'[k][m] = due[k][m] + (IF assigned THEN 1 ELSE 0) + (IF done THEN 1 ELSE 0)
        BY <1>1, <1>5, FeatureDueIs
    <2>5. Owes(r, k, m)' <=> assigned \/ done
        <3>1. q.old = feature
            BY <1>4, <1>7
        <3>2. k = "FEATURE_ASSIGNED" => (Owes(r, k, m)' <=> AssignedDue(feature, q) /\ m = q.assignee)
            BY <1>3, <2>3, <3>1 DEF Owes, AssignedDue
        <3>3. q.status = "DONE" /\ feature.status # "DONE"
                  <=> feature'.status = "DONE" /\ feature.status # "DONE"
            BY <1>6, LifeAssumed DEF InLifecycle!Put, InLifecycle!FeatureStatus
        <3>4. k = "FEATURE_COMPLETED" => (Owes(r, k, m)' <=> done)
            BY <1>3, <2>3, <3>1, <3>3 DEF Owes, CompletedDue
        <3>5. k = "BUG_RESOLVED" => ~Owes(r, k, m)'
            BY <1>3 DEF Owes
        <3>6. k \in {"FEATURE_ASSIGNED", "FEATURE_COMPLETED", "BUG_RESOLVED"}
            BY DEF InLifecycle!Notices
        <3>7. QED
            BY <3>2, <3>4, <3>5, <3>6
    <2>6. ~(assigned /\ done)
        OBVIOUS
    <2>7. due[k][m] \in Nat /\ notified[k][m] \in Nat /\ notified'[k][m] = notified[k][m]
        BY <1>4 DEF LifeTyped, Counts
    <2> HIDE DEF assigned, done
    <2>8. QED
        BY <2>1, <2>2, <2>4, <2>5, <2>6, <2>7
<1>8. QED
    BY <1>2, <1>4, <1>7, TellStep

LEMMA TellLog ==
    ASSUME LifeTyped, LifeTyped', TellInv, NEW r \in Updaters, InLifecycle!Log(r)
    PROVE  TellInv'
<1> DEFINE q == Asked(r)
<1>1. /\ q \in FeatureUpdate /\ q.at = "log"
      /\ updateReq' = [updateReq EXCEPT ![r] = [q EXCEPT !.at = "assigned"]]
      /\ UNCHANGED <<feature, notified, due, mixed>>
    BY LogIs
<1>2. \A o \in Updaters : Asked(o)' = IF o = r THEN [q EXCEPT !.at = "assigned"] ELSE Asked(o)
    BY <1>1, AskedNext
<1>3. /\ Asked(r)'.at = "assigned" /\ Asked(r)'.by = q.by /\ Asked(r)'.status = q.status
      /\ Asked(r)'.assignee = q.assignee /\ Asked(r)'.old = q.old /\ Asked(r)'.new = q.new
    BY <1>1, <1>2 DEF FeatureUpdate
<1>4. ASSUME NEW k \in InLifecycle!Notices, NEW m \in People
      PROVE  /\ \A o \in Updaters : Owes(o, k, m)' <=> Owes(o, k, m)
             /\ due'[k][m] - due[k][m] = 0 /\ notified'[k][m] - notified[k][m] = 0
    <2>1. \A o \in Updaters : o # r => (Owes(o, k, m)' <=> Owes(o, k, m))
        BY <1>1, <1>2 DEF Owes
    <2>2. Owes(r, k, m)' <=> Owes(r, k, m)
        BY <1>1, <1>3 DEF Owes
    <2>3. due'[k][m] - due[k][m] = 0 /\ notified'[k][m] - notified[k][m] = 0
        BY <1>1 DEF LifeTyped, Counts
    <2>4. QED
        BY <2>1, <2>2, <2>3
<1>5. QED
    BY <1>1, <1>2, <1>4, TellStep DEF Unmixed

\* A notification step tells what its request owed at it, and owes the rest as before.
LEMMA TellNotify ==
    ASSUME LifeTyped, LifeTyped', TellInv, NEW r \in Updaters, Notify(r)
    PROVE  TellInv'
<1> DEFINE q == Asked(r)
<1>1. /\ q.at \in {"assigned", "completed", "resolved"}
      /\ \A k \in InLifecycle!Notices, m \in People :
             notified'[k][m] = notified[k][m] + (IF Sends(q, k, m) THEN 1 ELSE 0)
      /\ UNCHANGED <<feature, due, mixed>>
    BY NotifyIs
<1>2. \/ updateReq' = [updateReq EXCEPT ![r] = InLifecycle!Idle] /\ q.at \in {"completed", "resolved"}
      \/ /\ q.at = "assigned" /\ q \in FeatureUpdate
         /\ updateReq' = [updateReq EXCEPT ![r] = [q EXCEPT !.at = "completed"]]
    <2>1. CASE InLifecycle!NotifyAssigned(r)
        <3>1. q.at = "assigned" /\ updateReq' = [updateReq EXCEPT ![r].at = "completed"]
            BY <2>1 DEF InLifecycle!NotifyAssigned, Asked
        <3>2. QED
            BY <3>1, AskedTyped DEF Asked
    <2>2. CASE InLifecycle!NotifyCompleted(r) \/ InLifecycle!NotifyResolved(r)
        BY <2>2 DEF InLifecycle!NotifyCompleted, InLifecycle!NotifyResolved, Asked
    <2>3. QED
        BY <2>1, <2>2 DEF Notify
<1>3. \A o \in Updaters : o # r => Asked(o)' = Asked(o)
    BY <1>2, AskedNext
<1>4. ASSUME NEW k \in InLifecycle!Notices, NEW m \in People
      PROVE  Owes(r, k, m) <=> Sends(q, k, m) \/ Owes(r, k, m)'
    <2>1. CASE updateReq' = [updateReq EXCEPT ![r] = InLifecycle!Idle]
               /\ q.at \in {"completed", "resolved"}
        <3>1. Asked(r)' = InLifecycle!Idle
            BY <2>1, AskedNext
        <3>2. ~Owes(r, k, m)'
            BY <3>1 DEF Owes, InLifecycle!Idle
        <3>3. Owes(r, k, m) <=> Sends(q, k, m)
            BY <2>1 DEF Owes, Sends
        <3>4. QED
            BY <3>2, <3>3
    <2>2. CASE /\ q.at = "assigned" /\ q \in FeatureUpdate
               /\ updateReq' = [updateReq EXCEPT ![r] = [q EXCEPT !.at = "completed"]]
        <3>1. Asked(r)' = [q EXCEPT !.at = "completed"]
            BY <2>2, AskedNext
        <3>2. /\ Asked(r)'.at = "completed" /\ Asked(r)'.by = q.by /\ Asked(r)'.status = q.status
              /\ Asked(r)'.old = q.old /\ Asked(r)'.new = q.new
            BY <2>2, <3>1 DEF FeatureUpdate
        <3>3. QED
            BY <2>2, <3>2 DEF Owes, Sends
    <2>3. QED
        BY <1>2, <2>1, <2>2
<1>5. ASSUME NEW k \in InLifecycle!Notices, NEW m \in People
      PROVE  ~(Sends(q, k, m) /\ Owes(r, k, m)')
    <2>1. CASE updateReq' = [updateReq EXCEPT ![r] = InLifecycle!Idle]
        <3>1. Asked(r)' = InLifecycle!Idle
            BY <2>1, AskedNext
        <3>2. QED
            BY <3>1 DEF Owes, InLifecycle!Idle
    <2>2. CASE /\ q.at = "assigned" /\ q \in FeatureUpdate
               /\ updateReq' = [updateReq EXCEPT ![r] = [q EXCEPT !.at = "completed"]]
        <3>1. Asked(r)' = [q EXCEPT !.at = "completed"]
            BY <2>2, AskedNext
        <3>2. Asked(r)'.at = "completed"
            BY <2>2, <3>1 DEF FeatureUpdate
        <3>3. QED
            BY <2>2, <3>2 DEF Owes, Sends
    <2>3. QED
        BY <1>2, <2>1, <2>2
<1>6. ASSUME NEW k \in InLifecycle!Notices, NEW m \in People
      PROVE  /\ \A o \in Updaters : o # r => (Owes(o, k, m)' <=> Owes(o, k, m))
             /\ (due'[k][m] - due[k][m]) + (IF Owes(r, k, m) THEN 1 ELSE 0)
                  = (notified'[k][m] - notified[k][m]) + (IF Owes(r, k, m)' THEN 1 ELSE 0)
    <2>1. \A o \in Updaters : o # r => (Owes(o, k, m)' <=> Owes(o, k, m))
        BY <1>1, <1>3 DEF Owes
    <2>2. notified'[k][m] = notified[k][m] + (IF Sends(q, k, m) THEN 1 ELSE 0)
        BY <1>1
    <2>3. due[k][m] \in Nat /\ notified[k][m] \in Nat /\ due'[k][m] = due[k][m]
        BY <1>1 DEF LifeTyped, Counts
    <2>4. QED
        BY <2>1, <2>2, <2>3, <1>4, <1>5
<1>7. QED
    BY <1>1, <1>3, <1>6, TellStep DEF Unmixed

LEMMA TellWriteBug ==
    ASSUME LifeTyped, LifeTyped', TellInv, NEW r \in Updaters, InLifecycle!WriteBug(r)
    PROVE  TellInv'
<1> DEFINE q == Asked(r)
<1>1. /\ q \in BugUpdate /\ q.at = "writeBug"
      /\ updateReq' = [updateReq EXCEPT ![r] = [q EXCEPT !.at = "resolved"]]
    BY WriteBugIs
<1>2. \A o \in Updaters : Asked(o)' = IF o = r THEN [q EXCEPT !.at = "resolved"] ELSE Asked(o)
    BY <1>1, AskedNext
<1>3. /\ Asked(r)'.at = "resolved" /\ Asked(r)'.by = q.by /\ Asked(r)'.status = q.status
      /\ Asked(r)'.old = q.old
    BY <1>1, <1>2 DEF BugUpdate
<1>4. /\ UNCHANGED <<feature, notified>>
      /\ Unmixed' => Unmixed /\ q.old = bug
    BY DEF InLifecycle!WriteBug, Unmixed, Asked
<1>5. ASSUME Unmixed', NEW k \in InLifecycle!Notices, NEW m \in People
      PROVE  /\ \A o \in Updaters : o # r => (Owes(o, k, m)' <=> Owes(o, k, m))
             /\ (due'[k][m] - due[k][m]) + (IF Owes(r, k, m) THEN 1 ELSE 0)
                  = (notified'[k][m] - notified[k][m]) + (IF Owes(r, k, m)' THEN 1 ELSE 0)
    <2>1. \A o \in Updaters : o # r => (Owes(o, k, m)' <=> Owes(o, k, m))
        BY <1>2, <1>4 DEF Owes
    <2>2. ~Owes(r, k, m)
        BY <1>1 DEF Owes
    <2> DEFINE resolved == k = "BUG_RESOLVED" /\ ResolvedDue(bug, q) /\ m = feature.assignee
    <2>3. due'[k][m] = due[k][m] + (IF resolved THEN 1 ELSE 0)
        BY WriteBugDueIs
    <2>4. Owes(r, k, m)' <=> resolved
        <3>1. q.old = bug /\ m # None
            BY <1>4, <1>5, LifeAssumed
        <3>2. QED
            BY <1>3, <1>4, <3>1 DEF Owes, ResolvedDue
    <2>5. due[k][m] \in Nat /\ notified[k][m] \in Nat /\ notified'[k][m] = notified[k][m]
        BY <1>4 DEF LifeTyped, Counts
    <2> HIDE DEF resolved
    <2>6. QED
        BY <2>1, <2>2, <2>3, <2>4, <2>5
<1>6. QED
    BY <1>2, <1>4, <1>5, TellStep

LEMMA TellNext ==
    ASSUME LifeTyped, LifeTyped', TellInv, LifeNext
    PROVE  TellInv'
<1>1. CASE UNCHANGED lifecycle
    BY <1>1 DEF lifecycle, TellInv, Busy, Owing, Owes, Asked, Unmixed
<1>2. ASSUME NEW s \in Webhooks, InLifecycle!Webhook(s) PROVE TellInv'
    <2>1. "feature" \in mixed' /\ UNCHANGED updateReq
        BY <1>2 DEF InLifecycle!Webhook
    <2>2. QED
        BY <2>1 DEF TellInv, Unmixed, Busy, Asked
<1>3. QED
    BY <1>1, <1>2, TellBegin, TellWrite, TellLog, TellNotify, TellWriteBug, LifeCases

\* Where no update was mixed with another writer's, everyone concerned has been told of each
\* change once when all requests have ended, though a notification is sent in a step after the
\* write, by what was read before it: what is due and not told is owed by some request.
THEOREM EveryoneIsTold == InLifecycle!Spec => []ToldAsDue
<1>1. InLifecycle!Init => LifeTyped /\ TellInv
    BY LifeTypedInit, TellInit
<1>2. LifeTyped /\ TellInv /\ [InLifecycle!Next]_(InLifecycle!vars) => LifeTyped' /\ TellInv'
    <2>1. [InLifecycle!Next]_(InLifecycle!vars) => LifeNext
        BY DEF LifeNext, InLifecycle!vars, lifecycle
    <2>2. QED
        BY <2>1, LifeTypedNext, TellNext
<1>3. LifeTyped /\ TellInv => ToldAsDue
    <2> SUFFICES ASSUME LifeTyped, TellInv, Unmixed, \A r \in Updaters : Asked(r).at = "idle"
                 PROVE  notified = due
        BY DEF ToldAsDue, InLifecycle!ToldAsDue, Unmixed, Asked
    <2>1. ASSUME NEW k \in InLifecycle!Notices, NEW m \in People
          PROVE  due[k][m] = notified[k][m]
        <3>1. Owing(k, m) = {}
            BY DEF Owing, Owes
        <3>2. Cardinality(Owing(k, m)) = 0
            BY <3>1, FS_EmptySet
        <3>3. QED
            BY <3>2 DEF TellInv, LifeTyped, Counts
    <2>2. \A k \in InLifecycle!Notices : due[k] = notified[k]
        BY <2>1 DEF LifeTyped, Counts
    <2>3. QED
        BY <2>2 DEF LifeTyped, Counts
<1>4. QED
    BY <1>1, <1>2, <1>3, PTL DEF InLifecycle!Spec

(***************************************************************************)
(* IssueRecords.                                                            *)
(***************************************************************************)

BugRecord == [project : RecordProjects \cup {None}, feature : RecordFeatures \cup {None},
              reporter : Authors \cup {None}]
RecordSteps == {"idle", "resolve", "insert", "write", "log", "delete", "notifyFeature", "notifyBug",
                "done", "failed", "refused"}
RecordRequest == [at : RecordSteps, call : InRecords!AllCalls \cup {None}, by : Authors \cup {None},
                  feature : RecordFeatures \cup {None, Undefined},
                  project : RecordProjects \cup {Undefined}, bug : Bugs \cup {None},
                  old : BugRecord, comment : Requests \cup {None},
                  result : RecordProjects \cup {None, "failed", "refused"}]

RecordsTyped ==
    /\ featureRows \subseteq RecordFeatures
    /\ bugRow \in [Bugs -> BugRecord]
    /\ recordReq \in [Requests -> RecordRequest]
    /\ \A c \in comments : c.id \in Requests

\* The feature that a bug has when the update q, of what it read, is written.
FeatureAfter(q) == IF q.feature # Undefined THEN q.feature ELSE q.old.feature

\* The project that a request holds is that of the feature it puts the bug under; an
\* update that holds none leaves the feature alone.
ProjectKnown(q) ==
    /\ q.call = "createBug" /\ q.at = "insert" =>
          /\ q.result \in RecordProjects
          /\ q.feature \notin {None, Undefined} => q.result = ProjectOf[q.feature]
    /\ q.call = "updateBug" /\ q.at \in {"resolve", "write"} =>
          q.old.project # None /\ q.bug \in Bugs
    /\ q.call = "updateBug" /\ q.at = "write" =>
          /\ q.result \in RecordProjects \cup {None}
          /\ q.result = None => q.feature = Undefined
          /\ q.result # None /\ FeatureAfter(q) # None => q.result = ProjectOf[FeatureAfter(q)]

RecordsInv == RecordsTyped /\ BugInProject /\ \A r \in Requests : ProjectKnown(recordReq[r])

LEMMA RecordsAssumed ==
    /\ ProjectOf \in [RecordFeatures -> RecordProjects]
    /\ None \notin RecordFeatures \cup RecordProjects \cup Bugs \cup Authors
    /\ Undefined \notin RecordFeatures \cup RecordProjects \cup Bugs \cup Authors
    /\ None # Undefined
    /\ {"failed", "refused"} \cap (RecordProjects \cup {None}) = {}
BY WorkAssumption DEF InRecords!RecordsAssumption

LEMMA ResolvedProject ==
    ASSUME RecordsTyped, NEW f \in RecordFeatures \cup {None, Undefined},
           NEW p \in RecordProjects \cup {Undefined}
    PROVE  /\ InRecords!ResolveProjectId(f, p) \in RecordProjects \cup {"failed", "refused"}
           /\ InRecords!ResolveProjectId(f, p) \in RecordProjects /\ f \notin {None, Undefined}
                 => InRecords!ResolveProjectId(f, p) = ProjectOf[f]
BY RecordsAssumed DEF InRecords!ResolveProjectId, RecordsTyped

LEMMA RecordsInit == InRecords!Init => RecordsInv
<1> SUFFICES ASSUME InRecords!Init PROVE RecordsInv
    OBVIOUS
<1>1. InRecords!NoBug \in BugRecord
    BY DEF InRecords!NoBug, BugRecord
<1>2. InRecords!Idle \in RecordRequest
    BY <1>1 DEF InRecords!Idle, RecordRequest, RecordSteps
<1>3. RecordsTyped
    BY <1>1, <1>2 DEF InRecords!Init, RecordsTyped
<1>4. ProjectKnown(InRecords!Idle)
    BY DEF ProjectKnown, InRecords!Idle
<1>5. \A r \in Requests : ProjectKnown(recordReq[r])
    BY <1>4 DEF InRecords!Init
<1>6. \A b \in Bugs : bugRow[b].project = None
    BY DEF InRecords!Init, InRecords!NoBug
<1>7. BugInProject
    BY <1>6 DEF BugInProject, InRecords!BugInProject, InRecords!InProject, InRecords!HasBug
<1>8. QED
    BY <1>3, <1>5, <1>7 DEF RecordsInv

\* A step that leaves the bugs alone, of one request or of none.
LEMMA RequestMoves ==
    ASSUME RecordsInv, UNCHANGED <<bugRow, stale>>, featureRows' \subseteq RecordFeatures,
           \A c \in comments' : c.id \in Requests,
           NEW r \in Requests, NEW q \in RecordRequest, ProjectKnown(q),
           recordReq' = [recordReq EXCEPT ![r] = q]
    PROVE  RecordsInv'
<1>1. RecordsTyped'
    BY DEF RecordsInv, RecordsTyped
<1>2. BugInProject'
    BY DEF RecordsInv, BugInProject, InRecords!BugInProject, InRecords!InProject, InRecords!HasBug
<1>3. \A s \in Requests : recordReq'[s] = IF s = r THEN q ELSE recordReq[s]
    BY DEF RecordsInv, RecordsTyped
<1>4. \A s \in Requests : ProjectKnown(recordReq[s])'
    BY <1>3 DEF RecordsInv, ProjectKnown, FeatureAfter
<1>5. QED
    BY <1>1, <1>2, <1>4 DEF RecordsInv

\* A step that ends a request, or takes it past where it knows a project.
LEMMA GoneOn ==
    ASSUME RecordsInv, NEW r \in Requests, NEW step \in RecordSteps \ {"insert", "resolve", "write"}
    PROVE  /\ [recordReq[r] EXCEPT !.at = step] \in RecordRequest
           /\ ProjectKnown([recordReq[r] EXCEPT !.at = step])
<1>1. recordReq[r] \in RecordRequest
    BY DEF RecordsInv, RecordsTyped
<1>2. [recordReq[r] EXCEPT !.at = step] \in RecordRequest
    BY <1>1 DEF RecordRequest
<1>3. [recordReq[r] EXCEPT !.at = step].at = step
    BY <1>1 DEF RecordRequest
<1>4. QED
    BY <1>2, <1>3 DEF ProjectKnown

\* A step that changes bugs keeps the invariant if each bug it changes is fine after it.
LEMMA BugsChange ==
    ASSUME RecordsInv, bugRow' \in [Bugs -> BugRecord], featureRows' \subseteq RecordFeatures,
           \A c \in comments' : c.id \in Requests,
           NEW r \in Requests, NEW step \in RecordSteps \ {"insert", "resolve", "write"},
           recordReq' = [recordReq EXCEPT ![r].at = step],
           \A b \in Bugs : b \notin stale' =>
               \/ bugRow'[b] = bugRow[b] /\ b \notin stale
               \/ bugRow'[b].project = None \/ bugRow'[b].feature = None
               \/ bugRow'[b].project = ProjectOf[bugRow'[b].feature]
    PROVE  RecordsInv'
<1> DEFINE q == [recordReq[r] EXCEPT !.at = step]
<1>1. q \in RecordRequest /\ ProjectKnown(q)
    BY GoneOn
<1>2. recordReq' = [recordReq EXCEPT ![r] = q]
    OBVIOUS
<1> HIDE DEF q
<1>3. RecordsTyped'
    BY <1>1, <1>2 DEF RecordsInv, RecordsTyped
<1>4. \A s \in Requests : recordReq'[s] = IF s = r THEN q ELSE recordReq[s]
    BY <1>2 DEF RecordsInv, RecordsTyped
<1>5. \A s \in Requests : ProjectKnown(recordReq[s])'
    BY <1>1, <1>4 DEF RecordsInv, ProjectKnown, FeatureAfter
<1>6. BugInProject'
    BY DEF RecordsInv, BugInProject, InRecords!BugInProject, InRecords!InProject, InRecords!HasBug
<1>7. QED
    BY <1>3, <1>5, <1>6 DEF RecordsInv

LEMMA CreateBugKeeps ==
    ASSUME RecordsInv, NEW r \in Requests, NEW m \in Authors,
           NEW f \in RecordFeatures \cup {Undefined}, NEW p \in RecordProjects \cup {Undefined},
           InRecords!CreateBug(r, m, f, p)
    PROVE  RecordsInv'
<1> DEFINE result == InRecords!ResolveProjectId(f, p)
           step == IF result \in RecordProjects THEN "insert" ELSE result
           q == [recordReq[r] EXCEPT !.call = "createBug", !.by = m, !.feature = f, !.project = p,
                                     !.result = result, !.at = step]
<1>1. recordReq[r] \in RecordRequest /\ RecordsTyped
    BY DEF RecordsInv, RecordsTyped
<1>2. /\ result \in RecordProjects \cup {"failed", "refused"}
      /\ result \in RecordProjects /\ f \notin {None, Undefined} => result = ProjectOf[f]
    BY <1>1, ResolvedProject
<1>3. step \in RecordSteps /\ (step = "insert" => result \in RecordProjects)
      /\ step \in {"insert", "failed", "refused"}
    BY <1>2 DEF RecordSteps
<1>4. recordReq' = [recordReq EXCEPT ![r] = q]
    BY <1>1 DEF InRecords!CreateBug, RecordsTyped
<1>5. UNCHANGED <<featureRows, bugRow, comments, stale>>
    BY DEF InRecords!CreateBug
<1> HIDE DEF result, step
<1>6. q \in RecordRequest
    BY ZenonT(60), <1>1, <1>2, <1>3 DEF RecordRequest, InRecords!AllCalls
<1>7. q.call = "createBug" /\ q.at = step /\ q.feature = f /\ q.result = result
    BY <1>1 DEF RecordRequest
<1> HIDE DEF q
<1>8. ProjectKnown(q)
    BY <1>2, <1>3, <1>7 DEF ProjectKnown
<1>9. QED
    BY <1>1, <1>4, <1>5, <1>6, <1>8, RequestMoves DEF RecordsTyped

LEMMA ReadBugKeeps ==
    ASSUME RecordsInv, NEW r \in Requests, NEW b \in Bugs,
           NEW f \in RecordFeatures \cup {None, Undefined}, NEW p \in RecordProjects \cup {Undefined},
           InRecords!ReadBug(r, b, f, p)
    PROVE  RecordsInv'
<1> DEFINE q == [recordReq[r] EXCEPT !.call = "updateBug", !.bug = b, !.feature = f, !.project = p,
                                     !.old = bugRow[b], !.at = "resolve"]
<1>1. recordReq[r] \in RecordRequest /\ bugRow[b] \in BugRecord /\ RecordsTyped
    BY DEF RecordsInv, RecordsTyped
<1>2. recordReq' = [recordReq EXCEPT ![r] = q]
    BY <1>1 DEF InRecords!ReadBug, RecordsTyped
<1>3. UNCHANGED <<featureRows, bugRow, comments, stale>> /\ bugRow[b].project # None
    BY DEF InRecords!ReadBug, InRecords!HasBug
<1>4. q \in RecordRequest
    BY <1>1 DEF RecordRequest, RecordSteps, InRecords!AllCalls
<1>5. q.call = "updateBug" /\ q.at = "resolve" /\ q.bug = b /\ q.old = bugRow[b]
    BY <1>1 DEF RecordRequest
<1> HIDE DEF q
<1>6. ProjectKnown(q)
    BY <1>3, <1>5 DEF ProjectKnown
<1>7. QED
    BY <1>1, <1>2, <1>3, <1>4, <1>6, RequestMoves DEF RecordsTyped

\* The project is derived from what is in the request and, for the rest, from the bug as
\* it was read.
LEMMA ResolveBugKeeps ==
    ASSUME RecordsInv, NEW r \in Requests, InRecords!ResolveBug(r)
    PROVE  RecordsInv'
<1> DEFINE o == recordReq[r]
           f == IF o.feature # Undefined THEN o.feature ELSE o.old.feature
           p == IF o.project # Undefined THEN o.project ELSE o.old.project
           result == IF o.feature = Undefined /\ o.project = Undefined THEN None
                     ELSE InRecords!ResolveProjectId(f, p)
           step == IF result \in RecordProjects \cup {None} THEN "write" ELSE result
           q == [o EXCEPT !.result = result, !.at = step]
<1>1. o \in RecordRequest /\ RecordsTyped /\ ProjectKnown(o)
    BY DEF RecordsInv, RecordsTyped
<1>2. o.call = "updateBug" /\ o.at = "resolve"
    BY DEF InRecords!ResolveBug, InRecords!At
<1>3. o.old \in BugRecord /\ o.old.project # None /\ o.bug \in Bugs
    BY <1>1, <1>2 DEF ProjectKnown, RecordRequest
<1>4. f \in RecordFeatures \cup {None} /\ p \in RecordProjects
    BY <1>1, <1>3 DEF RecordRequest, BugRecord
<1>5. /\ InRecords!ResolveProjectId(f, p) \in RecordProjects \cup {"failed", "refused"}
      /\ InRecords!ResolveProjectId(f, p) \in RecordProjects /\ f \notin {None, Undefined}
            => InRecords!ResolveProjectId(f, p) = ProjectOf[f]
    BY <1>1, <1>4, ResolvedProject
<1>6. recordReq' = [recordReq EXCEPT ![r] = q]
    BY <1>1 DEF InRecords!ResolveBug, RecordsTyped
<1>7. UNCHANGED <<featureRows, bugRow, comments, stale>>
    BY DEF InRecords!ResolveBug
<1>8. f = FeatureAfter(o)
    BY DEF FeatureAfter
<1> HIDE DEF f, p
<1>9. /\ result \in RecordProjects \cup {None, "failed", "refused"}
      /\ result = None => o.feature = Undefined
      /\ result \in RecordProjects /\ f # None => result = ProjectOf[f]
    BY <1>4, <1>5, RecordsAssumed
<1> HIDE DEF result
<1>10. /\ step \in {"write", "failed", "refused"}
       /\ step = "write" => result \in RecordProjects \cup {None}
    BY <1>9, RecordsAssumed
<1> HIDE DEF step
<1>11. q \in RecordRequest
    BY ZenonT(60), <1>1, <1>9, <1>10 DEF RecordRequest, RecordSteps
<1>12. /\ q.call = o.call /\ q.at = step /\ q.bug = o.bug /\ q.old = o.old /\ q.result = result
       /\ q.feature = o.feature
    BY <1>1 DEF RecordRequest
<1> HIDE DEF q, o
<1>13. ProjectKnown(q)
    BY <1>2, <1>3, <1>8, <1>9, <1>10, <1>12 DEF ProjectKnown, FeatureAfter
<1>14. QED
    BY <1>1, <1>6, <1>7, <1>11, <1>13, RequestMoves DEF RecordsTyped

LEMMA InsertBugKeeps ==
    ASSUME RecordsInv, NEW r \in Requests, InRecords!InsertBug(r)
    PROVE  RecordsInv'
<1> DEFINE o == recordReq[r]
           f == IF o.feature = Undefined THEN None ELSE o.feature
<1>1. o \in RecordRequest /\ RecordsTyped /\ ProjectKnown(o)
    BY DEF RecordsInv, RecordsTyped
<1>2. o.call = "createBug" /\ o.at = "insert"
    BY DEF InRecords!InsertBug, InRecords!At
<1>3. o.result \in RecordProjects /\ (f # None => o.result = ProjectOf[f])
    BY <1>1, <1>2 DEF ProjectKnown
<1>4. UNCHANGED <<featureRows, comments, stale>>
    BY DEF InRecords!InsertBug
<1>5. \A c \in comments' : c.id \in Requests
    BY <1>1, <1>4 DEF RecordsTyped
<1>6. ASSUME NEW b \in Bugs, ~InRecords!HasBug(b), NEW step \in {"done", "notifyFeature"},
             bugRow' = [bugRow EXCEPT ![b] = [project |-> o.result, feature |-> f,
                                              reporter |-> o.by]],
             recordReq' = [recordReq EXCEPT ![r].at = step]
      PROVE  RecordsInv'
    <2> DEFINE new == [project |-> o.result, feature |-> f, reporter |-> o.by]
    <2>1. new \in BugRecord
        BY <1>1, <1>3 DEF BugRecord, RecordRequest
    <2>2. \A d \in Bugs : bugRow'[d] = IF d = b THEN new ELSE bugRow[d]
        BY <1>1, <1>6 DEF RecordsTyped
    <2>3. bugRow' \in [Bugs -> BugRecord]
        BY <1>1, <1>6, <2>1 DEF RecordsTyped
    <2>4. new.project = o.result /\ new.feature = f
        OBVIOUS
    <2> HIDE DEF new, f, o
    <2>5. \A d \in Bugs : d \notin stale' =>
              \/ bugRow'[d] = bugRow[d] /\ d \notin stale
              \/ bugRow'[d].project = None \/ bugRow'[d].feature = None
              \/ bugRow'[d].project = ProjectOf[bugRow'[d].feature]
        BY <1>3, <1>4, <2>2, <2>4
    <2>6. step \in RecordSteps \ {"insert", "resolve", "write"}
        BY DEF RecordSteps
    <2>7. QED
        BY <1>1, <1>4, <1>5, <1>6, <2>3, <2>5, <2>6, BugsChange DEF RecordsTyped
<1>7. ASSUME UNCHANGED bugRow, recordReq' = [recordReq EXCEPT ![r].at = "failed"]
      PROVE  RecordsInv'
    <2>1. "failed" \in RecordSteps \ {"insert", "resolve", "write"}
        BY DEF RecordSteps
    <2>2. QED
        BY <1>1, <1>4, <1>5, <1>7, <2>1, BugsChange DEF RecordsTyped
<1>8. QED
    BY <1>6, <1>7 DEF InRecords!InsertBug, InRecords!Go

LEMMA WriteBugKeeps ==
    ASSUME RecordsInv, NEW r \in Requests, InRecords!WriteBug(r)
    PROVE  RecordsInv'
<1> DEFINE o == recordReq[r]
           b == o.bug
           f == IF o.feature # Undefined THEN o.feature ELSE bugRow[b].feature
           new == [bugRow[b] EXCEPT !.feature = f,
                                    !.project = IF o.result = None THEN @ ELSE o.result]
<1>1. o \in RecordRequest /\ RecordsTyped /\ ProjectKnown(o)
    BY DEF RecordsInv, RecordsTyped
<1>2. o.call = "updateBug" /\ o.at = "write"
    BY DEF InRecords!WriteBug, InRecords!At
<1>3. /\ b \in Bugs /\ o.result \in RecordProjects \cup {None}
      /\ o.result = None => o.feature = Undefined
      /\ o.result # None /\ FeatureAfter(o) # None => o.result = ProjectOf[FeatureAfter(o)]
    BY <1>1, <1>2 DEF ProjectKnown
<1>4. UNCHANGED <<featureRows, comments>>
    BY DEF InRecords!WriteBug
<1>5. \A c \in comments' : c.id \in Requests
    BY <1>1, <1>4 DEF RecordsTyped
<1>6. ASSUME bugRow' = [bugRow EXCEPT ![b].feature = f,
                                      ![b].project = IF o.result = None THEN @ ELSE o.result],
             stale' = IF bugRow[b] # o.old THEN stale \cup {b} ELSE stale,
             recordReq' = [recordReq EXCEPT ![r].at = "done"]
      PROVE  RecordsInv'
    <2>1. bugRow[b] \in BugRecord
        BY <1>1, <1>3 DEF RecordsTyped
    <2>2. bugRow' = [bugRow EXCEPT ![b] = new]
        BY <1>1, <1>6, <2>1 DEF RecordsTyped, BugRecord
    <2>3. new \in BugRecord
        BY ZenonT(60), <1>1, <1>3, <2>1 DEF BugRecord, RecordRequest
    <2>4. new.feature = f /\ new.project = IF o.result = None THEN bugRow[b].project ELSE o.result
        BY <2>1 DEF BugRecord
    <2>5. \A d \in Bugs : bugRow'[d] = IF d = b THEN new ELSE bugRow[d]
        BY <1>1, <2>2 DEF RecordsTyped
    <2>6. bugRow' \in [Bugs -> BugRecord]
        BY <1>1, <2>2, <2>3 DEF RecordsTyped
    <2>7. bugRow[b] = o.old => f = FeatureAfter(o)
        BY DEF FeatureAfter
    <2>8. ASSUME b \notin stale'
          PROVE  \/ new = bugRow[b] /\ b \notin stale
                 \/ new.project = None \/ new.feature = None
                 \/ new.project = ProjectOf[new.feature]
        <3>1. bugRow[b] = o.old /\ b \notin stale
            BY <1>6, <2>8
        <3>2. CASE o.result = None
            <4>1. f = bugRow[b].feature
                BY <1>3, <3>2
            <4>2. bugRow[b].project # None /\ bugRow[b].feature # None
                      => bugRow[b].project = ProjectOf[bugRow[b].feature]
                BY <1>3, <3>1 DEF RecordsInv, BugInProject, InRecords!BugInProject,
                   InRecords!InProject, InRecords!HasBug
            <4> HIDE DEF f, new, b, o
            <4>3. QED
                BY <2>4, <3>2, <4>1, <4>2
        <3>3. CASE o.result # None
            <4> HIDE DEF f, new, b, o
            <4>1. QED
                BY <1>3, <2>4, <2>7, <3>1, <3>3
        <3>4. QED
            BY <3>2, <3>3
    <2>9. \A d \in Bugs : d # b /\ d \notin stale' => d \notin stale
        BY <1>6
    <2>10. "done" \in RecordSteps \ {"insert", "resolve", "write"}
        BY DEF RecordSteps
    <2> HIDE DEF f, new, b, o
    <2>11. \A d \in Bugs : d \notin stale' =>
              \/ bugRow'[d] = bugRow[d] /\ d \notin stale
              \/ bugRow'[d].project = None \/ bugRow'[d].feature = None
              \/ bugRow'[d].project = ProjectOf[bugRow'[d].feature]
        BY <2>5, <2>8, <2>9
    <2>12. QED
        BY <1>1, <1>4, <1>5, <1>6, <2>6, <2>10, <2>11, BugsChange DEF RecordsTyped
<1>7. ASSUME UNCHANGED <<bugRow, stale>>, recordReq' = [recordReq EXCEPT ![r].at = "failed"]
      PROVE  RecordsInv'
    <2>1. "failed" \in RecordSteps \ {"insert", "resolve", "write"}
        BY DEF RecordSteps
    <2>2. QED
        BY <1>1, <1>4, <1>5, <1>7, <2>1, BugsChange DEF RecordsTyped
<1>8. QED
    BY <1>6, <1>7 DEF InRecords!WriteBug, InRecords!Go

LEMMA DeleteBugKeeps ==
    ASSUME RecordsInv, NEW r \in Requests, InRecords!DeleteBug(r)
    PROVE  RecordsInv'
<1> DEFINE b == recordReq[r].bug
           step == IF InRecords!HasBug(b) THEN "done" ELSE "failed"
<1>1. RecordsTyped
    BY DEF RecordsInv
<1>2. /\ bugRow' = [bugRow EXCEPT ![b] = InRecords!NoBug]
      /\ comments' \subseteq comments /\ stale' = stale \ {b} /\ UNCHANGED featureRows
      /\ recordReq' = [recordReq EXCEPT ![r].at = step]
    BY DEF InRecords!DeleteBug, InRecords!Go
<1>3. step \in RecordSteps \ {"insert", "resolve", "write"}
    BY DEF RecordSteps
<1>4. InRecords!NoBug \in BugRecord /\ InRecords!NoBug.project = None
    BY DEF InRecords!NoBug, BugRecord
<1> HIDE DEF step, b
<1>5. bugRow' \in [Bugs -> BugRecord]
    BY <1>1, <1>2, <1>4 DEF RecordsTyped
<1>6. \A d \in Bugs : d \notin stale' => \/ bugRow'[d] = bugRow[d] /\ d \notin stale
                                         \/ bugRow'[d].project = None
    BY <1>1, <1>2, <1>4 DEF RecordsTyped
<1>7. QED
    BY <1>1, <1>2, <1>3, <1>5, <1>6, BugsChange DEF RecordsTyped

\* The bugs of a feature that goes lose it.
LEMMA DeleteFeatureKeeps ==
    ASSUME RecordsInv, NEW r \in Requests, InRecords!DeleteFeature(r)
    PROVE  RecordsInv'
<1> DEFINE f == recordReq[r].feature
           step == IF f \in featureRows THEN "done" ELSE "failed"
<1>1. RecordsTyped
    BY DEF RecordsInv
<1>2. /\ bugRow' = [b \in Bugs |-> IF bugRow[b].feature = f
                                   THEN [bugRow[b] EXCEPT !.feature = None] ELSE bugRow[b]]
      /\ comments' \subseteq comments /\ featureRows' \subseteq featureRows /\ UNCHANGED stale
      /\ recordReq' = [recordReq EXCEPT ![r].at = step]
    BY DEF InRecords!DeleteFeature, InRecords!Go
<1>3. step \in RecordSteps \ {"insert", "resolve", "write"}
    BY DEF RecordSteps
<1> HIDE DEF step, f
<1>4. \A b \in Bugs : /\ [bugRow[b] EXCEPT !.feature = None] \in BugRecord
                      /\ [bugRow[b] EXCEPT !.feature = None].feature = None
    BY <1>1 DEF RecordsTyped, BugRecord
<1>5. bugRow' \in [Bugs -> BugRecord]
    BY <1>1, <1>2, <1>4 DEF RecordsTyped
<1>6. \A b \in Bugs : b \notin stale' => \/ bugRow'[b] = bugRow[b] /\ b \notin stale
                                         \/ bugRow'[b].feature = None
    BY <1>2, <1>4
<1>7. QED
    BY <1>1, <1>2, <1>3, <1>5, <1>6, BugsChange DEF RecordsTyped

\* The other steps leave the bugs alone: a call that begins, ...
LEMMA OtherCallKeeps ==
    ASSUME RecordsInv, NEW r \in Requests,
           \/ \E m \in Authors, b \in Bugs : InRecords!RemoveBug(r, m, b)
           \/ \E f \in RecordFeatures : InRecords!RemoveFeature(r, f)
           \/ \E m \in Authors, f \in RecordFeatures \cup {None}, b \in Bugs \cup {None} :
                 InRecords!Comment(r, m, f, b)
           \/ \E m \in Authors : InRecords!Uncomment(r, m)
    PROVE  RecordsInv'
<1> DEFINE o == recordReq[r]
<1>1. o \in RecordRequest /\ RecordsTyped
    BY DEF RecordsInv, RecordsTyped
<1>2. UNCHANGED <<featureRows, bugRow, comments, stale>>
    BY DEF InRecords!RemoveBug, InRecords!RemoveFeature, InRecords!Comment, InRecords!Uncomment
<1>3. ASSUME NEW q \in RecordRequest, q.call \notin {"createBug", "updateBug"},
             recordReq' = [recordReq EXCEPT ![r] = q]
      PROVE  RecordsInv'
    <2>1. ProjectKnown(q)
        BY <1>3 DEF ProjectKnown
    <2>2. QED
        BY <1>1, <1>2, <1>3, <2>1, RequestMoves DEF RecordsTyped
<1>4. ASSUME NEW m \in Authors, NEW b \in Bugs, InRecords!RemoveBug(r, m, b) PROVE RecordsInv'
    <2> DEFINE q == [o EXCEPT !.call = "removeBug", !.bug = b, !.at = "delete"]
    <2>1. recordReq' = [recordReq EXCEPT ![r] = q]
        BY <1>1, <1>4 DEF InRecords!RemoveBug, RecordsTyped
    <2>2. q \in RecordRequest /\ q.call = "removeBug"
        BY <1>1 DEF RecordRequest, RecordSteps, InRecords!AllCalls
    <2> HIDE DEF q
    <2>3. QED
        BY <1>3, <2>1, <2>2
<1>5. ASSUME NEW f \in RecordFeatures, InRecords!RemoveFeature(r, f) PROVE RecordsInv'
    <2> DEFINE q == [o EXCEPT !.call = "removeFeature", !.feature = f, !.at = "log"]
    <2>1. recordReq' = [recordReq EXCEPT ![r] = q]
        BY <1>1, <1>5 DEF InRecords!RemoveFeature, RecordsTyped
    <2>2. q \in RecordRequest /\ q.call = "removeFeature"
        BY <1>1 DEF RecordRequest, RecordSteps, InRecords!AllCalls
    <2> HIDE DEF q
    <2>3. QED
        BY <1>3, <2>1, <2>2
<1>6. ASSUME NEW m \in Authors, NEW f \in RecordFeatures \cup {None}, NEW b \in Bugs \cup {None},
             InRecords!Comment(r, m, f, b)
      PROVE  RecordsInv'
    <2> DEFINE q == [o EXCEPT !.call = "comment", !.by = m, !.feature = f, !.bug = b, !.at = "insert"]
    <2>1. recordReq' = [recordReq EXCEPT ![r] = q]
        BY <1>1, <1>6 DEF InRecords!Comment, RecordsTyped
    <2>2. q \in RecordRequest /\ q.call = "comment"
        BY ZenonT(60), <1>1 DEF RecordRequest, RecordSteps, InRecords!AllCalls
    <2> HIDE DEF q
    <2>3. QED
        BY <1>3, <2>1, <2>2
<1>7. ASSUME NEW m \in Authors, InRecords!Uncomment(r, m) PROVE RecordsInv'
    <2>1. PICK c \in comments :
              recordReq' = [recordReq EXCEPT ![r].call = "uncomment", ![r].comment = c.id,
                                             ![r].at = "delete"]
        BY <1>7 DEF InRecords!Uncomment
    <2> DEFINE q == [o EXCEPT !.call = "uncomment", !.comment = c.id, !.at = "delete"]
    <2>2. recordReq' = [recordReq EXCEPT ![r] = q]
        BY <1>1, <2>1 DEF RecordsTyped
    <2>3. c.id \in Requests
        BY <1>1 DEF RecordsTyped
    <2>4. q \in RecordRequest /\ q.call = "uncomment"
        BY <1>1, <2>3 DEF RecordRequest, RecordSteps, InRecords!AllCalls
    <2> HIDE DEF q
    <2>5. QED
        BY <1>3, <2>2, <2>4
<1>8. QED
    BY <1>4, <1>5, <1>6, <1>7

\* ... or one that goes on.
LEMMA OtherStepKeeps ==
    ASSUME RecordsInv, NEW r \in Requests,
           \/ InRecords!LogRemoval(r) \/ InRecords!InsertComment(r) \/ InRecords!NotifyFeature(r)
           \/ InRecords!NotifyBug(r) \/ InRecords!DeleteComment(r)
    PROVE  RecordsInv'
<1> DEFINE Later == {"delete", "failed", "notifyFeature", "notifyBug", "done"}
<1>1. UNCHANGED <<featureRows, bugRow, stale>>
    BY DEF InRecords!LogRemoval, InRecords!InsertComment, InRecords!NotifyFeature,
       InRecords!NotifyBug, InRecords!DeleteComment
<1>2. RecordsTyped
    BY DEF RecordsInv
<1>3. \A c \in comments' : c.id \in Requests
    <2>1. CASE InRecords!InsertComment(r)
        BY <1>2, <2>1 DEF InRecords!InsertComment, RecordsTyped
    <2>2. CASE ~InRecords!InsertComment(r)
        BY <1>2, <2>2 DEF InRecords!LogRemoval, InRecords!NotifyFeature,
           InRecords!NotifyBug, InRecords!DeleteComment, RecordsTyped
    <2>3. QED
        BY <2>1, <2>2
<1>4. \E step \in Later : recordReq' = [recordReq EXCEPT ![r].at = step]
    BY Zenon DEF InRecords!LogRemoval, InRecords!InsertComment, InRecords!NotifyFeature,
       InRecords!NotifyBug, InRecords!DeleteComment, InRecords!Go
<1>5. PICK step \in Later : recordReq' = [recordReq EXCEPT ![r].at = step]
    BY <1>4
<1>6. step \in RecordSteps \ {"insert", "resolve", "write"}
    BY <1>5 DEF RecordSteps
<1> DEFINE q == [recordReq[r] EXCEPT !.at = step]
<1>7. q \in RecordRequest /\ ProjectKnown(q)
    BY <1>6, GoneOn
<1>8. recordReq' = [recordReq EXCEPT ![r] = q]
    BY <1>5
<1> HIDE DEF q
<1>9. QED
    BY <1>1, <1>2, <1>3, <1>7, <1>8, RequestMoves DEF RecordsTyped

LEMMA RecordsNext == RecordsInv /\ [InRecords!Next]_(InRecords!vars) => RecordsInv'
<1> SUFFICES ASSUME RecordsInv, [InRecords!Next]_(InRecords!vars) PROVE RecordsInv'
    OBVIOUS
<1>1. CASE UNCHANGED InRecords!vars
    BY <1>1 DEF InRecords!vars, RecordsInv, RecordsTyped, ProjectKnown, FeatureAfter, BugInProject,
       InRecords!BugInProject, InRecords!InProject, InRecords!HasBug
<1>2. ASSUME NEW r \in Requests, InRecords!Step(r) PROVE RecordsInv'
    BY <1>2, InsertBugKeeps, ResolveBugKeeps, WriteBugKeeps, DeleteBugKeeps, DeleteFeatureKeeps,
       OtherStepKeeps DEF InRecords!Step
<1>3. ASSUME NEW r \in Requests, NEW m \in Authors, NEW f \in RecordFeatures \cup {Undefined},
             NEW p \in RecordProjects \cup {Undefined}, InRecords!CreateBug(r, m, f, p)
      PROVE  RecordsInv'
    BY <1>3, CreateBugKeeps
<1>4. ASSUME NEW r \in Requests, NEW b \in Bugs, NEW f \in RecordFeatures \cup {None, Undefined},
             NEW p \in RecordProjects \cup {Undefined}, InRecords!ReadBug(r, b, f, p)
      PROVE  RecordsInv'
    BY <1>4, ReadBugKeeps
<1>5. QED
    BY <1>1, <1>2, <1>3, <1>4, OtherCallKeeps DEF InRecords!Next

\* A bug is in the project of its feature, though the project is derived in one step from a
\* row read in another and written in a third, unless that row was changed in between; and
\* whatever is deleted meanwhile.
THEOREM BugsAreInTheirProject == InRecords!Spec => []BugInProject
<1>1. RecordsInv => BugInProject
    BY DEF RecordsInv
<1>2. QED
    BY <1>1, RecordsInit, RecordsNext, PTL DEF InRecords!Spec

(***************************************************************************)
(* The type invariants.  Of the records: no row refers to one that is gone. *)
(***************************************************************************)

\* The foreign keys of the records, and who stands behind a request and a row.
KeptFor(c) == /\ c.id \in Requests /\ c.by \in Authors
              /\ c.feature \in featureRows \cup {None}
              /\ c.bug \in InRecords!KnownBugs \cup {None}

\* Who makes a call is known from then on.
ByKnown == \A r \in Requests :
    recordReq[r].at # "idle" /\ recordReq[r].call \in {"createBug", "comment"}
        => recordReq[r].by \in Authors

RecordKeys ==
    /\ \A b \in Bugs : /\ bugRow[b].feature \in featureRows \cup {None}
                       /\ InRecords!HasBug(b) => bugRow[b].reporter \in Authors
    /\ \A c \in comments : KeptFor(c)
    /\ \A e \in log : e.feature \in featureRows
    /\ recordTold \subseteq Requests \X Authors
    /\ stale \subseteq Bugs
    /\ ByKnown

RecordsRight == RecordsInv /\ RecordKeys

LEMMA RecordsRightType == RecordsRight => InRecords!TypeOK
<1> SUFFICES ASSUME RecordsRight PROVE InRecords!TypeOK
    OBVIOUS
<1>1. RecordsTyped /\ RecordKeys
    BY DEF RecordsRight, RecordsInv
<1>2. \A r \in Requests : recordReq[r].at \in RecordSteps
    BY <1>1 DEF RecordsTyped, RecordRequest
<1>3. bugRow \in [Bugs -> [project : RecordProjects \cup {None}, feature : RecordFeatures \cup {None},
                           reporter : Authors \cup {None}]]
    BY <1>1 DEF RecordsTyped, BugRecord
<1>4. QED
    BY <1>1, <1>2, <1>3 DEF InRecords!TypeOK, RecordsTyped, RecordSteps, RecordKeys, KeptFor

LEMMA RecordKeysInit == InRecords!Init => RecordKeys
<1> SUFFICES ASSUME InRecords!Init PROVE RecordKeys
    OBVIOUS
<1>1. \A b \in Bugs : bugRow[b].feature = None /\ ~InRecords!HasBug(b)
    BY DEF InRecords!Init, InRecords!NoBug, InRecords!HasBug
<1>2. \A r \in Requests : recordReq[r].at = "idle"
    BY DEF InRecords!Init, InRecords!Idle
<1>3. comments = {} /\ log = {} /\ recordTold = {} /\ stale = {}
    BY DEF InRecords!Init
<1>5. QED
    BY <1>1, <1>2, <1>3 DEF RecordKeys, ByKnown

LEMMA GoesOn ==
    ASSUME RecordsRight, NEW r \in Requests, recordReq[r].at # "idle",
           NEW step, recordReq' = [recordReq EXCEPT ![r].at = step]
    PROVE  ByKnown'
<1>1. recordReq \in [Requests -> RecordRequest]
    BY DEF RecordsRight, RecordsInv, RecordsTyped
<1>2. ASSUME NEW s \in Requests
      PROVE  /\ recordReq'[s].call = recordReq[s].call /\ recordReq'[s].by = recordReq[s].by
             /\ s # r => recordReq'[s] = recordReq[s]
    BY <1>1 DEF RecordRequest
<1>3. QED
    BY <1>2 DEF RecordsRight, RecordKeys, ByKnown

\* A call that begins changes no row.
LEMMA CallKeys ==
    ASSUME RecordsRight, NEW r \in Requests, NEW q,
           recordReq' = [recordReq EXCEPT ![r] = q],
           q.call \in {"createBug", "comment"} => q.by \in Authors,
           UNCHANGED <<featureRows, bugRow, comments, log, recordTold, stale>>
    PROVE  RecordKeys'
<1>1. \A s \in Requests : recordReq'[s] = IF s = r THEN q ELSE recordReq[s]
    BY DEF RecordsRight, RecordsInv, RecordsTyped
<1>2. ByKnown'
    BY <1>1 DEF RecordsRight, RecordKeys, ByKnown
<1>3. InRecords!KnownBugs' = InRecords!KnownBugs /\ \A b : InRecords!HasBug(b)' = InRecords!HasBug(b)
    BY DEF InRecords!KnownBugs, InRecords!HasBug
<1>4. QED
    BY <1>2, <1>3 DEF RecordsRight, RecordKeys, KeptFor

RecordCall(r) ==
    \/ \E m \in Authors, f \in RecordFeatures \cup {Undefined}, p \in RecordProjects \cup {Undefined} :
          InRecords!CreateBug(r, m, f, p)
    \/ \E b \in Bugs, f \in RecordFeatures \cup {None, Undefined},
          p \in RecordProjects \cup {Undefined} : InRecords!ReadBug(r, b, f, p)
    \/ \E m \in Authors, b \in Bugs : InRecords!RemoveBug(r, m, b)
    \/ \E f \in RecordFeatures : InRecords!RemoveFeature(r, f)
    \/ \E m \in Authors, f \in RecordFeatures \cup {None}, b \in Bugs \cup {None} :
          InRecords!Comment(r, m, f, b)
    \/ \E m \in Authors : InRecords!Uncomment(r, m)

Becomes(r) ==
    \E q : /\ recordReq' = [recordReq EXCEPT ![r] = q]
           /\ q.call \in {"createBug", "comment"} => q.by \in Authors

LEMMA RecordCallKeys ==
    ASSUME RecordsRight, NEW r \in Requests, RecordCall(r)
    PROVE  RecordKeys'
<1> DEFINE o == recordReq[r]
<1>1. recordReq \in [Requests -> RecordRequest] /\ o \in RecordRequest
    BY DEF RecordsRight, RecordsInv, RecordsTyped
<1>2. UNCHANGED <<featureRows, bugRow, comments, log, recordTold, stale>>
    <2> DEFINE Same == UNCHANGED <<featureRows, bugRow, comments, log, recordTold, stale>>
    <2>1. ASSUME NEW m, NEW f, NEW p, InRecords!CreateBug(r, m, f, p) PROVE Same
        BY <2>1 DEF InRecords!CreateBug
    <2>2. ASSUME NEW b, NEW f, NEW p, InRecords!ReadBug(r, b, f, p) PROVE Same
        BY <2>2 DEF InRecords!ReadBug
    <2>3. ASSUME NEW m, NEW b, InRecords!RemoveBug(r, m, b) PROVE Same
        BY <2>3 DEF InRecords!RemoveBug
    <2>4. ASSUME NEW f, InRecords!RemoveFeature(r, f) PROVE Same
        BY <2>4 DEF InRecords!RemoveFeature
    <2>5. ASSUME NEW m, NEW f, NEW b, InRecords!Comment(r, m, f, b) PROVE Same
        BY <2>5 DEF InRecords!Comment
    <2>6. ASSUME NEW m, InRecords!Uncomment(r, m) PROVE Same
        BY <2>6 DEF InRecords!Uncomment
    <2> HIDE DEF Same
    <2>7. Same
        BY <2>1, <2>2, <2>3, <2>4, <2>5, <2>6 DEF RecordCall
    <2>8. QED
        BY <2>7 DEF Same
<1>3. Becomes(r)
    <2>1. ASSUME NEW m \in Authors, NEW f, NEW p, InRecords!CreateBug(r, m, f, p) PROVE Becomes(r)
        <3> DEFINE result == InRecords!ResolveProjectId(f, p)
                   q == [o EXCEPT !.call = "createBug", !.by = m, !.feature = f, !.project = p,
                                  !.result = result,
                                  !.at = IF result \in RecordProjects THEN "insert" ELSE result]
        <3>1. recordReq' = [recordReq EXCEPT ![r] = q]
            BY <1>1, <2>1 DEF InRecords!CreateBug
        <3>2. q.by = m
            BY <1>1 DEF RecordRequest
        <3> HIDE DEF q
        <3>3. QED
            BY <3>1, <3>2 DEF Becomes
    <2>2. ASSUME NEW b, NEW f, NEW p, InRecords!ReadBug(r, b, f, p) PROVE Becomes(r)
        <3> DEFINE q == [o EXCEPT !.call = "updateBug", !.bug = b, !.feature = f, !.project = p,
                                  !.old = bugRow[b], !.at = "resolve"]
        <3>1. recordReq' = [recordReq EXCEPT ![r] = q]
            BY <1>1, <2>2 DEF InRecords!ReadBug
        <3>2. q.call = "updateBug"
            BY <1>1 DEF RecordRequest
        <3> HIDE DEF q
        <3>3. QED
            BY <3>1, <3>2 DEF Becomes
    <2>3. ASSUME NEW m, NEW b, InRecords!RemoveBug(r, m, b) PROVE Becomes(r)
        <3> DEFINE q == [o EXCEPT !.call = "removeBug", !.bug = b, !.at = "delete"]
        <3>1. recordReq' = [recordReq EXCEPT ![r] = q] /\ q.call = "removeBug"
            BY <1>1, <2>3 DEF InRecords!RemoveBug, RecordRequest
        <3> HIDE DEF q
        <3>2. QED
            BY <3>1 DEF Becomes
    <2>4. ASSUME NEW f, InRecords!RemoveFeature(r, f) PROVE Becomes(r)
        <3> DEFINE q == [o EXCEPT !.call = "removeFeature", !.feature = f, !.at = "log"]
        <3>1. recordReq' = [recordReq EXCEPT ![r] = q] /\ q.call = "removeFeature"
            BY <1>1, <2>4 DEF InRecords!RemoveFeature, RecordRequest
        <3> HIDE DEF q
        <3>2. QED
            BY <3>1 DEF Becomes
    <2>5. ASSUME NEW m \in Authors, NEW f, NEW b, InRecords!Comment(r, m, f, b) PROVE Becomes(r)
        <3> DEFINE q == [o EXCEPT !.call = "comment", !.by = m, !.feature = f, !.bug = b,
                                  !.at = "insert"]
        <3>1. recordReq' = [recordReq EXCEPT ![r] = q] /\ q.by = m
            BY <1>1, <2>5 DEF InRecords!Comment, RecordRequest
        <3> HIDE DEF q
        <3>2. QED
            BY <3>1 DEF Becomes
    <2>6. ASSUME NEW m, InRecords!Uncomment(r, m) PROVE Becomes(r)
        <3>1. PICK c \in comments :
                  recordReq' = [recordReq EXCEPT ![r].call = "uncomment", ![r].comment = c.id,
                                                 ![r].at = "delete"]
            BY <2>6 DEF InRecords!Uncomment
        <3> DEFINE q == [o EXCEPT !.call = "uncomment", !.comment = c.id, !.at = "delete"]
        <3>2. recordReq' = [recordReq EXCEPT ![r] = q] /\ q.call = "uncomment"
            BY <1>1, <3>1 DEF RecordRequest
        <3> HIDE DEF q
        <3>3. QED
            BY <3>2 DEF Becomes
    <2>7. QED
        BY <2>1, <2>2, <2>3, <2>4, <2>5, <2>6 DEF RecordCall
<1>4. QED
    BY <1>2, <1>3, CallKeys DEF Becomes

\* The steps that leave features and bugs.
LEMMA RowsStay ==
    ASSUME RecordsRight, ByKnown', UNCHANGED <<featureRows, bugRow, stale>>,
           \A c \in comments' : KeptFor(c), \A e \in log' : e.feature \in featureRows,
           recordTold' \subseteq Requests \X Authors
    PROVE  RecordKeys'
<1>1. InRecords!KnownBugs' = InRecords!KnownBugs /\ \A b : InRecords!HasBug(b)' = InRecords!HasBug(b)
    BY DEF InRecords!KnownBugs, InRecords!HasBug
<1>2. QED
    BY <1>1 DEF RecordsRight, RecordKeys, KeptFor

LEMMA CommentStepKeys ==
    ASSUME RecordsRight, NEW r \in Requests,
           \/ InRecords!LogRemoval(r) \/ InRecords!InsertComment(r) \/ InRecords!NotifyFeature(r)
           \/ InRecords!NotifyBug(r) \/ InRecords!DeleteComment(r) \/ InRecords!ResolveBug(r)
    PROVE  RecordKeys'
<1> DEFINE q == recordReq[r]
<1>1. q \in RecordRequest /\ recordReq \in [Requests -> RecordRequest] /\ RecordKeys /\ ByKnown
    BY DEF RecordsRight, RecordsInv, RecordsTyped, RecordKeys
<1>2. q.at # "idle"
    BY DEF InRecords!LogRemoval, InRecords!InsertComment, InRecords!NotifyFeature,
       InRecords!NotifyBug, InRecords!DeleteComment, InRecords!ResolveBug, InRecords!At
<1>3. UNCHANGED <<featureRows, bugRow, stale>>
    BY DEF InRecords!LogRemoval, InRecords!InsertComment, InRecords!NotifyFeature,
       InRecords!NotifyBug, InRecords!DeleteComment, InRecords!ResolveBug
<1>4. ByKnown'
    <2>1. CASE InRecords!ResolveBug(r)
        <3>1. PICK result, step : recordReq' = [recordReq EXCEPT ![r].result = result, ![r].at = step]
            BY <2>1 DEF InRecords!ResolveBug
        <3>2. q.call = "updateBug"
            BY <2>1 DEF InRecords!ResolveBug, InRecords!At
        <3>3. \A s \in Requests : IF s = r THEN recordReq'[s].call = "updateBug"
                                  ELSE recordReq'[s] = recordReq[s]
            BY <1>1, <3>1, <3>2 DEF RecordRequest
        <3>4. QED
            BY <1>1, <3>3 DEF ByKnown
    <2>2. CASE ~InRecords!ResolveBug(r)
        <3>1. \E step : recordReq' = [recordReq EXCEPT ![r].at = step]
            BY <2>2, Zenon DEF InRecords!LogRemoval, InRecords!InsertComment,
               InRecords!NotifyFeature, InRecords!NotifyBug, InRecords!DeleteComment, InRecords!Go
        <3>2. QED
            BY <1>2, <3>1, GoesOn
    <2>3. QED
        BY <2>1, <2>2
<1>5. \A c \in comments' : KeptFor(c)
    <2>1. CASE InRecords!InsertComment(r)
        <3>1. q.by \in Authors
            BY <1>1, <1>2, <2>1 DEF InRecords!InsertComment, InRecords!At, ByKnown
        <3>2. QED
            BY <1>1, <2>1, <3>1 DEF InRecords!InsertComment, RecordKeys, KeptFor
    <2>2. CASE ~InRecords!InsertComment(r)
        <3>1. comments' \subseteq comments
            BY <2>2 DEF InRecords!LogRemoval, InRecords!NotifyFeature,
               InRecords!NotifyBug, InRecords!DeleteComment, InRecords!ResolveBug
        <3>2. QED
            BY <1>1, <3>1 DEF RecordKeys
    <2>3. QED
        BY <2>1, <2>2
<1>6. \A e \in log' : e.feature \in featureRows
    <2>1. CASE InRecords!LogRemoval(r)
        BY <1>1, <2>1 DEF InRecords!LogRemoval, RecordKeys
    <2>2. CASE ~InRecords!LogRemoval(r)
        <3>1. UNCHANGED log
            BY <2>2 DEF InRecords!InsertComment, InRecords!NotifyFeature,
               InRecords!NotifyBug, InRecords!DeleteComment, InRecords!ResolveBug
        <3>2. QED
            BY <1>1, <3>1 DEF RecordKeys
    <2>3. QED
        BY <2>1, <2>2
<1>7. recordTold' \subseteq Requests \X Authors
    <2>1. CASE InRecords!NotifyFeature(r)
        <3>1. Assignee \in [RecordFeatures -> Authors \cup {None}]
            BY WorkAssumption DEF InRecords!RecordsAssumption
        <3>2. featureRows \subseteq RecordFeatures
            BY DEF RecordsRight, RecordsInv, RecordsTyped
        <3>3. QED
            BY <1>1, <2>1, <3>1, <3>2 DEF InRecords!NotifyFeature, RecordKeys
    <2>2. CASE InRecords!NotifyBug(r)
        BY <1>1, <2>2 DEF InRecords!NotifyBug, RecordKeys, InRecords!KnownBugs
    <2>3. CASE ~(InRecords!NotifyFeature(r) \/ InRecords!NotifyBug(r))
        <3>1. UNCHANGED recordTold
            BY <2>3 DEF InRecords!InsertComment, InRecords!LogRemoval,
               InRecords!DeleteComment, InRecords!ResolveBug
        <3>2. QED
            BY <1>1, <3>1 DEF RecordKeys
    <2>4. QED
        BY <2>1, <2>2, <2>3
<1>8. QED
    BY <1>3, <1>4, <1>5, <1>6, <1>7, RowsStay

LEMMA InsertBugKeys ==
    ASSUME RecordsRight, NEW r \in Requests, InRecords!InsertBug(r)
    PROVE  RecordKeys'
<1> DEFINE q == recordReq[r]
           f == IF q.feature = Undefined THEN None ELSE q.feature
<1>1. bugRow \in [Bugs -> BugRecord] /\ RecordKeys /\ ByKnown /\ ProjectKnown(q)
    BY DEF RecordsRight, RecordsInv, RecordsTyped, RecordKeys
<1>2. q.call = "createBug" /\ q.at = "insert"
    BY DEF InRecords!InsertBug, InRecords!At
<1>3. q.by \in Authors /\ q.result \in RecordProjects
    BY <1>1, <1>2 DEF ByKnown, ProjectKnown
<1>4. \E step : recordReq' = [recordReq EXCEPT ![r].at = step]
    BY Zenon DEF InRecords!InsertBug, InRecords!Go
<1>5. ByKnown'
    BY <1>2, <1>4, GoesOn
<1>6. CASE UNCHANGED <<bugRow, log>>
    BY <1>1, <1>5, <1>6, RowsStay DEF InRecords!InsertBug, RecordKeys
<1>7. ASSUME f \in featureRows \cup {None}, NEW b \in Bugs,
             bugRow' = [bugRow EXCEPT ![b] = [project |-> q.result, feature |-> f,
                                              reporter |-> q.by]],
             log' = log \cup (IF f = None THEN {}
                              ELSE {[action |-> "BUG_REPORTED", feature |-> f, bug |-> b]})
      PROVE  RecordKeys'
    <2>1. UNCHANGED <<featureRows, comments, recordTold, stale>>
        BY DEF InRecords!InsertBug
    <2>2. \A d \in Bugs : IF d = b
              THEN bugRow'[d].feature = f /\ bugRow'[d].reporter = q.by /\ InRecords!HasBug(d)'
              ELSE bugRow'[d] = bugRow[d] /\ InRecords!HasBug(d)' = InRecords!HasBug(d)
        BY <1>1, <1>3, <1>7, RecordsAssumed DEF InRecords!HasBug
    <2>3. InRecords!KnownBugs \subseteq InRecords!KnownBugs'
        BY <2>2 DEF InRecords!KnownBugs
    <2>4. \A e \in log' : e.feature \in featureRows
        BY <1>1, <1>7 DEF RecordKeys
    <2>5. \A c \in comments' : KeptFor(c)'
        BY <1>1, <2>1, <2>3 DEF RecordKeys, KeptFor
    <2>6. \A d \in Bugs : /\ bugRow'[d].feature \in featureRows \cup {None}
                          /\ InRecords!HasBug(d)' => bugRow'[d].reporter \in Authors
        BY <1>1, <1>3, <1>7, <2>2 DEF RecordKeys
    <2>7. QED
        BY <1>1, <1>5, <2>1, <2>4, <2>5, <2>6 DEF RecordKeys
<1>8. QED
    BY <1>6, <1>7 DEF InRecords!InsertBug

LEMMA WriteBugKeys ==
    ASSUME RecordsRight, NEW r \in Requests, InRecords!WriteBug(r)
    PROVE  RecordKeys'
<1> DEFINE q == recordReq[r]
           b == q.bug
           f == IF q.feature # Undefined THEN q.feature ELSE bugRow[b].feature
<1>1. bugRow \in [Bugs -> BugRecord] /\ RecordKeys /\ ByKnown /\ ProjectKnown(q)
    BY DEF RecordsRight, RecordsInv, RecordsTyped, RecordKeys
<1>2. q.call = "updateBug" /\ q.at = "write"
    BY DEF InRecords!WriteBug, InRecords!At
<1>3. b \in Bugs /\ q.result \in RecordProjects \cup {None}
    BY <1>1, <1>2 DEF ProjectKnown
<1>4. \E step : recordReq' = [recordReq EXCEPT ![r].at = step]
    BY Zenon DEF InRecords!WriteBug, InRecords!Go
<1>5. ByKnown'
    BY <1>2, <1>4, GoesOn
<1>6. CASE UNCHANGED <<bugRow, log, stale>>
    BY <1>1, <1>5, <1>6, RowsStay DEF InRecords!WriteBug, RecordKeys
<1>7. ASSUME InRecords!HasBug(b), f \in featureRows \cup {None},
             q.old.feature \in featureRows \cup {None},
             bugRow' = [bugRow EXCEPT ![b].feature = f,
                                      ![b].project = IF q.result = None THEN @ ELSE q.result],
             log' = log \cup (IF q.old.feature = None THEN {}
                 ELSE {[action |-> "BUG_STATUS_UPDATED", feature |-> q.old.feature, bug |-> b]}),
             stale' \subseteq stale \cup {b}
      PROVE  RecordKeys'
    <2>1. UNCHANGED <<featureRows, comments, recordTold>>
        BY DEF InRecords!WriteBug
    <2>2. bugRow[b].project # None
        BY <1>7 DEF InRecords!HasBug
    <2>3. /\ bugRow'[b].feature = f /\ bugRow'[b].reporter = bugRow[b].reporter
          /\ bugRow'[b].project # None
        BY <1>1, <1>3, <1>7, <2>2, RecordsAssumed DEF BugRecord
    <2>4. \A d \in Bugs : d # b => bugRow'[d] = bugRow[d]
        BY <1>1, <1>7
    <2>5. \A d \in Bugs : InRecords!HasBug(d)' = InRecords!HasBug(d)
        BY <1>7, <2>3, <2>4 DEF InRecords!HasBug
    <2>6. InRecords!KnownBugs' = InRecords!KnownBugs
        BY <2>5 DEF InRecords!KnownBugs
    <2>7. \A e \in log' : e.feature \in featureRows
        BY <1>1, <1>7 DEF RecordKeys
    <2>8. \A c \in comments' : KeptFor(c)'
        BY <1>1, <2>1, <2>6 DEF RecordKeys, KeptFor
    <2> HIDE DEF f, b, q
    <2>9. \A d \in Bugs : /\ bugRow'[d].feature \in featureRows \cup {None}
                          /\ InRecords!HasBug(d)' => bugRow'[d].reporter \in Authors
        BY <1>1, <1>7, <2>3, <2>4, <2>5 DEF RecordKeys
    <2>10. QED
        BY <1>1, <1>3, <1>5, <1>7, <2>1, <2>7, <2>8, <2>9 DEF RecordKeys
<1>8. QED
    BY <1>6, <1>7 DEF InRecords!WriteBug

\* The comments of a bug that goes go with it.
LEMMA DeleteBugKeys ==
    ASSUME RecordsRight, NEW r \in Requests, InRecords!DeleteBug(r)
    PROVE  RecordKeys'
<1> DEFINE b == recordReq[r].bug
<1>1. bugRow \in [Bugs -> BugRecord] /\ RecordKeys
    BY DEF RecordsRight, RecordsInv, RecordsTyped
<1>2. /\ bugRow' = [bugRow EXCEPT ![b] = InRecords!NoBug]
      /\ comments' = {c \in comments : c.bug # b} /\ stale' \subseteq stale
      /\ UNCHANGED <<featureRows, log, recordTold>>
    BY DEF InRecords!DeleteBug
<1>3. recordReq[r].at # "idle" /\ \E step : recordReq' = [recordReq EXCEPT ![r].at = step]
    BY Zenon DEF InRecords!DeleteBug, InRecords!Go, InRecords!At
<1>4. ByKnown'
    BY <1>3, GoesOn
<1> HIDE DEF b
<1>5. \A d \in Bugs : bugRow'[d] = IF d = b THEN InRecords!NoBug ELSE bugRow[d]
    BY <1>1, <1>2
<1>6. \A d \in Bugs : d # b => InRecords!HasBug(d)' = InRecords!HasBug(d)
    BY <1>5 DEF InRecords!HasBug
<1>7. \A d \in Bugs : d = b => ~InRecords!HasBug(d)' /\ bugRow'[d].feature = None
    BY <1>5 DEF InRecords!HasBug, InRecords!NoBug
<1>8. \A d \in Bugs : /\ bugRow'[d].feature \in featureRows \cup {None}
                      /\ InRecords!HasBug(d)' => bugRow'[d].reporter \in Authors
    BY <1>1, <1>5, <1>6, <1>7 DEF RecordKeys
<1>9. \A d : d # b /\ d \in InRecords!KnownBugs => d \in InRecords!KnownBugs'
    BY <1>6 DEF InRecords!KnownBugs
<1>10. \A c \in comments' : KeptFor(c)'
    BY <1>1, <1>2, <1>9 DEF RecordKeys, KeptFor
<1>11. QED
    BY <1>1, <1>2, <1>4, <1>8, <1>10 DEF RecordKeys

\* With a feature go its comments and what was logged of it; its bugs stay without one.
LEMMA DeleteFeatureKeys ==
    ASSUME RecordsRight, NEW r \in Requests, InRecords!DeleteFeature(r)
    PROVE  RecordKeys'
<1> DEFINE f == recordReq[r].feature
<1>1. bugRow \in [Bugs -> BugRecord] /\ RecordKeys
    BY DEF RecordsRight, RecordsInv, RecordsTyped
<1>2. /\ bugRow' = [b \in Bugs |-> IF bugRow[b].feature = f
                                   THEN [bugRow[b] EXCEPT !.feature = None] ELSE bugRow[b]]
      /\ featureRows' = featureRows \ {f}
      /\ comments' = {c \in comments : c.feature # f}
      /\ log' = {e \in log : e.feature # f}
      /\ UNCHANGED <<recordTold, stale>>
    BY DEF InRecords!DeleteFeature
<1>3. recordReq[r].at # "idle" /\ \E step : recordReq' = [recordReq EXCEPT ![r].at = step]
    BY Zenon DEF InRecords!DeleteFeature, InRecords!Go, InRecords!At
<1>4. ByKnown'
    BY <1>3, GoesOn
<1> HIDE DEF f
<1>5. \A d \in Bugs : /\ bugRow'[d].feature = IF bugRow[d].feature = f THEN None
                                              ELSE bugRow[d].feature
                      /\ bugRow'[d].project = bugRow[d].project
                      /\ bugRow'[d].reporter = bugRow[d].reporter
    BY <1>1, <1>2 DEF BugRecord
<1>6. \A d \in Bugs : InRecords!HasBug(d)' = InRecords!HasBug(d)
    BY <1>5 DEF InRecords!HasBug
<1>7. InRecords!KnownBugs' = InRecords!KnownBugs
    BY <1>6 DEF InRecords!KnownBugs
<1>8. \A d \in Bugs : /\ bugRow'[d].feature \in featureRows' \cup {None}
                      /\ InRecords!HasBug(d)' => bugRow'[d].reporter \in Authors
    BY <1>1, <1>2, <1>5, <1>6 DEF RecordKeys
<1>9. \A c \in comments' : KeptFor(c)'
    BY <1>1, <1>2, <1>7 DEF RecordKeys, KeptFor
<1>10. QED
    BY <1>1, <1>2, <1>4, <1>8, <1>9 DEF RecordKeys

LEMMA RecordsRightNext == RecordsRight /\ [InRecords!Next]_(InRecords!vars) => RecordsRight'
<1> SUFFICES ASSUME RecordsRight, [InRecords!Next]_(InRecords!vars) PROVE RecordsRight'
    OBVIOUS
<1>1. RecordsInv'
    BY RecordsNext DEF RecordsRight
<1>2. CASE UNCHANGED InRecords!vars
    <2>1. ByKnown'
        BY <1>2 DEF InRecords!vars, RecordsRight, RecordKeys, ByKnown
    <2>2. QED
        BY <1>2, <2>1, RowsStay, <1>1 DEF InRecords!vars, RecordsRight, RecordKeys
<1>3. ASSUME NEW r \in Requests, InRecords!Step(r) PROVE RecordKeys'
    BY <1>3, CommentStepKeys, InsertBugKeys, WriteBugKeys, DeleteBugKeys, DeleteFeatureKeys
    DEF InRecords!Step
<1>4. ASSUME NEW r \in Requests, RecordCall(r) PROVE RecordKeys'
    BY <1>4, RecordCallKeys
<1>5. QED
    BY <1>1, <1>2, <1>3, <1>4, Zenon DEF InRecords!Next, RecordCall, RecordsRight

(***************************************************************************)
(* Releases.                                                                *)
(***************************************************************************)

\* A link is of a release and of a feature that are there, a pull request under a
\* feature that is there; and a version that is to be written is one.
Refers(l) == Exists(l.release) /\ l.feature \in features /\ l.row \in 1..used.links
VersionKnown ==
    \A r \in Requests : req[r].at # "idle" /\ req[r].call \in {"create", "update"}
                            => req[r].version \in Versions
PRKeys == \A p \in PRs : pr[p].feature \in features \cup {None}

ReleasesRight ==
    /\ IInv /\ PRKeys /\ VersionKnown
    /\ \A l \in links : Refers(l)

LEMMA ReleasesRightType == ReleasesRight => TypeOK
<1> SUFFICES ASSUME ReleasesRight PROVE TypeOK
    OBVIOUS
<1>1. /\ release \in [Releases -> ReleaseRow] /\ features \subseteq Features
      /\ pr \in [PRs -> PRRow] /\ req \in [Requests -> Request] /\ used.releases \subseteq Releases
    BY DEF ReleasesRight, IInv, Tables, ReleaseInv, PRInv, ReqInv, UsedInv
<1>2. pr \in [PRs -> [feature : features \cup {None}, merged : BOOLEAN, summary : BOOLEAN]]
    <2>1. ASSUME NEW p \in PRs
          PROVE  pr[p] \in [feature : features \cup {None}, merged : BOOLEAN, summary : BOOLEAN]
        <3>1. pr[p] \in PRRow /\ pr[p].feature \in features \cup {None}
            BY <1>1 DEF ReleasesRight, PRKeys
        <3>2. QED
            BY <3>1 DEF PRRow
    <2>2. QED
        BY <1>1, <2>1
<1>3. \A r \in Requests : req[r].at \in Steps
    BY <1>1 DEF Request
<1>4. QED
    BY <1>1, <1>2, <1>3 DEF TypeOK, ReleaseRow, Steps, ReleasesRight, Refers

LEMMA ReleasesRightInit == Init => ReleasesRight
<1> SUFFICES ASSUME Init PROVE ReleasesRight
    OBVIOUS
<1>1. PRKeys
    BY DEF Init, PRKeys
<1>2. VersionKnown
    BY DEF Init, Idle, VersionKnown
<1>3. links = {}
    BY DEF Init
<1>4. QED
    BY <1>1, <1>2, <1>3, IInvInit DEF ReleasesRight

LEMMA CallVersion ==
    ASSUME ReqInv, NEW r \in Requests, CallStep(r)
    PROVE  req'[r].call \in {"create", "update"} => req'[r].version \in Versions
<1>1. req[r] \in Request /\ req = [o \in Requests |-> req[o]]
    BY DEF ReqInv
<1>2. ASSUME NEW v \in Versions, NEW fs, NEW repeated, NEW ai, Create(r, v, fs, repeated, ai)
      PROVE  req'[r].version = v
    BY <1>1, <1>2 DEF Create, Request
<1>3. ASSUME NEW x, NEW v \in Versions, Update(r, x, v)
      PROVE  req'[r].version = v
    BY <1>1, <1>3 DEF Update, Request
<1>4. ASSUME NEW x, Remove(r, x) PROVE req'[r].call = "remove"
    BY <1>1, <1>4 DEF Remove, Request
<1>5. ASSUME NEW call, NEW x, NEW f, FindRelease(r, call, x, f)
      PROVE  req'[r].call \in {"addFeature", "removeFeature"}
    BY <1>1, <1>5 DEF FindRelease, Request
<1>6. ASSUME NEW fs, Notes(r, fs) PROVE req'[r].call = "notes"
    BY <1>1, <1>6 DEF Notes, Request
<1>7. QED
    BY <1>2, <1>3, <1>4, <1>5, <1>6 DEF CallStep

LEMMA StepVersion ==
    ASSUME ReqInv, LinksInv, NEW r \in Requests, Step(r)
    PROVE  req'[r].version = req[r].version /\ req[r].at # "idle"
<1>1. req[r] \in Request /\ req = [o \in Requests |-> req[o]]
    BY DEF ReqInv
<1>2. req[r].at # "idle"
    BY DEF Step, ReadMerged, Synthesize, CheckVersion, WriteCreate, Answer, WriteUpdate,
       DeleteRelease, FindFeature, FindLink, WriteLink, DeleteLink, At
<1>3. \A step : Go(r, step) => req'[r].version = req[r].version
    BY <1>1 DEF Go, Request
<1>4. CASE ReadMerged(r)
    BY <1>1, <1>4 DEF ReadMerged, Request
<1>5. CASE Synthesize(r)
    <2>1. PICK made, step :
              req' = [req EXCEPT ![r] = [req[r] EXCEPT !.notes = made, !.at = step]]
        BY <1>1, <1>5 DEF Synthesize
    <2>2. req'[r] = [req[r] EXCEPT !.notes = made, !.at = step]
        BY <1>1, <2>1
    <2>3. QED
        BY <1>1, <1>2, <2>2 DEF Request
<1>6. CASE FindLink(r)
    <2>1. ASSUME NEW row, req' = [req EXCEPT ![r] = [@ EXCEPT !.link = row, !.at = "delete"]]
          PROVE  req'[r].version = req[r].version
        BY <1>1, <2>1 DEF Request
    <2>2. QED
        BY <1>3, <1>6, <2>1, Zenon DEF FindLink
<1>7. CASE WriteCreate(r)
    <2>1. CASE \E x : req' = [req EXCEPT ![r] = [req[r] EXCEPT !.release = x, !.at = "answer"]]
        BY <1>1, <1>2, <2>1 DEF Request
    <2>2. CASE \E step : Go(r, step)
        BY <1>2, <1>3, <2>2
    <2>3. QED
        BY <1>1, <1>7, <2>1, <2>2 DEF WriteCreate
<1>8. CASE \/ CheckVersion(r) \/ Answer(r) \/ WriteUpdate(r) \/ DeleteRelease(r)
           \/ FindFeature(r) \/ WriteLink(r) \/ DeleteLink(r)
    <2>1. \E step : Go(r, step)
        BY <1>8, Zenon DEF CheckVersion, Answer, WriteUpdate, DeleteRelease, FindFeature,
           WriteLink, DeleteLink
    <2>2. QED
        BY <1>2, <1>3, <2>1
<1>9. QED
    BY <1>2, <1>4, <1>5, <1>6, <1>7, <1>8 DEF Step

LEMMA NextVersion == ReleasesRight /\ [Next]_vars => VersionKnown'
<1> SUFFICES ASSUME ReleasesRight, [Next]_vars PROVE VersionKnown'
    OBVIOUS
<1>1. ReqInv /\ LinksInv /\ VersionKnown
    BY DEF ReleasesRight, IInv, Tables
<1>2. ASSUME NEW r \in Requests, Step(r) PROVE VersionKnown'
    <2>1. /\ Only(r) /\ req'[r].call = req[r].call
          /\ req'[r].version = req[r].version /\ req[r].at # "idle"
        BY <1>1, <1>2, StepReq, StepVersion
    <2>2. QED
        BY <1>1, <2>1 DEF VersionKnown, Only
<1>3. ASSUME NEW r \in Requests, CallStep(r) PROVE VersionKnown'
    <2>1. Only(r) /\ (req'[r].call \in {"create", "update"} => req'[r].version \in Versions)
        BY <1>1, <1>3, CallReq, CallVersion
    <2>2. QED
        BY <1>1, <2>1 DEF VersionKnown, Only
<1>4. CASE UNCHANGED req
    BY <1>1, <1>4 DEF VersionKnown
<1>5. QED
    BY <1>2, <1>3, <1>4, Zenon DEF Next, CallStep, vars, RemoveFeature, PRChanges

\* Releases stay, and the rows of links are those that were.
LEMMA LinksStay ==
    ASSUME \A l \in links : Refers(l), links' \subseteq links,
           \A l \in links' : Exists(l.release)' /\ l.feature \in features',
           UNCHANGED used
    PROVE  \A l \in links' : Refers(l)'
BY DEF Refers

LEMMA WriteCreateKeys ==
    ASSUME ReleasesRight, NEW r \in Requests, WriteCreate(r)
    PROVE  \A l \in links' : Refers(l)'
<1> DEFINE q == req[r]
           n == Cardinality(q.features)
<1>1. CASE UNCHANGED <<release, links, used>>
    BY <1>1, LinksStay DEF WriteCreate, ReleasesRight, Refers, Exists
<1>2. ASSUME NEW x \in Releases \ used.releases, q.features \subseteq features,
             NEW row \in [q.features -> used.links + 1..used.links + n], Inserted(r, x, row)
      PROVE  \A l \in links' : Refers(l)'
    <2>1. q.version # None
        <3>1. q.version \in Versions
            BY DEF WriteCreate, At, ReleasesRight, VersionKnown
        <3>2. QED
            BY <3>1, ReleasesAssumption
    <2>2. used.links \in Nat /\ n \in Nat /\ release = [y \in Releases |-> release[y]]
        <3>1. q.features \subseteq Features
            BY DEF ReleasesRight, IInv, ReqInv, Request
        <3>2. n \in Nat
            BY <3>1, ReleasesAssumption, FS_Subset, FS_CardinalityType
        <3>3. QED
            BY <3>2 DEF ReleasesRight, IInv, Tables, UsedInv, ReleaseInv
    <2>3. release'[x].version = q.version
        BY <1>2, <2>2 DEF Inserted
    <2>4. \A y \in Releases : y # x => release'[y] = release[y]
        BY <1>2, <2>2 DEF Inserted
    <2>5. \A y \in Releases : Exists(y) => Exists(y)'
        BY <2>1, <2>3, <2>4 DEF Exists
    <2>6. used'.links = used.links + n /\ UNCHANGED features
        BY <1>2 DEF Inserted, WriteCreate
    <2>7. ASSUME NEW l \in links PROVE Refers(l)'
        <3>1. l.release \in Releases /\ Refers(l)
            BY DEF ReleasesRight, IInv, Tables, LinksInv, LinkRow
        <3>2. QED
            BY <2>2, <2>5, <2>6, <3>1 DEF Refers
    <2>8. ASSUME NEW f \in q.features
          PROVE  Refers([release |-> x, feature |-> f, row |-> row[f]])'
        <3>1. row[f] \in used.links + 1..used.links + n
            BY <1>2
        <3>2. row[f] \in 1..used'.links
            BY <2>2, <2>6, <3>1
        <3>3. Exists(x)' /\ f \in features'
            BY <1>2, <2>1, <2>3, <2>6 DEF Exists
        <3>4. QED
            BY <3>2, <3>3 DEF Refers
    <2>9. QED
        BY <1>2, <2>7, <2>8 DEF Inserted
<1>3. QED
    BY <1>1, <1>2, Zenon DEF WriteCreate, Inserted

LEMMA WriteUpdateKeys ==
    ASSUME ReleasesRight, NEW r \in Requests, WriteUpdate(r)
    PROVE  \A l \in links' : Refers(l)'
<1>1. UNCHANGED <<links, used, features>>
    BY DEF WriteUpdate
<1>2. release \in [Releases -> ReleaseRow]
    BY DEF ReleasesRight, IInv, Tables, ReleaseInv
<1>3. req[r].version # None
    BY ReleasesAssumption DEF WriteUpdate, At, ReleasesRight, VersionKnown
<1>4. \A x \in Releases : Exists(x) => Exists(x)'
    <2>1. CASE UNCHANGED release
        BY <2>1 DEF Exists
    <2>2. CASE release' = [release EXCEPT ![req[r].release].version = req[r].version]
        BY <1>2, <1>3, <2>2 DEF Exists, ReleaseRow
    <2>3. QED
        BY <2>1, <2>2 DEF WriteUpdate
<1>5. \A l \in links : l.release \in Releases
    BY DEF ReleasesRight, IInv, Tables, LinksInv, LinkRow
<1>6. QED
    BY <1>1, <1>4, <1>5 DEF ReleasesRight, Refers

\* The links of a release that goes go with it.
LEMMA DeleteReleaseKeys ==
    ASSUME ReleasesRight, NEW r \in Requests, DeleteRelease(r)
    PROVE  \A l \in links' : Refers(l)'
<1>1. /\ release' = [release EXCEPT ![req[r].release] = Absent]
      /\ links' = {l \in links : l.release # req[r].release}
      /\ UNCHANGED <<used, features>>
    BY DEF DeleteRelease
<1>2. release \in [Releases -> ReleaseRow]
    BY DEF ReleasesRight, IInv, Tables, ReleaseInv
<1>3. \A x \in Releases : x # req[r].release => release'[x] = release[x]
    BY <1>1, <1>2
<1>4. \A l \in links : l.release \in Releases
    BY DEF ReleasesRight, IInv, Tables, LinksInv, LinkRow
<1>5. \A l \in links' : l.release \in Releases /\ l.release # req[r].release
    BY <1>1, <1>4
<1>6. \A l \in links' : Exists(l.release)' /\ l.feature \in features'
    BY <1>1, <1>3, <1>5 DEF ReleasesRight, Refers, Exists
<1>7. QED
    BY <1>1, <1>6, LinksStay DEF ReleasesRight

LEMMA WriteLinkKeys ==
    ASSUME ReleasesRight, NEW r \in Requests, WriteLink(r)
    PROVE  \A l \in links' : Refers(l)'
<1>1. UNCHANGED <<release, features>>
    BY DEF WriteLink
<1>2. \A x : Exists(x)' = Exists(x)
    BY <1>1 DEF Exists
<1>3. CASE UNCHANGED <<links, used>>
    BY <1>1, <1>2, <1>3 DEF ReleasesRight, Refers
<1>4. ASSUME NEW f \in req[r].features, Exists(req[r].release), f \in features,
             links' = links \cup {[release |-> req[r].release, feature |-> f,
                                   row |-> used.links + 1]},
             used' = [used EXCEPT !.links = @ + 1]
      PROVE  \A l \in links' : Refers(l)'
    <2>1. used.links \in Nat /\ used'.links = used.links + 1
        BY <1>4 DEF ReleasesRight, IInv, Tables, UsedInv
    <2>2. \A l \in links : Refers(l)'
        BY <1>1, <1>2, <2>1 DEF ReleasesRight, Refers
    <2>3. ASSUME NEW l, l = [release |-> req[r].release, feature |-> f, row |-> used.links + 1]
          PROVE  Refers(l)'
        <3>1. l.release = req[r].release /\ l.feature = f /\ l.row = used.links + 1
            BY <2>3
        <3>2. l.row \in 1..used'.links
            BY <2>1, <3>1
        <3>3. QED
            BY <1>1, <1>2, <1>4, <3>1, <3>2 DEF Refers
    <2>4. QED
        BY <1>4, <2>2, <2>3
<1>5. QED
    BY <1>3, <1>4 DEF WriteLink

LEMMA NextKeys == ReleasesRight /\ [Next]_vars => PRKeys' /\ \A l \in links' : Refers(l)'
<1> SUFFICES ASSUME ReleasesRight, [Next]_vars
             PROVE  PRKeys' /\ \A l \in links' : Refers(l)'
    OBVIOUS
<1>1. PRKeys /\ \A l \in links : Refers(l)
    BY DEF ReleasesRight
<1>2. ASSUME links' \subseteq links, UNCHANGED <<release, features, used>>
      PROVE  \A l \in links' : Refers(l)'
    BY <1>1, <1>2 DEF Refers, Exists
<1>3. ASSUME NEW r \in Requests, Step(r) \/ CallStep(r)
      PROVE  PRKeys' /\ \A l \in links' : Refers(l)'
    <2>1. UNCHANGED <<features, pr>>
        BY <1>3 DEF Step, ReadMerged, Synthesize, CheckVersion, WriteCreate, Answer, WriteUpdate,
           DeleteRelease, FindFeature, FindLink, WriteLink, DeleteLink,
           CallStep, Create, Update, Remove, FindRelease, Notes
    <2>2. PRKeys'
        BY <1>1, <2>1 DEF PRKeys
    <2>3. CASE WriteCreate(r) \/ WriteUpdate(r) \/ DeleteRelease(r) \/ WriteLink(r)
        BY <2>2, <2>3, WriteCreateKeys, WriteUpdateKeys, DeleteReleaseKeys, WriteLinkKeys
    <2>4. CASE \/ ReadMerged(r) \/ Synthesize(r) \/ CheckVersion(r) \/ Answer(r)
               \/ FindFeature(r) \/ FindLink(r) \/ DeleteLink(r)
        <3>1. links' \subseteq links /\ UNCHANGED <<release, features, used>>
            BY <2>4 DEF ReadMerged, Synthesize, CheckVersion, Answer, FindFeature, FindLink,
               DeleteLink
        <3>2. QED
            BY <1>2, <2>2, <3>1
    <2>5. CASE CallStep(r)
        <3>1. UNCHANGED <<links, release, features, used>>
            BY <2>5 DEF CallStep, Create, Update, Remove, FindRelease, Notes
        <3>2. QED
            BY <1>2, <2>2, <3>1
    <2>6. QED
        BY <1>3, <2>3, <2>4, <2>5 DEF Step
<1>4. ASSUME NEW f \in Features, RemoveFeature(f)
      PROVE  PRKeys' /\ \A l \in links' : Refers(l)'
    <2>1. /\ features' = features \ {f} /\ links' = {l \in links : l.feature # f}
          /\ UNCHANGED <<release, used>>
        BY <1>4 DEF RemoveFeature
    <2>2. \A l \in links' : Exists(l.release)' /\ l.feature \in features'
        BY <1>1, <2>1 DEF Refers, Exists
    <2>3. \A p \in PRs : pr[p] \in PRRow
        BY DEF ReleasesRight, IInv, PRInv
    <2>4. \A p \in PRs : pr'[p].feature = IF pr[p].feature = f THEN None ELSE pr[p].feature
        BY <1>4, <2>3 DEF RemoveFeature, PRRow
    <2>5. PRKeys'
        BY <1>1, <2>1, <2>4 DEF PRKeys
    <2>6. QED
        BY <1>1, <2>1, <2>2, <2>5, LinksStay
<1>5. ASSUME NEW p \in PRs, PRChanges(p)
      PROVE  PRKeys' /\ \A l \in links' : Refers(l)'
    <2>1. UNCHANGED <<release, links, features, used>>
        BY <1>5 DEF PRChanges
    <2>2. pr \in [PRs -> PRRow]
        BY DEF ReleasesRight, IInv, PRInv
    <2>3. \A o \in PRs : pr'[o].feature \in features \cup {None}
        <3>1. ASSUME NEW f \in features \cup {None}, pr' = [pr EXCEPT ![p].feature = f]
              PROVE  \A o \in PRs : pr'[o].feature \in features \cup {None}
            BY <1>1, <2>2, <3>1 DEF PRKeys, PRRow
        <3>2. ASSUME pr' = [pr EXCEPT ![p].merged = TRUE] \/ pr' = [pr EXCEPT ![p].summary = TRUE]
              PROVE  \A o \in PRs : pr'[o].feature = pr[o].feature
            BY <2>2, <3>2 DEF PRRow
        <3>3. QED
            BY <1>1, <1>5, <3>1, <3>2, Zenon DEF PRChanges, PRKeys
    <2>4. QED
        BY <1>2, <2>1, <2>3 DEF PRKeys
<1>6. CASE UNCHANGED vars
    BY <1>1, <1>2, <1>6 DEF vars, PRKeys
<1>7. QED
    BY <1>3, <1>4, <1>5, <1>6, Zenon DEF Next, CallStep

LEMMA ReleasesRightNext == ReleasesRight /\ [Next]_vars => ReleasesRight'
BY IInvNext, NextVersion, NextKeys DEF ReleasesRight

(***************************************************************************)
(* Lifecycle.                                                               *)
(***************************************************************************)

LifeRight ==
    LifeTyped /\ updates \in 0..MaxUpdates /\ mixed \subseteq {"feature", "bug", "trail"}

LEMMA LifeRightType == LifeRight => InLifecycle!TypeOK
<1> SUFFICES ASSUME LifeRight PROVE InLifecycle!TypeOK
    OBVIOUS
<1>1. \A r \in Updaters : updateReq[r].at \in {"idle", "write", "log", "assigned", "completed",
                                               "writeBug", "resolved"}
    BY DEF LifeRight, LifeTyped, InLifecycle!Idle, FeatureUpdate, BugUpdate
<1>2. QED
    BY <1>1 DEF LifeRight, LifeTyped, InLifecycle!TypeOK, FeatureState, BugState, Counts

LEMMA LifeRightInit == InLifecycle!Init => LifeRight
<1>1. MaxUpdates \in Nat
    BY WorkAssumption DEF InLifecycle!LifecycleAssumption
<1>2. InLifecycle!Init => updates = 0 /\ mixed = {}
    BY DEF InLifecycle!Init
<1>3. QED
    BY <1>1, <1>2, LifeTypedInit DEF LifeRight

LEMMA LifeRightNext == LifeRight /\ LifeNext => LifeRight'
<1> SUFFICES ASSUME LifeRight, LifeNext PROVE LifeRight'
    OBVIOUS
<1>1. LifeTyped /\ LifeTyped'
    BY LifeTypedNext DEF LifeRight
<1>2. MaxUpdates \in Nat
    BY WorkAssumption DEF InLifecycle!LifecycleAssumption
<1>3. updates' \in 0..MaxUpdates
    <2>1. UNCHANGED updates \/ (updates < MaxUpdates /\ updates' = updates + 1)
        BY LifeCases DEF lifecycle, Begin, InLifecycle!Read, InLifecycle!ReadBug,
           InLifecycle!Write, InLifecycle!Log, Notify, InLifecycle!NotifyAssigned,
           InLifecycle!NotifyCompleted, InLifecycle!NotifyResolved, InLifecycle!WriteBug,
           InLifecycle!Webhook
    <2>2. QED
        BY <1>2, <2>1 DEF LifeRight
<1>4. mixed' \subseteq mixed \cup {"feature", "bug", "trail"}
    <2>1. CASE UNCHANGED mixed
        BY <2>1
    <2>2. ASSUME NEW r \in Updaters, InLifecycle!Write(r)
          PROVE  mixed' \subseteq mixed \cup {"feature", "bug", "trail"}
        BY <2>2 DEF InLifecycle!Write
    <2>3. ASSUME NEW r \in Updaters, InLifecycle!WriteBug(r)
          PROVE  mixed' \subseteq mixed \cup {"feature", "bug", "trail"}
        BY <2>3 DEF InLifecycle!WriteBug
    <2>4. ASSUME NEW s \in Webhooks, InLifecycle!Webhook(s)
          PROVE  mixed' \subseteq mixed \cup {"feature", "bug", "trail"}
        BY <2>4 DEF InLifecycle!Webhook
    <2>5. ASSUME NEW r \in Updaters, Begin(r) \/ InLifecycle!Log(r) \/ Notify(r)
          PROVE  UNCHANGED mixed
        BY <2>5 DEF Begin, InLifecycle!Read, InLifecycle!ReadBug, InLifecycle!Log, Notify,
           InLifecycle!NotifyAssigned, InLifecycle!NotifyCompleted, InLifecycle!NotifyResolved
    <2>6. QED
        BY <2>1, <2>2, <2>3, <2>4, <2>5, LifeCases DEF lifecycle
<1>5. QED
    BY <1>1, <1>3, <1>4 DEF LifeRight

LEMMA ReleasesRightAlways == Spec => []TypeOK
BY ReleasesRightInit, ReleasesRightNext, ReleasesRightType, PTL DEF Spec

LEMMA LifeRightAlways == InLifecycle!Spec => []InLifecycle!TypeOK
<1>1. [InLifecycle!Next]_(InLifecycle!vars) => LifeNext
    BY DEF LifeNext, InLifecycle!vars, lifecycle
<1>2. QED
    BY <1>1, LifeRightInit, LifeRightNext, LifeRightType, PTL DEF InLifecycle!Spec

LEMMA RecordsRightAlways == InRecords!Spec => []InRecords!TypeOK
BY RecordsInit, RecordKeysInit, RecordsRightNext, RecordsRightType, PTL
DEF InRecords!Spec, RecordsRight

(***************************************************************************)
(* Projects, of which ProjectsProofs knows the type: the two instances of   *)
(* its module say the same.                                                 *)
(***************************************************************************)

Proved == INSTANCE ProjectsProofs WITH
    Projects <- {p1, p2, p3, p4, p5}, Legacy <- {p1, p2}, Bases <- {WEB, API}, Members <- {ann},
    Calls <- {"create", "feature", "update", "remove", "addMember", "removeMember"},
    Attempts <- 2, req <- projectReq

LEMMA SameSets ==
    /\ \A S : Proved!Cardinality(S) = InProjects!Cardinality(S)
    /\ \A S : Proved!IsFiniteSet(S) = InProjects!IsFiniteSet(S)
BY Zenon DEF Proved!Cardinality, InProjects!Cardinality, Proved!IsFiniteSet,
   InProjects!IsFiniteSet

LEMMA ProjectsAssumed == Proved!ProjectsAssumption
BY SameSets, WorkAssumption DEF Proved!ProjectsAssumption, InProjects!ProjectsAssumption,
   Proved!AllCalls, InProjects!AllCalls

LEMMA SameType == Proved!TypeOK => InProjects!TypeOK
BY SameSets DEF Proved!TypeOK, InProjects!TypeOK, Proved!Exists, InProjects!Exists,
   Proved!Keys, InProjects!Keys, Proved!NoKey, InProjects!NoKey

LEMMA SameInit == InProjects!Init => Proved!Init
BY DEF Proved!Init, InProjects!Init, Proved!Absent, InProjects!Absent, Proved!NoKey,
   InProjects!NoKey, Proved!Idle, InProjects!Idle

LEMMA SameNext == [InProjects!Next]_(InProjects!vars) => [Proved!Next]_(Proved!vars)
BY DEF Proved!NoKey, InProjects!NoKey, Proved!Absent, InProjects!Absent, Proved!Exists,
   InProjects!Exists, Proved!At, InProjects!At, Proved!Go, InProjects!Go, Proved!StoredKeys,
   InProjects!StoredKeys, Proved!Holds, InProjects!Holds, Proved!Free, InProjects!Free,
   Proved!KeyFree, InProjects!KeyFree, Proved!NextFreeKey, InProjects!NextFreeKey,
   Proved!CountKey, InProjects!CountKey, Proved!Create, InProjects!Create, Proved!Allocate,
   InProjects!Allocate, Proved!Insert, InProjects!Insert, Proved!Feature, InProjects!Feature,
   Proved!Increment, InProjects!Increment, Proved!Derive, InProjects!Derive, Proved!Persist,
   InProjects!Persist, Proved!Commit, InProjects!Commit, Proved!Update, InProjects!Update,
   Proved!Rename, InProjects!Rename, Proved!Remove, InProjects!Remove, Proved!Delete,
   InProjects!Delete, Proved!RowsOf, InProjects!RowsOf, Proved!AddMember, InProjects!AddMember,
   Proved!Add, InProjects!Add, Proved!RemoveMember, InProjects!RemoveMember,
   Proved!DeleteMember, InProjects!DeleteMember, Proved!Step, InProjects!Step, Proved!Next,
   InProjects!Next, Proved!Min, InProjects!Min, Proved!Cardinality, InProjects!Cardinality,
   Proved!vars, InProjects!vars

LEMMA ProjectsRightAlways == InProjects!Spec => []InProjects!TypeOK
<1>1. Proved!Spec => []Proved!TypeOK
    BY ProjectsAssumed, Proved!ProjectsTyped, PTL DEF Proved!ProjectsAssumption
<1>2. QED
    BY <1>1, SameType, SameInit, SameNext, PTL DEF InProjects!Spec, Proved!Spec

(***************************************************************************)
(* The components side by side.                                             *)
(***************************************************************************)

\* Whatever is interleaved and removed meanwhile: every row of the four components is one,
\* what it refers to is there (a link's release and feature, a comment's feature and bug, an
\* entry of the log its feature, a bug and a pull request their feature), numbers are within
\* what was given out, and every request is at a step of its call.
THEOREM WorkTyped == PartSpec => []AllTypeOK
<1>1. PartInit => Init /\ InProjects!Init /\ InLifecycle!Init /\ InRecords!Init
    BY DEF PartInit
<1> DEFINE all == <<part, vars, projectVars, lifecycle, records>>
<1>2. [PartNext]_all => [Next]_vars
    BY DEF PartNext
<1>3. [PartNext]_all => [InProjects!Next]_(InProjects!vars)
    BY DEF PartNext, projectVars, InProjects!vars
<1>4. [PartNext]_all => [InLifecycle!Next]_(InLifecycle!vars)
    BY DEF PartNext, lifecycle, InLifecycle!vars
<1>5. [PartNext]_all => [InRecords!Next]_(InRecords!vars)
    BY DEF PartNext, records, InRecords!vars
<1>6. PartSpec => Spec /\ InProjects!Spec /\ InLifecycle!Spec /\ InRecords!Spec
    BY <1>1, <1>2, <1>3, <1>4, <1>5, PTL
    DEF PartSpec, Spec, InProjects!Spec, InLifecycle!Spec, InRecords!Spec
<1>7. QED
    BY <1>6, ReleasesRightAlways, ProjectsRightAlways, LifeRightAlways, RecordsRightAlways, PTL
    DEF AllTypeOK
=============================================================================
