------------------------------ MODULE Releases ------------------------------
(***************************************************************************)
(* ReleaseService in one workspace: releases with their version, the        *)
(* features linked to them, and notes synthesized from the summaries of     *)
(* merged pull requests.  Requests interleave at the database calls and     *)
(* around the call of the AI; features are removed and pull requests        *)
(* linked and merged meanwhile.                                             *)
(***************************************************************************)
EXTENDS Naturals, FiniteSets

CONSTANTS
    Releases,  \* rows ever inserted into table Release
    Versions,
    Features,
    PRs,
    Requests,  \* each makes one call
    Calls,     \* the calls made: subset of AllCalls
    Repeats,   \* {TRUE, FALSE} if a request may name a feature twice, else {FALSE}
    MaxLinks,  \* bound: rows ever inserted into table ReleaseFeature
    None

AllCalls == {"create", "update", "remove", "addFeature", "removeFeature", "notes"}

ASSUME ReleasesAssumption ==
    /\ Calls \subseteq AllCalls /\ Repeats \subseteq BOOLEAN /\ MaxLinks \in Nat
    /\ None \notin Releases \cup Versions \cup Features \cup PRs \cup AllCalls
    /\ IsFiniteSet(Features)

VARIABLES
    release,  \* table Release
    links,    \* table ReleaseFeature
    features, \* rows of table Feature
    pr,       \* of table PullRequest what notes are made from
    req,      \* where each request stands
    used,     \* ids given out: releases, and a count of link rows
    eligible  \* for properties: feature and pull request, once merged under it with a summary

vars == <<release, links, features, pr, req, used, eligible>>

Absent == [version |-> None, notes |-> {}, by |-> None]
Exists(x) == release[x].version # None
Holders(v) == {x \in Releases : release[x].version = v}
Linked(x, f) == {l \in links : l.release = x /\ l.feature = f}
Idle == [at |-> "idle", call |-> None, release |-> None, version |-> None, features |-> {},
         repeated |-> FALSE, notes |-> {}, link |-> 0]

TypeOK ==
    /\ release \in [Releases -> [version : Versions \cup {None}, notes : SUBSET PRs,
                                 by : Requests \cup {None}]]
    /\ \A l \in links : /\ Exists(l.release) /\ l.feature \in features
                        /\ l.row \in 1..used.links
    /\ features \subseteq Features
    /\ pr \in [PRs -> [feature : features \cup {None}, merged : BOOLEAN, summary : BOOLEAN]]
    /\ \A r \in Requests : req[r].at \in {"idle", "read", "synthesize", "check", "write", "answer",
            "feature", "existing", "delete", "done", "linked", "conflict", "missing", "failed"}
    /\ used.releases \subseteq Releases

Init ==
    /\ release = [x \in Releases |-> Absent]
    /\ links = {} /\ features = Features
    /\ pr = [p \in PRs |-> [feature |-> None, merged |-> FALSE, summary |-> FALSE]]
    /\ req = [r \in Requests |-> Idle]
    /\ used = [releases |-> {}, links |-> 0]
    /\ eligible = {}

At(r, call, step) == req[r].call = call /\ req[r].at = step
Go(r, step) == req' = [req EXCEPT ![r].at = step]
Call(r, call) == call \in Calls /\ req[r].at = "idle"

\* What findMany returns: merged pull requests of the features; all of them if none named.
Merged(fs) == {p \in PRs : pr[p].merged /\ (fs = {} \/ pr[p].feature \in fs)}

(***************************************************************************)
(* create                                                                   *)
(***************************************************************************)

\* All named features exist, counted without repetitions.
Create(r, v, fs, repeated, ai) ==
    /\ Call(r, "create")
    /\ repeated => fs # {}
    /\ req' = [req EXCEPT ![r] = [@ EXCEPT !.call = "create", !.version = v, !.features = fs,
                                           !.repeated = repeated,
                                           !.at = IF ~(fs \subseteq features) THEN "missing"
                                                  ELSE IF ai /\ fs # {} THEN "read" ELSE "check"]]
    /\ UNCHANGED <<release, links, features, pr, used, eligible>>

\* Mutant: open pull requests count as well.
ReadMerged_All(r) ==
    LET found == {p \in PRs : pr[p].feature \in req[r].features} IN
    /\ req[r].call \in {"create", "notes"} /\ req[r].at = "read"
    /\ req' = [req EXCEPT ![r] = [@ EXCEPT !.notes = {p \in found : pr[p].summary},
                                           !.at = IF found = {} /\ req[r].call = "create"
                                                  THEN "check" ELSE "synthesize"]]
    /\ UNCHANGED <<release, links, features, pr, used, eligible>>

\* Only those with a summary reach the prompt.
ReadMerged(r) ==
    LET found == Merged(req[r].features)
        given == {p \in found : pr[p].summary}
        next == IF found # {} THEN "synthesize"
                ELSE IF req[r].call = "create" THEN "check" ELSE "done"
    IN
    /\ req[r].call \in {"create", "notes"} /\ req[r].at = "read"
    /\ req' = [req EXCEPT ![r] = [@ EXCEPT !.notes = given, !.at = next]]
    /\ UNCHANGED <<release, links, features, pr, used, eligible>>

\* generateReleaseSummary: null without summaries or if the AI fails; a create keeps the
\* description of its request then.
Synthesize(r) ==
    /\ req[r].call \in {"create", "notes"} /\ req[r].at = "synthesize"
    /\ \E made \in {{}, req[r].notes} :
          req' = [req EXCEPT ![r] = [@ EXCEPT !.notes = made,
                                              !.at = IF req[r].call = "create" THEN "check" ELSE "done"]]
    /\ UNCHANGED <<release, links, features, pr, used, eligible>>

CheckVersion(r) ==
    /\ req[r].call \in {"create", "update"} /\ req[r].at = "check"
    /\ Go(r, IF Holders(req[r].version) \subseteq {req[r].release} THEN "write" ELSE "conflict")
    /\ UNCHANGED <<release, links, features, pr, used, eligible>>

\* runReleaseWrite: one transaction inserts the release and one link per name.  Whatever
\* P2002 it meets, the version is said to exist.
WriteCreate(r) ==
    LET q == req[r]
        n == Cardinality(q.features)
    IN
    /\ At(r, "create", "write")
    /\ \/ /\ Holders(q.version) = {} /\ q.features \subseteq features /\ ~q.repeated
          /\ used.links + n <= MaxLinks
          /\ \E x \in Releases \ used.releases,
                row \in [q.features -> used.links + 1..used.links + n] :
                /\ \A f, g \in q.features : row[f] = row[g] => f = g
                /\ release' = [release EXCEPT ![x] =
                                 [version |-> q.version, notes |-> q.notes, by |-> r]]
                /\ links' = links \cup {[release |-> x, feature |-> f, row |-> row[f]] :
                                        f \in q.features}
                /\ req' = [req EXCEPT ![r] = [@ EXCEPT !.release = x, !.at = "answer"]]
                /\ used' = [releases |-> used.releases \cup {x}, links |-> used.links + n]
       \/ /\ Holders(q.version) # {} \/ q.repeated
          /\ Go(r, "conflict") /\ UNCHANGED <<release, links, used>>
       \/ /\ Holders(q.version) = {} /\ ~(q.features \subseteq features)
          /\ Go(r, "failed") /\ UNCHANGED <<release, links, used>>
    /\ UNCHANGED <<features, pr, eligible>>

\* create answers with findOne.
Answer(r) ==
    /\ At(r, "create", "answer")
    /\ Go(r, IF Exists(req[r].release) THEN "done" ELSE "missing")
    /\ UNCHANGED <<release, links, features, pr, used, eligible>>

(***************************************************************************)
(* update, remove                                                           *)
(***************************************************************************)

Update(r, x, v) ==
    /\ Call(r, "update") /\ Exists(x)
    /\ req' = [req EXCEPT ![r] = [@ EXCEPT !.call = "update", !.release = x, !.version = v,
                                           !.at = IF v = release[x].version THEN "write" ELSE "check"]]
    /\ UNCHANGED <<release, links, features, pr, used, eligible>>

WriteUpdate(r) ==
    LET q == req[r]
        taken == Holders(q.version) \ {q.release} # {}
    IN
    /\ At(r, "update", "write")
    /\ \/ /\ Exists(q.release) /\ ~taken
          /\ release' = [release EXCEPT ![q.release].version = q.version]
          /\ Go(r, "done")
       \/ Exists(q.release) /\ taken /\ Go(r, "conflict") /\ UNCHANGED release
       \/ ~Exists(q.release) /\ Go(r, "failed") /\ UNCHANGED release
    /\ UNCHANGED <<links, features, pr, used, eligible>>

Remove(r, x) ==
    /\ Call(r, "remove") /\ Exists(x)
    /\ req' = [req EXCEPT ![r] = [@ EXCEPT !.call = "remove", !.release = x, !.at = "delete"]]
    /\ UNCHANGED <<release, links, features, pr, used, eligible>>

\* The links of the release go with it.
DeleteRelease(r) ==
    LET x == req[r].release IN
    /\ At(r, "remove", "delete")
    /\ release' = [release EXCEPT ![x] = Absent]
    /\ links' = {l \in links : l.release # x}
    /\ Go(r, IF Exists(x) THEN "done" ELSE "failed")
    /\ UNCHANGED <<features, pr, used, eligible>>

(***************************************************************************)
(* addFeature, removeFeature                                                *)
(***************************************************************************)

FindRelease(r, call, x, f) ==
    /\ Call(r, call) /\ call \in {"addFeature", "removeFeature"} /\ Exists(x)
    /\ req' = [req EXCEPT ![r] = [@ EXCEPT !.call = call, !.release = x, !.features = {f},
                                           !.at = IF call = "addFeature" THEN "feature" ELSE "existing"]]
    /\ UNCHANGED <<release, links, features, pr, used, eligible>>

FindFeature(r) ==
    /\ At(r, "addFeature", "feature")
    /\ Go(r, IF req[r].features \subseteq features THEN "existing" ELSE "missing")
    /\ UNCHANGED <<release, links, features, pr, used, eligible>>

FindLink(r) ==
    LET found == UNION {Linked(req[r].release, f) : f \in req[r].features} IN
    /\ req[r].at = "existing"
    /\ \/ found = {} /\ Go(r, IF req[r].call = "addFeature" THEN "write" ELSE "missing")
       \/ /\ req[r].call = "addFeature" /\ found # {} /\ Go(r, "linked")
       \/ /\ req[r].call = "removeFeature"
          /\ \E l \in found : req' = [req EXCEPT ![r] = [@ EXCEPT !.link = l.row, !.at = "delete"]]
    /\ UNCHANGED <<release, links, features, pr, used, eligible>>

\* Mutant: the pair is not unique.
WriteLink_Twice(r) ==
    LET q == req[r] IN
    /\ At(r, "addFeature", "write") /\ used.links < MaxLinks
    /\ \E f \in q.features : /\ Exists(q.release) /\ f \in features
                             /\ links' = links \cup {[release |-> q.release, feature |-> f,
                                                      row |-> used.links + 1]}
    /\ used' = [used EXCEPT !.links = @ + 1]
    /\ Go(r, "done")
    /\ UNCHANGED <<release, features, pr, eligible>>

\* The index on release and feature and the foreign keys decide.
WriteLink(r) ==
    LET q == req[r] IN
    /\ At(r, "addFeature", "write")
    /\ \E f \in q.features :
          \/ /\ Exists(q.release) /\ f \in features /\ Linked(q.release, f) = {}
             /\ used.links < MaxLinks
             /\ links' = links \cup {[release |-> q.release, feature |-> f,
                                      row |-> used.links + 1]}
             /\ used' = [used EXCEPT !.links = @ + 1]
             /\ Go(r, "done")
          \/ /\ ~Exists(q.release) \/ f \notin features \/ Linked(q.release, f) # {}
             /\ Go(r, "failed") /\ UNCHANGED <<links, used>>
    /\ UNCHANGED <<release, features, pr, eligible>>

\* By the id of the row found.
DeleteLink(r) ==
    LET gone == {l \in links : l.row = req[r].link} IN
    /\ At(r, "removeFeature", "delete")
    /\ links' = links \ gone
    /\ Go(r, IF gone = {} THEN "failed" ELSE "done")
    /\ UNCHANGED <<release, features, pr, used, eligible>>

\* generateReleaseNotes: nothing is stored.
Notes(r, fs) ==
    /\ Call(r, "notes")
    /\ req' = [req EXCEPT ![r] = [@ EXCEPT !.call = "notes", !.features = fs,
                                           !.at = IF fs \subseteq features THEN "read" ELSE "missing"]]
    /\ UNCHANGED <<release, links, features, pr, used, eligible>>

(***************************************************************************)
(* Meanwhile: features are removed; pull requests get a feature, a summary  *)
(* and merged.                                                              *)
(***************************************************************************)

RemoveFeature(f) ==
    /\ f \in features /\ features' = features \ {f}
    /\ links' = {l \in links : l.feature # f}
    /\ pr' = [p \in PRs |-> IF pr[p].feature = f THEN [pr[p] EXCEPT !.feature = None] ELSE pr[p]]
    /\ UNCHANGED <<release, req, used, eligible>>

PRChanges(p) ==
    /\ \/ \E f \in features \cup {None} : pr' = [pr EXCEPT ![p].feature = f]
       \/ pr' = [pr EXCEPT ![p].merged = TRUE]
       \/ pr' = [pr EXCEPT ![p].summary = TRUE]
    /\ eligible' = IF pr'[p].merged THEN eligible \cup {<<pr'[p].feature, p>>} ELSE eligible
    /\ UNCHANGED <<release, links, features, req, used>>

Step(r) ==
    \/ ReadMerged(r) \/ Synthesize(r) \/ CheckVersion(r)
    \/ WriteCreate(r) \/ Answer(r) \/ WriteUpdate(r) \/ DeleteRelease(r)
    \/ FindFeature(r) \/ FindLink(r) \/ WriteLink(r) \/ DeleteLink(r)

Next ==
    \/ \E r \in Requests :
          \/ Step(r)
          \/ \E v \in Versions, fs \in SUBSET Features, repeated \in Repeats, ai \in BOOLEAN :
                Create(r, v, fs, repeated, ai)
          \/ \E x \in Releases, v \in Versions : Update(r, x, v)
          \/ \E x \in Releases : Remove(r, x)
          \/ \E call \in Calls, x \in Releases, f \in Features : FindRelease(r, call, x, f)
          \/ \E fs \in SUBSET Features : Notes(r, fs)
    \/ \E f \in Features : RemoveFeature(f)
    \/ \E p \in PRs : PRChanges(p)

Spec == Init /\ [][Next]_vars

(***************************************************************************)
(* Properties.                                                              *)
(***************************************************************************)

\* Checked first, written later: still no two releases of a workspace have one version.
UniqueVersion == \A x, y \in Releases : Exists(x) /\ release[x].version = release[y].version => x = y

\* A feature is linked to a release once, however many add it at a time.
LinkedOnce == \A l, k \in links : l.release = k.release /\ l.feature = k.feature => l = k

\* What is looked for first and written later is still there once: the unique indexes decide.
NothingTwice == UniqueVersion /\ LinkedOnce

\* Notes are made of pull requests that have been merged under a feature of the release.
NotesMerged ==
    \A x \in Releases : \A p \in release[x].notes :
        \E f \in req[release[x].by].features : <<f, p>> \in eligible
=============================================================================
