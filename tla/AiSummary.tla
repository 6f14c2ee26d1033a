----------------------------- MODULE AiSummary ------------------------------
(***************************************************************************)
(* Summaries of pull requests.  The webhooks for opened, synchronize and    *)
(* merged each start generateAndSaveAiSummary in the background: it gets a  *)
(* token, fetches the diff as it is by then, has it reviewed and saves what *)
(* comes back.  Generations of one pull request run side by side, may fail  *)
(* at every step and are lost when the process ends.                        *)
(***************************************************************************)
EXTENDS Naturals, FiniteSets

CONSTANTS
    PRs,
    MaxDiffs,    \* bound: diffs a pull request has, one after the other
    MaxRestarts  \* bound

AiSummaryAssumption == MaxDiffs \in Nat \ {0} /\ MaxRestarts \in Nat

VARIABLES
    diff,      \* on GitHub: the number of the current diff, 0 before the pull request
    merged,    \* on GitHub: merged pull requests
    hooks,     \* webhooks not handled yet: pull request, kind, diff at the time
    rows,      \* rows of table PullRequest
    summary,   \* PullRequest.aiSummary: the diff it is of, 0 for null
    jobs,      \* generations under way
    restarts,
    finished,  \* for properties: pull requests whose merge has been summarized
    overtaken, \* for properties: pull requests with a save of an older diff over a newer one
    lost       \* for properties: pull requests whose generation for the merge failed

vars == <<diff, merged, hooks, rows, summary, jobs, restarts, finished, overtaken, lost>>
onGitHub == <<diff, merged>>

Kinds == {"opened", "synchronize", "merged"}

TypeOK ==
    /\ diff \in [PRs -> 0..MaxDiffs]
    /\ \A p \in merged : diff[p] > 0
    /\ \A h \in hooks : h.pr \in PRs /\ h.kind \in Kinds /\ h.diff \in 1..diff[h.pr]
    /\ \A p \in rows : diff[p] > 0
    /\ \A p \in PRs : summary[p] <= diff[p] /\ (summary[p] > 0 => p \in rows)
    /\ \A j \in jobs : /\ j.pr \in rows /\ j.kind \in Kinds
                       /\ j.at \in {"token", "fetch", "review", "save"} /\ j.diff <= diff[j.pr]
    /\ restarts \in 0..MaxRestarts

Init ==
    /\ diff = [p \in PRs |-> 0] /\ merged = {} /\ hooks = {} /\ rows = {}
    /\ summary = [p \in PRs |-> 0] /\ jobs = {}
    /\ restarts = 0 /\ finished = {} /\ overtaken = {} /\ lost = {}

Sent(p, kind, d) == hooks' = hooks \cup {[pr |-> p, kind |-> kind, diff |-> d]}

Push(p) ==
    /\ diff[p] < MaxDiffs /\ p \notin merged
    /\ diff' = [diff EXCEPT ![p] = @ + 1]
    /\ Sent(p, IF diff[p] = 0 THEN "opened" ELSE "synchronize", diff[p] + 1)
    /\ UNCHANGED <<merged, rows, summary, jobs, restarts, finished, overtaken, lost>>

Merge(p) ==
    /\ diff[p] > 0 /\ p \notin merged
    /\ merged' = merged \cup {p} /\ Sent(p, "merged", diff[p])
    /\ UNCHANGED <<diff, rows, summary, jobs, restarts, finished, overtaken, lost>>

Job(h) == [pr |-> h.pr, kind |-> h.kind, hook |-> h.diff, at |-> "token", diff |-> 0]

\* handlePROpened, handlePRSynchronize, handlePRClosed: without a row only `opened' does anything.
HandleHook(h) ==
    /\ hooks' = hooks \ {h}
    /\ IF h.pr \in rows
       THEN /\ jobs' = IF h.kind = "opened" THEN jobs ELSE jobs \cup {Job(h)}
            /\ UNCHANGED rows
       ELSE IF h.kind = "opened"
       THEN rows' = rows \cup {h.pr} /\ jobs' = jobs \cup {Job(h)}
       ELSE UNCHANGED <<rows, jobs>>
    /\ UNCHANGED <<onGitHub, summary, restarts, finished, overtaken, lost>>

Becomes(j, k) == jobs' = (jobs \ {j}) \cup {k}

\* getInstallationAccessToken.
GetToken(j) ==
    /\ j.at = "token" /\ Becomes(j, [j EXCEPT !.at = "fetch"])
    /\ UNCHANGED <<onGitHub, hooks, rows, summary, restarts, finished, overtaken, lost>>

\* fetchPullRequestDiff: whatever the pull request is now.
FetchDiff(j) ==
    /\ j.at = "fetch" /\ Becomes(j, [j EXCEPT !.at = "review", !.diff = diff[j.pr]])
    /\ UNCHANGED <<onGitHub, hooks, rows, summary, restarts, finished, overtaken, lost>>

Review(j) ==
    /\ j.at = "review" /\ Becomes(j, [j EXCEPT !.at = "save"])
    /\ UNCHANGED <<onGitHub, hooks, rows, summary, restarts, finished, overtaken, lost>>

\* Mutant: a summary that is there is kept.
SaveSummary_First(j) ==
    /\ j.at = "save" /\ jobs' = jobs \ {j}
    /\ summary' = [summary EXCEPT ![j.pr] = IF @ = 0 THEN j.diff ELSE @]
    /\ finished' = IF j.kind = "merged" THEN finished \cup {j.pr} ELSE finished
    /\ UNCHANGED <<onGitHub, hooks, rows, restarts, overtaken, lost>>

SaveSummary(j) ==
    /\ j.at = "save" /\ jobs' = jobs \ {j}
    /\ summary' = [summary EXCEPT ![j.pr] = j.diff]
    /\ finished' = IF j.kind = "merged" THEN finished \cup {j.pr} ELSE finished
    /\ overtaken' = IF j.diff < summary[j.pr] THEN overtaken \cup {j.pr}
                    ELSE IF j.diff = diff[j.pr] THEN overtaken \ {j.pr} ELSE overtaken
    /\ UNCHANGED <<onGitHub, hooks, rows, restarts, lost>>

\* Any call may fail, and the review may be null: logged, and that was it.
Fail(j) ==
    /\ jobs' = jobs \ {j}
    /\ lost' = IF j.kind = "merged" THEN lost \cup {j.pr} ELSE lost
    /\ UNCHANGED <<onGitHub, hooks, rows, summary, restarts, finished, overtaken>>

\* Nothing of the generations is stored.
Restart ==
    /\ restarts < MaxRestarts /\ restarts' = restarts + 1 /\ jobs' = {}
    /\ lost' = lost \cup {j.pr : j \in {k \in jobs : k.kind = "merged"}}
    /\ UNCHANGED <<onGitHub, hooks, rows, summary, finished, overtaken>>

Progress(j) == GetToken(j) \/ FetchDiff(j) \/ Review(j) \/ SaveSummary(j)

Next ==
    \/ \E p \in PRs : Push(p) \/ Merge(p)
    \/ \E h \in hooks : HandleHook(h)
    \/ \E j \in jobs : Progress(j) \/ Fail(j)
    \/ Restart

Spec == Init /\ [][Next]_vars

(***************************************************************************)
(* Properties.                                                              *)
(***************************************************************************)

\* Unless a generation that had fetched its diff before ended last.
FinalUnlessOvertaken ==
    \A p \in merged : p \in finished /\ p \notin overtaken => summary[p] = diff[p]

=============================================================================
