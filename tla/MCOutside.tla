----------------------------- MODULE MCOutside ------------------------------
(* What ties a workspace to the outside, beside the webhooks of pull         *)
(* requests: invited people, the installation of the GitHub app, the names   *)
(* of branches, the summaries made of diffs.  The components share no        *)
(* variable: one of them steps, the others stay in an initial state.         *)
EXTENDS Invitations, TLC, Sequences

CONSTANTS T1, T2, i1, x1, n1, n2, r1, r2, r3, r4, a1, a2, p1, None

\* Of the installation and of the summaries.
CONSTANTS Tenants, Installations, Repos, Nonces, Requests, Calls, MaxCrashes,
          PRs, MaxDiffs, MaxRestarts

\* Of the branches.
CONSTANTS Features, Bugs, KeyOf, Parent, Titles

VARIABLES
    part,
    github, redirects, events, nonce, inst, repo, req, crashes, revived, late,
    work, title, branch, body, opened, linked,
    diff, merged, hooks, rows, summary, jobs, restarts, finished, overtaken, lost

\* Ids in the form of UUIDs, each of one digit.
Id(c) == [i \in 1..36 |-> IF i \in {9, 14, 19, 24} THEN "-" ELSE c]

\* Keys that mislead nobody, that consist of hexadecimal digits, that end in a kind of
\* branch, and no key; a bug of the first feature and one of none.
TheKeys ==
    Id("1") :> [base |-> <<"w", "e", "b">>, number |-> <<"1">>]
    @@ Id("2") :> [base |-> <<"f", "a", "b">>, number |-> <<"1", "2">>]
    @@ Id("3") :> [base |-> <<"b", "u", "g">>, number |-> <<"3">>] @@ Id("4") :> None
TheParents == Id("b") :> Id("1") @@ Id("c") :> None
TheFeatures == DOMAIN TheKeys
TheBugs == DOMAIN TheParents

\* Words that are kinds, ids, hexadecimal, neither, longer than a slug; titles of up to two.
TheWords ==
    {<<"b", "u", "g">>, <<"f", "e", "a", "t", "u", "r", "e">>, <<"a", "d", "d">>,
     <<"l", "o", "g", "i", "n">>, Id("1"), Id("b"), [i \in 1..41 |-> "x"]}
TheTitles == {<<>>} \cup TheWords \cup {v \o <<"-">> \o w : v, w \in TheWords}

App == INSTANCE Installation

InBranches == INSTANCE BranchNames

InSummary == INSTANCE AiSummary

installation == <<github, redirects, events, nonce, inst, repo, req, crashes, revived, late>>
branches == <<work, title, branch, body, opened, linked>>
summaries == <<diff, merged, hooks, rows, summary, jobs, restarts, finished, overtaken, lost>>

ASSUME OutsideAssumption ==
       App!InstallationAssumption /\ InBranches!BranchAssumption
       /\ InSummary!AiSummaryAssumption

PartInit ==
    /\ part \in {"invitations", "installation", "branches", "summaries"}
    /\ Init /\ (part # "invitations" => account = "NONE")
    /\ App!Init /\ InBranches!Init /\ InSummary!Init

PartNext ==
    \/ part = "invitations" /\ Next /\ UNCHANGED <<part, installation, branches, summaries>>
    \/ part = "installation" /\ App!Next /\ UNCHANGED <<part, vars, branches, summaries>>
    \/ part = "branches" /\ InBranches!Next /\ UNCHANGED <<part, vars, installation, summaries>>
    \/ part = "summaries" /\ InSummary!Next /\ UNCHANGED <<part, vars, installation, branches>>

PartSpec == PartInit /\ [][PartNext]_<<part, vars, installation, branches, summaries>>

Symmetry == Permutations(Requests)

\* The four type invariants.
AllTypeOK == TypeOK /\ App!TypeOK /\ InBranches!TypeOK /\ InSummary!TypeOK

\* "Unlink repositories": once an installation is removed none of its repositories is linked,
\* unless by a request that ran while it was removed or being removed.
RemovedUnlinked == App!RemovedUnlinked

\* "Push a branch with this name and ClearLoop links the pull request automatically", to
\* the feature it was shown for, whatever the text says, unless key and title mislead; and
\* the branch of a bug leads to the bug's feature, of a bug without one nowhere.
LinksBack == InBranches!LinksBack

\* "The trailing slug ... is ignored when matching, so renaming it never breaks the link".
SlugIgnored == InBranches!SlugIgnored

\* Once the summary of the final diff has been written, it is the one that is kept, unless
\* a generation that had fetched its diff before ended last.
FinalUnlessOvertaken == InSummary!FinalUnlessOvertaken
=============================================================================
