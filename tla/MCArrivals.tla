----------------------------- MODULE MCArrivals -----------------------------
(* What has to arrive: the notifications of a member at the client, and the  *)
(* deliveries of GitHub at the webhook.  The components share no variable:   *)
(* one of them steps, with its fairness, and the other stays in an initial   *)
(* state.                                                                    *)
EXTENDS NotificationStream

CONSTANTS k1, k2, s1, s2, c1, c2, w1, p1, f1, ann, h1, h2

VARIABLES part, github, payload, outbox, attempt, webhookEvent, pullRequest, feature, activity,
          notification, repoLinked, timeouts, failures, edits

\* The branch of the pull request carries the id of a feature.
InWebhook == INSTANCE PRWebhook WITH
    PRs <- {p1}, Features <- {f1}, Members <- {ann}, Handlers <- {h1, h2},
    BranchRef <- [p \in {p1} |-> [kind |-> "verbatim", feature |-> f1]],
    InitAssignee <- [f \in {f1} |-> ann], Kinds <- {"opened", "merged"}, Chosen <- {"DONE"},
    Ordered <- FALSE, MaxEvents <- 2, MaxTimeouts <- 0, MaxFaults <- 2, MaxEdits <- 1,
    faults <- failures

webhook == <<github, payload, outbox, attempt, webhookEvent, pullRequest, feature, activity,
             notification, repoLinked, timeouts, failures, edits>>

ASSUME ArrivalsAssumption == InWebhook!WebhookAssumption

PartInit ==
    /\ part \in {"webhook", "stream"}
    /\ Init
    /\ InWebhook!Init /\ (part # "webhook" => repoLinked)

PartNext ==
    \/ part = "stream" /\ Next /\ UNCHANGED <<part, webhook>>
    \/ part = "webhook" /\ InWebhook!Next /\ UNCHANGED <<part, vars>>

\* The fairness of each component, for the one that steps.
PartSpec ==
    /\ PartInit /\ [][PartNext]_<<part, vars, webhook>>
    /\ \A c \in Conns : WF_vars(part = "stream" /\ ConnStep(c))
    /\ WF_vars(part = "stream" /\ Receive)
    /\ \A h \in {h1, h2} : WF_webhook(part = "webhook" /\ InWebhook!HandlerStep(h))
    /\ \A d \in InWebhook!Deliveries :
          SF_webhook(part = "webhook" /\ \E h \in {h1, h2} : InWebhook!Receive(h, d))

\* A delivery of GitHub is settled in the end.
Settles == InWebhook!Settles
=============================================================================
