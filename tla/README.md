# ClearLoop in TLA+

ClearLoop is a multi-tenant project tracker: a NestJS backend over PostgreSQL
(`src/clearloop-backend`), a Next.js client (`src/clearloop-frontend`), and a
GitHub App whose webhooks move features along as their pull requests open and
merge. These modules model the parts whose correctness depends on the order in
which requests, webhooks and faults happen.

Every request handler of the backend is a chain of awaits; between two of them
any other request may run, on this or another server process. The database is
used at READ COMMITTED, so a read outside a transaction proves nothing about a
later write, and what holds across requests holds because of a unique index, a
foreign key, a row lock or the order of two writes. This is what the models keep.

## Inventory

| Component | State | Operations | Hard behaviour | What makes it correct |
|---|---|---|---|---|
| Pull-request webhooks (`github.service.ts` 455-1002) | `WebhookEvent` by delivery id, `PullRequest`, `Feature.status`, `ActivityLog` | `handleWebhook`, the handlers of opened, closed, reopened, synchronize | redelivery during an attempt, events out of order, a crash between commit and mark, members editing the same rows | no delivery is lost or taken as done too early; row and feature follow GitHub; the log and the notices have each step once |
| Manual linking (1011-1100) | `PullRequest.featureId`, `linkSource` | `linkPRToFeature`, `unlinkPRFromFeature` | a webhook that read the old link | a member's link is undone by members only |
| Installations, repositories (`github.service.ts` 36-449, `github.controller.ts` 42-119) | install nonce, `GitHubInstallation`, `GitHubRepository.projectId` | install URL, callback, installation events, connect, disconnect | callback and event in either order, connect during disconnect, one nonce used twice | a removed installation has no linked repository; a nonce is used once |
| AI summaries (295-333, `ai.service.ts`) | `PullRequest.aiSummary` | fire-and-forget generation on open, push, merge | generations that finish out of order | the summary is that of the latest diff |
| Notifications (`notifications/`) | `Notification`, one Subject per member, one cursor and `seen` set per connection | `create`, `notifySafely`, `stream`, `getPersistedStream`, `markRead`, `list` | several server processes, reconnects, rows committed out of cursor order | a connection brings every row after the one its client heard of last; a row exists once per deduplication key |
| Features (`features.service.ts`) | `Feature`, lifecycle stamps | `create`, `update`, `remove` | stamps computed from a stale row; two writers of the status | stamps agree with the status |
| Bug reports (`bug-report.service.ts`) | `BugReport`, its stamps and project | `createBugReport`, `update`, `remove` | as above | stamps agree with the status; bug and feature are of one project |
| Projects, issue keys (`project.service.ts`, `issue-key.ts`, `features.service.ts` 71-118) | `Project.key`, `nextIssueNumber` | `create`, `allocateProjectKey`, the transaction of feature creation | key allocation by read and insert | one key per project, numbers without gaps or repeats |
| Sessions (`auth.service.ts`, `jwt.strategy.ts`) | `LoginSession`, `PasswordResetToken`, `tokenVersion`, `isActive` | login, `selectWorkspace`, `requestPasswordReset`, `resetPassword`, OAuth, `validate` | check and use in separate steps; versions read before a bump | one-time things are used once; a token older than a reset or a role change is refused |
| Members (`users.service.ts`) | `WorkspaceMember.role`, `isActive`, `tokenVersion` | `create`, `update`, `deactiveUser`, `reactivateUser` | changes racing requests in flight | a change that narrows a token's grant revokes it |
| Invitations (`invitations.service.ts`) | `Invitation.status`, token hash | `create`, `validate`, `accept`, `cancel`, `resend` | unconditional writes that overtake each other | accepted is final; one open invitation per address |
| Releases (`releases.service.ts`) | `Release.version`, `ReleaseFeature` | `create`, `update`, `remove`, `addFeature`, notes | check before write; slow AI call in the middle | a version is unique, and the loser is told so |
| Comments, workspace settings, email, logging, health, bootstrap | single rows or none | CRUD, I/O | none across requests | - |
| Frontend notification client (`lib/api/notification.ts`, `lib/hooks/useNotification*.ts`) | cached list and counts, `Last-Event-ID` | connect, reconnect, mark read | events racing a refetch | the cache agrees with the server after a refetch |
| Frontend pages | caches of server data | rendering, forms | - | - |

How they interact: webhooks call the notifications and write features; features,
bugs, invitations and members call `notifySafely`, which never fails its caller;
disconnecting an installation unlinks repositories, which makes the webhooks
ignore deliveries; deleting a feature cascades to its log and nulls
`PullRequest.featureId`; sessions read what members and resets write.

`PROJECT.json` lists under `hazards` each place where one of these can go wrong,
with the properties about it, and under `map` the lines behind every definition.

## Modules

| Module | Models | Checked in | Proved about |
|---|---|---|---|
| `PRWebhook` | deliveries, the four pull-request handlers, member edits | `webhook_*` (`MCPRWebhook`), `arrivals` (`MCArrivals`) | `PRWebhookProofs`, `PRWebhookOrderProofs` |
| `AuthSessions` | sign-in, workspaces, reset links, token versions | `sessions` (`MCSessions`), `auth_link_twice` | `SessionsProofs` |
| `BrowserSession` | the token and the data of the tabs of a browser | `sessions` | `SessionsProofs` |
| `Releases` | versions, linked features, notes | `work` (`MCWork`) | `WorkProofs` |
| `Projects` | keys, issue numbers, project members | `progress` (`MCProgress`), `work` | `ProjectsProofs` |
| `Lifecycle` | stamps, log and notices of a feature and a bug | `work`, `lifecycle_webhook` | `WorkProofs` |
| `IssueRecords` | bugs, comments, log, removal of features | `work` | `WorkProofs` |
| `Invitations` | the invitations of one address | `outside` (`MCOutside`) | `OutsideProofs` |
| `Installation` | install states, callback, events, disconnect, links | `outside`, `progress` | `OutsideProofs` |
| `BranchNames` | branch names and what the webhook reads out of them | `outside`, `branch_slug` | `OutsideProofs` |
| `AiSummary` | background summaries | `outside` | `OutsideProofs` |
| `NotificationStream` | `create`, live push, poll, resume | `client` (`MCClient`), `arrivals` | `NotificationStreamProofs` |
| `NoticeDelivery` | what the stream promises (abstract) | `arrivals` | `NotificationStreamProofs` |
| `NotificationCache` | the notifications a tab keeps | `client` | `ClientProofs` |
| `QueryCaches` | the other queries a tab keeps, and what invalidates them | `client`, `progress` | `ClientProofs` |
| `Onboarding` | the dashboard's first-steps panel | `client`, `progress` | `ClientProofs` |
| `WeeklyBuckets` | the weeks of the trend chart | `client` | `ClientProofs` |

The modules share no variable with one another. `MCSessions`, `MCWork`, `MCOutside`,
`MCClient`, `MCProgress` and `MCArrivals` put several side by side: one is
extended, the others are instances, and the variable `part` says which of them
steps while the others stay in an initial state. So the states of such a run are
those of its parts one after the other, never their product, and an invariant of a
part means what it would in a run of its own. Under a name such as
`RemovedUnlinked` the MC module repeats the property of the instance.

Conventions: a request is a slot (`request`, `req`) that stands at an await; an
action is what lies between two awaits that another request could tell apart; a
`$transaction` is one action, except in `Projects`, whose transactions of a
feature are taken apart because they wait for one another. `None` is null. A
variable marked "for properties" is written only, never read by an action.
An operator under a comment that begins with "Mutant:" is a faulty form of the next
one and takes no part in the specification; `PROJECT.json` says which property it
breaks.

## PRWebhook

One tenant, one repository, any number of pull requests and features, any number
of request slots.

| Variable | In the program |
|---|---|
| `github`, `payload`, `outbox` | GitHub: the state of each pull request, the action a delivery carries, the deliveries it has still to send or to send again |
| `attempt` | one record per request slot: the await the request stands at, the delivery, whether GitHub still waits, and the feature id the handler holds in a local variable |
| `webhookEvent` | `WebhookEvent.status` by `deliveryId` |
| `pullRequest` | status, `featureId`, `linkSource`, and as `content` the event whose title and description it holds |
| `feature` | status and assignee; `DELETED` when the row is gone |
| `activity` | how many log rows each pull request has on each feature, by kind |
| `notification` | the notices by what their deduplication key makes unique |
| `repoLinked` | `GitHubRepository.projectId` is set |
| `timeouts`, `faults`, `edits` | counters behind the bounds |

A request goes through `CheckDuplicate`, `UpsertEvent`, `LookupRepository`,
`MarkIgnored` or `ExtractFeature`, `FindPullRequest`, one of `CreatePullRequest`,
`RecordClosed`, `RecordReopened`, `RecordSynchronize`, then `NotifyAssignee`,
`MarkProcessed`, `Reply`; or through `MarkFailed` from any point of the `try`
block. `Throw` is a failing query or a failing commit there (inside
`notifySafely` it is swallowed and the handler goes on); `Crash` ends the request
where it stands. `TimeOut` makes GitHub send a delivery again while the attempt
runs on. Members link, unlink, edit and delete at any moment, and the repository
is connected and disconnected.

A `$transaction` is one step. Its first write locks the row of the pull request;
the reads that follow concern the feature, whose deletion in between makes the
next write fail and rolls the transaction back, which is `Throw`. The unique
`githubNodeId` and the foreign key on `featureId` are `Insertable`.

The branch either holds an id, which `extractFeatureId` returns unchecked
(`verbatim`), or a key or a bug's id, which is looked up (`lookup`).

### Runs

| Run | Asks | Bounds |
|---|---|---|
| `webhook_overlap` | What holds when attempts overlap and deliveries come in any order | 1 pull request, 2 features, 2 members, 2 slots; opened and merged; 2 timeouts (so three attempts at a delivery), 1 fault, 1 edit |
| `webhook_ordered` | Does the mirror agree with GitHub when events come one after another | all six kinds, 5 events, 2 faults, 1 edit |
| `arrivals` | Is every delivery settled | 2 events in any order, 2 slots, 2 faults, 1 edit, fairness below |
| `webhook_double_log` | A merge is logged once | 2 events, 1 timeout; violated |

Why these bounds are enough to be worth running: the races of this code are
between two attempts at one delivery, or between an attempt and one edit, so two
slots and one edit reach each of them, and a third attempt meets what the first
two left. Pull requests share no row except a feature, which the properties name
through the pull request's own link. Five events are enough to open, push, close,
reopen and merge. What the safety properties of the first run say is also proved
for all bounds.

`webhook_overlap` checks the type invariant and: a link from the branch has
exactly one `OPENED` row in the log (`AutoLinkLogged`), one person at most is told
of the opening (`OneOpenedNotice`), a `PROCESSED` delivery's pull request is in
the table (`ProcessedMeansRecorded`), a `PROCESSED` merge is in the log of the
feature the branch linked (`MergeLogged`), and a link by hand is changed by
members only (`ManualLinkKept`).

`webhook_ordered` sends an event when the previous one is settled. Then
`RowAgreesWithGitHub` and `FeatureFollowsPR` hold whenever nothing is outstanding,
whatever failed or crashed on the way, and `ProcessedFinal` says that the guard
catches a redelivery of what is done. Both agreements exclude a pull request one
of whose events was answered while the repository had no project: nothing repeats
it. Without order they do not hold, and the code does not claim it: the events
carry no sequence that the handlers compare, so a late `reopened` moves the row
and the feature back.

`webhook_double_log` is a disagreement. The comment on the guard says that skipping
a processed delivery prevents double-logged activity; the guard sees `PROCESSED`
only once an attempt has finished, and GitHub's retry after a timeout arrives
before that. Both attempts run the transaction of `handlePRClosed`.

### Liveness and fairness

`FairSpec` assumes that a request that runs goes on (weak fairness of each slot's
handler: Node resumes a resolved await) and that GitHub delivers what is
outstanding, again after each failure, as the comment at
`github.service.ts:460` states (strong fairness of receiving a delivery, since a
slot is free again and again, not for ever). Nothing is assumed of members, of
faults or of new events. Under it `Settles` says that a delivery ends `PROCESSED`
or `IGNORED`, unless its pull request can never be recorded: its `opened` was
ignored, or its branch names a feature that does not exist. In those two cases
every retry fails in the same way. The run has no timeouts: when attempts at one
delivery overlap, the later one may write `FAILED` over `PROCESSED`, its request is
no longer waited for, and nothing settles the delivery again. `arrivals` (`MCArrivals`)
assumes the same of its webhook part.

### Proofs

`PRWebhookProofs` proves, for every value of the constants that satisfies
`WebhookAssumption` (the null value is no feature or member, the branch
references and initial assignees are typed, the bounds are naturals):

- `TypeCorrect`: the type invariant, one lemma per action.
- `AutoLinkIsLogged`: `AutoLinkLogged` is not inductive, because the insert of a
  row needs its log to be empty. `LinkInv` adds `Blank`: a pull request without a row
  has no row in any log. A row is never deleted, and the deletion of a feature
  takes the link along with the log.
- `ManualLinkIsKept`: an action property, from the same facts about who writes the
  link (`RecordKeepsLink`, and `Insertable` for the insert).
- `ProcessedIsRecorded`: `RecordedInv` adds that a request standing behind a read
  that found the row, or behind a commit, has its row. `NotAhead` (no delivery,
  attempt or event exists before GitHub emits it) makes the action a request works
  on constant.
- `OpenedIsToldOnce`: `NoticeInv` says that one request at most stands between the
  insert of a pull request and its notice, and that then no notice exists.
- `MergeIsLogged`: `MergeInv` says that a merge about to be written holds the link
  that is in the row whenever that link is the branch's, that the row's feature
  exists, and that past the commit the log has its row.

`PRWebhookOrderProofs` proves the properties of `webhook_ordered`, for any number of
pull requests, events, slots, faults and edits, under `InOrder`: GitHub sends an
event of a pull request when the previous one is settled and never gives up on
an answer. That is what the run assumes, too.

- `ProcessedIsFinal`: `QueueInv` says that what is outstanding of a pull request
  is its last event, in one place: in the outbox or with one request, which found
  the delivery unprocessed and is the only one that will write its status.
- `RowAgrees`: `HistoryInv` says how GitHub's events follow one another (the last one
  fits the state GitHub has, `opened` is the first, a merge the last). `RowInv` ties
  the row to them: it has the status of the last event that was recorded, and this is the
  last event, or the one before with the last still to be written. It
  holds through a crash between the commit and the mark because a repeated event
  writes what is already there.
- `FeatureFollows`, with `OwnFeature` as well (no two branches lead to one feature: of two
  pull requests for a feature the later event wins, which the code does not
  order): `FollowInv` says that until the first edit a row's link is its branch's, that the
  feature is there, and that its status is the one the row's status calls for.

The liveness properties are model-checked only: liveness under fairness and ENABLED are
out of the prover's reach.

### Not modelled here

The AI summary (in `AiSummary`); titles and texts; `attempts`, `error` and the
times of `WebhookEvent`, which nothing reads; requests that carry no pull request
(refused before any write) or no delivery id; the tenant, since every query of the
handlers is scoped to the repository's tenant; the interleaving of two
transactions inside one another.

## AuthSessions

One person by e-mail address. `member` is `WorkspaceMember` by workspace with role
and `tokenVersion`; `link` is `PasswordResetToken`; `session` is `LoginSession`;
`jwt` is the set of tokens ever signed, and `Accepted` is `JwtStrategy.validate`.
Password and OAuth logins, the choice and the switch of a workspace, requests for a
reset link, resets, and the operations of administrators that bump a version
(`UpdateMember`, `SetActive`) or add a membership are taken apart at their awaits.
`epoch` counts committed resets, so it names the password that is current.

`sessions` (two slots, a workspace of others and one of his own, two links, one reset, one
pending session, one edit by an administrator; one link per window)
asks what a reset ends:

- `ResetEndsAccess`: after a reset has committed, no token signed before it is
  accepted and no pending choice of a workspace made before it is open, whatever the
  requests had read by then.
- `LinksDieWithReset`: no link from before it is live, although links are revoked
  and created in separate steps and checked before the slow hashing.

`auth_link_twice` is a disagreement: the mail says that a link can be used once;
two submissions that are both in the hashing both set a password (`LinkUsedOnce`).

Proofs (`SessionsProofs`), both from one inductive invariant: `Known` says that a
token was signed for a membership that is still there, at no later version than it
has now; `TokensInv` that a token from before the last reset has been overtaken by
its membership; `HeldInv` says the same of a request that is about to sign. They
are inductive because versions only grow and a membership never goes away (`Grows`). The
link and the pending session need no history: the transaction of the reset expires all of
them, and what is made later carries the new epoch.

`SessionsTyped` proves the type invariants of this module and the next: a request holds, from one
await to the other, what the operation that finishes it will write; a link, a session or a token
that is held was issued; and a tab has no token but those.

Not modelled: hashing, signing, expiry of a token by time, `updateMe` (texts).

## BrowserSession

`stored` is the token in `localStorage`, which all tabs share; `tab` is what
AuthContext, the API client and the query cache hold in each; `calls` are requests
under way, which took the stored token when they were sent and may be answered in
any order, or refused with 401. `CacheScoped`: the data a tab shows is of the
workspace of its session, through switches, sign-outs, sign-ins and answers that
come late. It leaves out tabs whose session another tab replaced or ended, and a
sign-in over a running session (`strayed`): there the code keeps the old data until
the page is loaded again. Two tabs and two tokens of different workspaces are the
smallest instance in which an answer can be someone else's.

Proof (`SessionsProofs`, `DataIsOfSession`): `OwnSession` says of a tab that is not `strayed`
that it runs on the stored token, that its data is of that token's workspace, and that the
queries under way which will bring more were sent with it. The last part is what a late answer
needs, and the first what keeps it true of a request sent now.

Not modelled: `/users/me` and `/workspace` are one request; the effect of
`app/auth/callback`, which logs in again on each render; the stop of the
notification client, beyond its refusal by a dead token.

## Projects

`project` holds key and next number, `issues` the features created, `joined` the
members with row ids. A request that has incremented the counter holds the project's row
(`Free`), one that has written a key of a legacy project holds the key (`KeyFree`).
`Allocate` and `Insert` are `ProjectsService.create` with its five attempts (two
here); `Increment`, `Derive`, `Persist` and `Commit` are the transaction of
`FeaturesService.create`.

- `GoesByProject`: an issue has the key of its project and no two projects one key.
- `LoserRetries`: a create fails only if as many keys were taken meanwhile as it
  made attempts.
- `RepliesAddUp`: what the callers of `addMember` and `removeMember` were told adds
  up to who is a member.
- `Answered` (liveness, run `progress`): no request waits for ever for a row or a
  key; since one that holds a key waits for no row, there is no circle.

Three requests and two legacy projects of five: two feature transactions that
derive one key and a create that takes it. `Answered` assumes weak fairness of each
request's steps: the database grants a lock that is free.

Proof (`ProjectsProofs`, `IssuesGoByProject`): `HoldsInv` says that who holds a row
holds it alone, that the row is there, and that the key he is about to commit is the
project's own or nobody's; `CommitsInv` that two requests about to commit write
different keys. With these, each of the five writers of a row keeps `IssuesInv` and
`UniqueKeys`. The transactions' isolation (`Free`, `KeyFree`) is all it needs: that
`NextFreeKey` looks at the keys taken is irrelevant to safety.
`MembersAddUp`: the answers and the rows change in one step for a member who is added
or removed, and `TidyInv` (one row to a project and member, by the unique index; none of a project
that is gone) makes the step count once. `LoserTriesAgain`:
`TriesInv` says that as many keys were taken in the presence of a create as it has made
attempts, and one more if the key it is about to insert is no longer free; it rests on
`NextFreeIsFree`, that among more names than are used a free one is found.
`ProjectsTyped`, the type invariant: the bound that is not obvious is on the keys taken while
a create runs; they are counted by the requests that took one meanwhile, which have ended.

## Lifecycle

One feature and one bug of it. `Requests` are updates, taken apart into read, write, log and
notice; `Webhook` sets the status alone, as the webhook transactions do. `due` and
`mixed` are for properties: what the changes called for, and where another writer
came between the steps of one.

- `StatusRecorded`: as long as nobody's steps were mixed with another writer's,
  the stamps of the feature and of the bug fit their status and the last entry of
  the log is the status, through every sequence of updates.
- `ToldAsDue`: then the people concerned have been told of each change once.

The exclusion is what the code allows: the stamps come from the row that was read
earlier. In `work` two updates by two requests, one of them perhaps a webhook, set and clear
each stamp with a second writer at every point.

`lifecycle_webhook` is a disagreement that needs no race: the comment on the stamps
says that they are set on the way in and cleared on the way out; the webhooks write
the status past `lifecycleStamps`, so that a feature moved out of `DONE` stays
completed (`Delivered`).

Proofs (`WorkProofs`), for any people and requests. `StatusIsRecorded`: `StampsInv` is
what each write keeps of the stamps, `TrailInv` says that one update at
most has its log entry before it, and that this is the feature's status. `EveryoneIsTold`: the
property speaks of the end only; `TellInv` of every state: what is due to someone is what
he was told and the number of requests that have his notice before them (`Owing`). A step that
tells takes its request out of the set, and only finitely many are busy.

## IssueRecords

Bugs (created, with the notice to the assignee of the feature, moved to another feature or
project, removed), comments with their notices,
the removal of a feature (logged first, then deleted; its comments and log go with it,
its bugs lose it). `BugInProject`: a bug is in the project of its feature, unless
an update was derived from a row that another one has changed since (`stale`).
Rejected rights, the edit of a comment's text and reads are left out.

Proof (`WorkProofs`, `BugsAreInTheirProject`): `ProjectKnown` says that the project an update
has resolved is that of the feature it will leave the bug under, by the row it read; if
that row has changed since, the write is one that `stale` names.

`WorkTyped` proves the type invariants of Releases, Projects, Lifecycle and IssueRecords. What they
have beyond shapes is the foreign keys: the release and the feature of a link, the feature or
the bug of a comment, the feature of a log entry, of a bug and of a pull request are there, through
every removal and its cascade. The part about Projects is `ProjectsTyped`, taken over by an
instance of `ProjectsProofs`.

## Releases

`release`, `links` (table `ReleaseFeature`), and of pull requests what notes are made from.
`create` is read, synthesis by the AI, check of the version, write, answer; the
others likewise. Features are removed, and pull requests linked and merged, in between.

- `NothingTwice`: no version and no link is in the tables twice, though each is
  looked for in one step and written in another.
- `NotesMerged`: the notes stored are made of pull requests merged under a feature of
  the request.

Proofs (`WorkProofs`): for the first, `GivenOut` (a new release is none that was ever
there, so it has no links) beside the unique indexes; for the second,
`MergedKnown` (a merged pull request's feature is in the history) and `HeldNotes`
(a request's notes are backed by it) and `WrittenBy` (a release's notes are those of the
request that wrote it, which keeps them).

## Invitations

The invitations of one address: `CheckInvitable` and `InsertInvitation`, `Validate`,
`MarkExpired`, `Accept` (a transaction), `NotifyInviter`, `Cancel`, `Resend`, each
after a read of its own, with a direct addition and a sign-up by provider at any moment, and
failures of requests (`Fail`, `NotifyInviter_Lost` is the mutant that forgets).

- `JoinsOnce`: the person becomes a member once, and the acceptances are exactly why.
- `InviterTold`: the inviter hears of what was accepted, and of nothing else.

Proofs (`OutsideProofs`), for any number of slots, invitations, resends and faults:
`PersonJoinsOnce` follows since the transaction that accepts also inserts the membership,
which is unique, and no other step changes the acceptances;
`InviterIsTold` needs `ToldInv`: between the acceptance and the notice the request that
accepted stands at `notify`, unless a fault was counted.

## Installation

GitHub's side (`github`, `redirects`, `events`) and ours (`nonce`, `inst`, `repo`):
the install URL, the callback in any order with the events and repeated,
`disconnectInstallation` in its three steps (uninstall at GitHub, unlink, mark), and
the connection of a repository to a project. `handleInstallationEvent` is taken apart at
its writes, which no transaction holds together: one upsert per repository, or the mark
(`EventMarksRemoved`) and then the unlinking (`EventUnlinks`). Requests die between two steps
(`Crash`); the handler of an event fails or dies there, or GitHub stops waiting for it while it
goes on (`EventFails`), and then GitHub may deliver the event again, which starts from the
beginning: unlike a pull request's, these deliveries pass no guard.

- `RemovedUnlinked`: once an installation is removed, and no removal is under way, none of
  its repositories is linked, with two exceptions. One is a link made by a request that ran
  during or after the removal (`late`); the code allows those, since the connection does
  not look at the installation. The other is a deletion whose handler failed, perhaps between
  the mark and the unlinking, and that GitHub has not delivered again (`Outstanding`): what it
  left, only GitHub can have finished, and when GitHub does, it is. That the
  second delivery is no mere duplicate is what the mutant gets wrong: it skips an
  installation that is marked.
- `Follows` (liveness, run `progress`): what GitHub has uninstalled is removed here and its
  repositories unlinked in the end, whatever failed or died once on the way, unless a callback
  saved it again (`revived`). Assumes that running requests and event handlers go on and that
  GitHub delivers an event again after a failure, as the comment at `github.service.ts:460` says
  of its webhooks.

Proof (`OutsideProofs`, `RemovalUnlinks`), for any number of crashes and failures: an event
marks before it unlinks, a disconnect unlinks before it marks; `Marked` says that a removed
installation whose deletion is neither being handled nor to come again has late links only,
`Disconnected` that a request about to mark has unlinked, and `Handled` that a repeated event
never finds its installation unknown, so that it takes up what the first attempt left.

`OutsideTyped` proves the type invariants of the four components of this run. Here it says that a
repository is of the workspace of its installation, which never passes to another once it is
saved; of summaries, that none is of a diff that there was not.

Not modelled: the event action `removed`, which changes nothing in the code; signatures and
access tokens. The page
`app/auth/github/callback` posts to an endpoint that does not exist and so has no
counterpart.

## BranchNames and AiSummary

`BranchNames` is two pure functions put together: the name the feature's page shows
(`FeatureBranchName`, with the cut of a slug at forty characters) and `ExtractFeatureId`.
Branches, ids, keys and slugs are sequences of characters, since the patterns of the webhook are
not anchored and take any 36 characters of `[a-f0-9-]`, across hyphens: so whether key and slug
read like an id is a matter of single characters. `After` is where a pattern may begin to read,
`IdAfter` what the three patterns of ids find, `KeyAfter` what the pattern of keys finds.

- `LinksBack`: the branch shown for a feature or a bug leads back to it (to the bug's
  feature), whatever the text of the pull request says, unless key and title mislead
  (`Misleading`): key and slug, or the slug alone, read like an id after `feature`, `feat`
  or `bug`. Three cases: the letters of the key are hexadecimal, and the slug begins with enough
  such characters to make up 36; the key ends in one of the three words; the slug is
  `bug-` and 36 such characters. The instance has a key of each of the first two kinds, an
  ordinary one and a feature without, and titles of up to two words, among them ids, the words
  of the patterns, hexadecimal words and words longer than a slug.
- `branch_slug` is a disagreement: two comments say that the slug is ignored in matching
  and cannot break the link (`github.service.ts:927-929`, `branch.ts:4-7`). A project with the key
  `FAB` and a title that goes on in hexadecimal characters make a branch whose key and slug are
  taken for the id of a feature that does not exist (`SlugIgnored`).

Proof (`OutsideProofs`, `BranchesLinkBack`), for any features, bugs, keys and titles of any
length, under `BranchAssumption` (keys are unique and have the form of `deriveProjectKey` and
`nextFreeKey`; an id is 36 characters of `[a-f0-9-]`; a title is what `slugify` makes
of it before the cut). `ShownKeyed` gives each character of a branch with a key its place
(`Keyed`); `IdPlaces` finds the places where an id could be read in it: right after `feature/`,
after a word the key ends in, or after `bug-` at the head of a slug, for want of room anywhere else
in forty characters. `NoIdRead` excludes these unless the branch is `Misleading`; then `KeyRead` shows
that the key's pattern finds the whole key, no shorter and no longer one, and `FeatureIsRead`
that this leads to the feature. Branches with ids are `IdIsRead` and `BugIsRead`.

`AiSummary`: generations started by `opened`, `synchronize` and `merged` run side by
side, fail and are lost with the process. `FinalUnlessOvertaken`: once the summary
of the merge has been written, it is that of the final diff, unless a generation
that had fetched its diff before ended last. The calls of the AI have no timeout in the code,
so nothing is claimed of their end.

Proof (`OutsideProofs`, `SummaryIsFinal`): `FinalFetched` says that the generation for a merge
starts after it, so that the diff it has fetched is the last; `FinishedStays` that what it has
written stays unless it is overtaken. No bound on pushes, generations or restarts is used.

## Notifications: the stream, its promise, the cache

`NotificationStream`: `create` inserts a row under the unique deduplication key and
pushes it to the Subject of its own process; each connection also polls the table
with a cursor and forgets what it has sent at a limit (`SeenLimit`, 500 in the code,
1 here, so that it is met). A connection is at the Subject of its process from its first moment:
the server gets the Subject and subscribes to it in one turn, in which nothing else runs. The client has one connection, its
`Last-Event-ID`, and reconnects to any process; a broken connection lives on at the
server until it is noticed; reads of a poll fail.

- `BroadcastOnce` (run `client`, with rows committed out of cursor order): one request
  at most broadcasts the row of a key. Proved in `NotificationStreamProofs`:
  `OnePusher` says that a key is pushed only by the request whose insert won, and
  that what it has not pushed yet nobody has.
- `SkipsNothing` (run `arrivals`): the cursor of the client's connection passes no row that is
  not received or under way, though rows are pushed out of turn, remembered, dropped as sent
  already, forgotten all at once, and read a page at a time by reads that fail. It
  holds where rows are committed in cursor order (`InOrder`).
  Proved for any number of processes, connections, rows, drops and failures and any limits
  (`StreamSkipsNothing`, under `InOrder`): `Faithful` says of each connection that it has sent what
  lies between its start and its cursor, and that the page being read has all that is stored between
  the cursor and its end, which a late commit would spoil; `AllBrought` that what the client's
  connection has sent is received or on the wire.
- `Delivers` (run `arrivals`): the stream implements `NoticeDelivery`, which says what is
  owed to a client without looking at the stream. A stream that the client opens goes on
  after the row that the client *heard of last*, or after the newest if it has heard of
  none; of every row after that one the client hears in the end while it listens, and it
  hears of stored rows only. The refinement maps the row that the abstract stream goes on after
  to the header and then to the start of the poll, so that a server which ignores
  `Last-Event-ID` opens no stream that the promise allows. Checked with two processes, two
  connections, one drop and one failed poll, under `InOrder`.
  `FairSpec`: a connection goes on, and what is on the wire arrives.
  Its safety part is proved in any order of commits (`StreamKeepsPromise`): initial states
  map to initial states, and every step to one of the promise or a stutter. `StreamInv` says that
  what is remembered anywhere (header, cursor, page, `Last-Event-ID`, wire, a push under way) is a
  stored row. That the client hears of all it is owed is liveness, and stays with TLC.
- Outside the promise are two losses that the code has. Out of cursor order a row committed
  late is passed over by the poll. And a row may come *before* the one that the client heard of
  last: the row of another process, not polled yet when a later one of the client's own
  process is pushed and received, is never sent if the connection drops then, since the next one
  goes on after the later row. `Last-Event-ID` can say no more, the list of notifications has both
  rows, and no text of the repository promises that the stream does.
- `StreamTyped`, the type invariant, holds for all bounds as well: a row goes over one connection
  twice at most, though the connection forgets what it has sent. A row is polled once, since a page
  being read lies ahead of the cursor (`BatchAhead`), and pushed once, since the insert has one
  winner (`PushersApart`).

`NotificationCache`: per severity a cached first page and unread count, changed in
place by events and by marking as read, fetched again on invalidation. `Agrees`:
when nothing is under way, page, read marks and count are those stored, except for
a query invalidated during its first fetch or brought a row by the poll, which
sends no summary. Two severities, two rows, a page of one, one mark and one failure:
every overlap of one fetch, one event and one mark. Left out: further pages, a
second device.
Proved for any number of rows, severities, marks and failures and any page size
(`ShownIsStored`). Alone `Agrees` is not inductive, since it says nothing while anything is
under way: `NoticesInv` adds that of each severity, at every moment, either a row not yet
pushed, a summary or a call is outstanding, which ends in an invalidation (`Pending`), or what
is shown, or fetched so far, is what is stored (`Fresh`); that an event of a row is followed by
its summary (`Announced`); and that only stored rows are shown, fetched or streamed (`RowsKnown`).
Its type (part of `ClientTyped`) bounds an unread count while events, marks and fetches
overlap: it is out by no more than the rows shown, since what raises it is put on the page too.

## QueryCaches, Onboarding, WeeklyBuckets

`QueryCaches` has the table of keys and of what each hook invalidates, and the query
library as it is used (external). What a change touches and what an answer has are taken
from the services, aspect by aspect (the number of records of a kind, their names, a member's
role and whether it is active, and the rest of their state): the answer about a project lists
its features and bugs, that about releases their features, the lists of features count
pull requests and bugs, and so on (`About`); the deletion of a project takes its features, bugs
and memberships along (`Touches`).

- `OwnChangesShown`: an answer shown as good has each change the member was told of that
  it has something of, with two exceptions: a change whose invalidation met an older first
  fetch (`missed`), and the pairs of change and query in `Overlooked`, which no hook looks after.
  Among those are the project page, whose lists of features and bugs no hook of theirs
  names, and the lists of features and bugs after the deletion of their project. The mutant is a
  hook that forgets a prefix.
- `CatchesUp` (liveness): in the end a change is shown, the overlooked ones, the missed ones
  and those whose answer was lost too. The fairness is
  that of a browser in use: fetches are answered, data grows old, pages are mounted.

Proved for any number of changes and failures (`ChangesAreShown`), in two parts. `HooksName` is
a theorem about the tables alone: `Overlooked` is exact. A change that matters to a query has a
prefix of its key among those that its hook invalidates, or the pair is in the list; and each pair
in the list matters and is named by no hook. `QueryInv` is about the races: what the member
was told of and did not miss is in the cached answer or that answer is marked (`CacheHas`), and it
is in the answer under way too, which will clear the mark (`FetchHas`).

Left out: the operations that no hook of the frontend makes, and what other members change,
which no hook could name.

`Onboarding`: the panel's boxes come from three cached queries; `DismissalLasts` (liveness): a
dismissal holds whatever answers were under way. Role changes while the panel is
open are left out. Its type invariant, with those of the stream and of the caches, is `ClientTyped`
(for any failures, deletions and clicks; `client` checks it without failures and clicks, which
`progress` has).

`WeeklyBuckets`: `Placed` compares the chart's arithmetic (`setHours`, `setDate`, a map by
instant) with a reference by local weeks, for a change of the clocks by an hour at every
hour of three days around a week's start, forward or back. Clocks put forward from
midnight are left out: there `startOfWeek` misplaces the week.
Proof (`TimestampsArePlaced`), for any number of weeks and timestamps and any single change of the
clocks that skips no midnight: whatever day it starts from, `startOfWeek` finds the instant of a
Monday's midnight, `Monday(k)` for the week's number k (`StartOfWeekIs`); `addWeeks` goes from
`Monday(k)` to `Monday(k + n)` (`AddWeeksIs`); and different weeks have different instants
(`MondaysDiffer`), so that the map by instant counts by weeks.

## Runs in one table

| Run | Module | Parts or question | Properties |
|---|---|---|---|
| `webhook_overlap`, `webhook_ordered` | `MCPRWebhook` | above | above |
| `arrivals` | `MCArrivals` | PRWebhook, and NotificationStream as a refinement of NoticeDelivery, with fairness | `Settles`, `SkipsNothing`, `Delivers` |
| `sessions` | `MCSessions` | AuthSessions, BrowserSession | `ResetEndsAccess`, `LinksDieWithReset`, `CacheScoped` |
| `work` | `MCWork` | Releases, Projects (its types), Lifecycle, IssueRecords | `NothingTwice`, `NotesMerged`, `StatusRecorded`, `ToldAsDue`, `BugInProject` |
| `outside` | `MCOutside` | Invitations, Installation, BranchNames, AiSummary | `JoinsOnce`, `InviterTold`, `RemovedUnlinked`, `LinksBack`, `FinalUnlessOvertaken` |
| `client` | `MCClient` | NotificationStream, NotificationCache, QueryCaches, Onboarding, WeeklyBuckets | `BroadcastOnce`, `Agrees`, `OwnChangesShown`, `Placed` |
| `progress` | `MCProgress` | Projects, Installation, Onboarding, QueryCaches, with fairness | `GoesByProject`, `LoserRetries`, `RepliesAddUp`, `Answered`, `Follows`, `DismissalLasts`, `CatchesUp` |
| `webhook_double_log`, `auth_link_twice`, `lifecycle_webhook`, `branch_slug` | | disagreements with a comment or a mail; violated | `MergeLoggedOnce`, `LinkUsedOnce`, `Delivered`, `SlugIgnored` |

The four union runs of safety also check the conjunction of their type invariants,
`AllTypeOK`. `CHECK_DEADLOCK FALSE` throughout: each request makes one call or the counters
are bounded, so that every run comes to an end.

## What is proved and what is only checked

The eight proof modules hold for all values of the constants under the named
assumptions of their modules: the null value is no member of the other sets, the bounds are
naturals (`Releases` also assumes finitely many features, `Projects` that the null value is
no base of a key and that projects and requests are finitely many, `IssueRecords` that an answer is
no project, `BranchNames` what keys, ids and titles consist of and that keys are unique, `WeeklyBuckets` that the
clocks are not put forward over a midnight).
`WorkProofs`, `OutsideProofs`, `SessionsProofs` and `ClientProofs` extend `MCWork`, `MCOutside`,
`MCSessions` and `MCClient`, which take the sets and bounds of their parts as constants, so that
the theorems about the instances hold for all of them.

| Proof module | Theorems | Further hypotheses |
|---|---|---|
| `PRWebhookProofs` | `TypeCorrect`, `AutoLinkIsLogged`, `ManualLinkIsKept`, `ProcessedIsRecorded`, `OpenedIsToldOnce`, `MergeIsLogged` | |
| `PRWebhookOrderProofs` | `ProcessedIsFinal`, `RowAgrees`, `FeatureFollows` | `InOrder`; the last `OwnFeature` |
| `SessionsProofs` | `ResetEnds`, `LinksDie`, `DataIsOfSession`, `SessionsTyped` | |
| `ProjectsProofs` | `IssuesGoByProject`, `MembersAddUp`, `LoserTriesAgain`, `ProjectsTyped` | |
| `WorkProofs` | `NothingIsTwice`, `NotesAreOfMerged`, `StatusIsRecorded`, `EveryoneIsTold`, `BugsAreInTheirProject`, `WorkTyped` | |
| `OutsideProofs` | `PersonJoinsOnce`, `InviterIsTold`, `RemovalUnlinks`, `BranchesLinkBack`, `SummaryIsFinal`, `OutsideTyped` | |
| `NotificationStreamProofs` | `KeyIsPushedOnce`, `StreamTyped`, `StreamKeepsPromise`, `StreamSkipsNothing` | the last `InOrder` |
| `ClientProofs` | `ShownIsStored`, `HooksName`, `ChangesAreShown`, `TimestampsArePlaced`, `ClientTyped` | |

The theorems about the conjunctions of type invariants (`SessionsTyped`, `WorkTyped`, `OutsideTyped`,
`ClientTyped`) are about the union runs' specifications: the parts share no variable, so a step
of one leaves the types of the others alone. None of these conjunctions is inductive: each
theorem strengthens it with what its sections above name.

Every invariant and every action property that a passing run checks is proved. Model-checked only
are the liveness properties `Settles`, `Answered`, `Follows`, `DismissalLasts` and
`CatchesUp`, and the fairness part of the refinement `Delivers`: liveness and ENABLED are out of the
prover's reach.

## Not modelled

- Email, logging, health and bootstrap: input and output without state.
- Reads (lists, filters, dashboards, exports) beyond what a client caches of them.
- Rendering and forms of the pages, and what they validate before a request.
- Guards by role, except where a branch depends on one (`Onboarding`, `IssueRecords`).
- Linking and unlinking of a pull request by hand, read by read: `PRWebhook.LinkPR` and
  `UnlinkPR` are single steps.
- Texts: titles, descriptions, prompts, summaries, notes, mails.

What a next step would take up: the transactions of linking by hand taken apart
and role changes in `Onboarding`.
