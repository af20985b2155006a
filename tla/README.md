# TLA+ models of the codemaster backend

Specifications, model-checking configurations and machine-checked proofs for the
review backend (`src/apps/backend`): the part that turns a push to a pull request
into one review on GitHub, across Postgres transactions, an outbox, Temporal
workflows that are retried and killed, and a lease-based mutex; and the protocols
around it, which spend money, keep workspaces, change roles and flags, follow the
installations of the GitHub App, and cache keys, clients and tokens.

Run `tlc -config MCX.cfg MCX` for a model and `tlapm X_proofs.tla` for a proof.

## 1. Inventory

A GitHub webhook is persisted in one Postgres transaction that allocates a *run*
and appends a row to an *outbox*. A singleton Temporal workflow drains the outbox
and starts `reviewPullRequest` under a workflow id that belongs to the pull request.
That workflow takes the pull request's mutex in its gate, works through the stages
of the review, posts to GitHub behind a stale-write guard, records how the run
ended and releases the mutex. Two scheduled sweeps clean up after the dead.

| component | state | operations | what makes it correct |
|---|---|---|---|
| review-run lifecycle (`ingest/_review_run_allocator.ts`, `workflow/_supersede.ts`, `ingest/_reviews_repository.ts`, `domain/transition_run.ts`, `domain/stale_write_guard.ts`, `activities/record_review_lifecycle.activity.ts`, `activities/review_run_reaper.activity.ts`) | `core.review_runs`, `core.pull_request_reviews.current_run_id` | allocate and supersede, dispatch, finalize, fail, cancel, reap, guarded writes | one active run per review and it is the current one; lineage columns agree; terminal states are final; overtaken runs do not write |
| event stream (`ingest/_workflow_events_repository.ts`) | `audit.workflow_events` | emit under an advisory lock, inside and outside of the lifecycle transactions | explains the state; no duplicates; gapless sequence numbers; its foreign keys and lock add no circle of waits but the known ones |
| pull-request mutex (`concurrency/pr_mutex.ts`, the gate, renew, release and janitor activities) | `core.pr_review_mutex` | acquire or reclaim, renew, release, sweep | one live row; a confirmed claim is exclusive and not taken away; abandoned rows are released |
| outbox (`domain/repos/outbox_repo.ts`, `activities/outbox_dispatch.activity.ts`, `workflows/outbox_dispatcher.workflow.ts`) | `core.outbox`, the workflow's locals | append, claim with a lease, dispatch, heartbeat, mark, dead-letter | nothing is acknowledged that was not delivered; failures are counted once; pending rows are settled |
| webhook ingest (`ingest/github_webhook_persistence.ts`, emitters) | `audit.webhook_events`, `cache.cache_idempotency` | dedup, persist, allocate, append | run and outbox row share their fate |
| review workflow and orchestrator (`workflows/review_pull_request.workflow.ts`, `review/pipeline/*`) | workflow locals, the finding set | gate, claim checks, stages with and without fallback, chunk pool, concurrent posts, finally, catch | a run that was started ends; the mutex and the workspace are let go; one set of findings is stored, summarised and posted |
| posting (`activities/post_review_results.activity.ts`, check run, placeholder) | `core.posted_reviews`, GitHub | claim, create, refresh | one review per pull request; an old review does not replace a newer one |
| findings (`domain/repos/review_findings_repo.ts`, delivery lifecycle) | `core.review_findings` | guarded insert, delivery outcome | idempotent under retry |
| workspace leases (`activities/*workspace*.ts`, `workspace/*`) | `core.workspace_leases`, a directory per run | allocate, clone, release, orphan sweep, reap, purge | a requested release is completed or given up after five cleanups; a tree is only removed for an old lease; no clone is left over |
| cost enforcer and ledger (`cost/*`, `integrations/llm/client.ts`, `integrations/llm/invocation_ledger.ts`) | `telemetry.cost_daily`, cap settings, the ledger | reserve, invoke, settle, release, replay, change a cap | never over the caps; a day shows what was reserved and settled on it; no circle of waits |
| embedder generations (`domain/services/embedder_generation_service.ts`, its repositories, `adapters/embedder_cache.ts`) | `core.embedding_generations`, `core.embedder_runtime_state`, a snapshot per process | start, cancel, retire, activate, collect, switch mode, refresh | rows pass their CHECK; a current version means a current snapshot; one active generation |
| installations (`ingest/github_webhook_persistence.ts`, `ingest/_re*.ts`, reconcile and hydrate activities) | `core.installations`, `core.repositories`, `cache.repository_repair_state` | webhook, reconcile, repair, block, admin switch | a disabled repository stays disabled; the cooldown is no lock-out |
| two-person changes (`api/admin/members_write.ts`, `flags_write.ts`, `cost_caps_write.ts`, `two_person_approval.ts`) | `core.role_grant_pending`, `core.role_grants`, `core.flags` | request, approve, reject, stage, commit | decided once; the grants are what was decided; two people behind each change |
| confluence ingest (`workflows/confluence_ingest.workflow.ts`, `trigger_page_resync.workflow.ts`, `activities/confluence_sync.activity.ts`, the chunk and approval repositories, `api/admin/confluence_pages_write.ts`) | `core.confluence_chunks`, `core.confluence_page_approvals` | list, fetch, upsert behind limits and approval, soft delete, approve, revoke, resync | the corpus comes to follow the wiki; a page that is shown loses nothing; the default corpus stays near its cap |
| model credentials (`integrations/llm/credentials_provider.ts`, `client_cache.ts`, `llm_provider_settings_repo.ts`, the admin's PUT) | `core.llm_provider_settings`, two caches per process with their locks | scan, rebuild, probe, refresh, serve stale, save | a client under current rotation times is of the current row; a role that is off is silent; an old key has one explanation |
| GitHub client (`integrations/github/token_provider.ts`, `api_client.ts`) | positive and negative cache, a lock per installation, the loops of the requests in flight | get, mint, cache, evict, retry | a token that is served is the newest |
| authentication: lockout and rate limit | counters | see `PROJECT.json` | request-scoped |
| retrieval, policy, prompts, redaction, adapters, admin reads, wiring, libraries | none of their own | pure or I/O | not for a model checker |

Interaction: the components share rows in Postgres (row locks `FOR UPDATE` and
`FOR SHARE` on the review row, an advisory lock per pull request and one per run's
event stream, and the key-share locks that foreign keys take), call one another through Temporal activities, which are retried, can
lose their answer and can outlive the workflow that called them, and meet at two
ids: the run's `uuid7` and the workflow id of the pull request. The hard behaviour
is therefore: transactions of different actors in any order; a commit whose answer
is lost; an attempt that goes on after it was given up; handlers that read, check and
write in different transactions; the gap between a check in
a transaction and an effect outside of it; leases that expire under their holder;
an execution that dies without its finally. `PROJECT.json` lists every such hazard
at its line with the properties that cover it.

## 2. Modules

| module | models | abstract specification |
|---|---|---|
| `RunSlot` | what the lifecycle tables promise: one slot per review, held by the newest run | (is one) |
| `ReviewRuns` | the lifecycle tables, one action per transaction | implements `RunSlot` |
| `PrMutex` | the mutex, its users and the janitor, with relative time | |
| `Outbox` | the outbox and the dispatcher's loop with its activity calls | |
| `ReviewFlow` | composes `ReviewRuns` and `PrMutex` with delivery, Temporal's one open execution per workflow id and the posting | implements both components |
| `BotReview` | what posting promises to a reader of the pull request: one poster, one recorded review | (is one) |
| `PostReview` | posting: `core.posted_reviews`, the attempts of `post_review_results`, GitHub, and the delivery columns of the findings | implements `BotReview` |
| `RunTransactions` | the transactions of `ReviewRuns` statement by statement: locks, snapshots, event numbering, deadlock victims | implements `ReviewRuns` |
| `ReviewPipeline` | one execution of `orchestrate`: stages, chunk pool, finding set, posts, cleanup | |
| `WorkspaceLease` | leases, their directory, and the workflows that allocate, release and reap | |
| `CostLedger` | reservation and settlement of the cost of an LLM call, statement by statement | |
| `RoleChanges`, `FlagFlips` | two-person changes of the admin API | |
| `EmbedderGenerations` | generations, the runtime singleton and the caches of the processes | |
| `Installations` | webhooks, reconcile and repair of one installation | |
| `ConfluenceCorpus` | the chunks of one Confluence space, its syncs and its approvals | |
| `LlmCredentials` | the two caches between a model call and the settings row that admins rotate | |
| `GitHubClient` | installation tokens: caches, minting lock, exchange and request loops | |
| `*_proofs` | the theorems | |
| `MC*` | instances for TLC | |

### ReviewRuns

Variables are columns: `state` is `lifecycle_state`, `current` is
`current_run_id`, `supersedes`, `supersededBy` and `cancelReason` are the columns of
those names, `events` is `workflow_events` of a run in `sequence_no` order. `born`
and `allocations` record the order in which runs were allocated, `lastWriter` the
run behind the latest guarded write. `AllocateRun` is `allocateRun` with everything
it calls: `supersedeRun`, INSERT, `flipCurrentRun`, the event. `rows[0]` of the
supersede's RETURNING is a nondeterministic choice. `DispatchRow` is the
dispatcher's guard transaction; `FinalizeReviewRun`, `RecordRunFailed` and
`RecordRunCancelled` are the terminal activities, which do not look at the pointer;
`ReapStaleRuns` sweeps by the time of INSERT, hence the cutoff in allocation order.
A rejected guard or a `StateDrift` rolls its transaction back and is no step.
`PersistFindings` does not look at the lifecycle state, as the code does not: a
finished run that is still current may write. `RecordReviewLifecycleEvent` is the
milestone ANALYZED, which looks at nothing but the run. Both emit through `EmitOnce`:
their SELECT for an earlier event and their INSERT are two statements, so that at most
`PersistAttempts` and `RecordAttempts` overlapping attempts each post one. WAITING_RETRY and PARTIAL are legal
column values that no code path sets. Left out: the tenancy checks (a violation
aborts the transaction), audit rows, the columns no property speaks of.

### PrMutex

`lease[m]` is `lease_expires_at` minus the database's clock, in ticks, floored at
-1: acquire treats a lease as valid while it is positive, the janitor sweeps it
once it is negative, which keeps the code's `>` and `<` apart at the boundary.
`granted` is the same for the last confirmation an execution saw. An accepted gate
whose answer is lost is `GateAckLost`. `ClaimFailsOpen` is `claimStillHeld`'s catch.
A terminated execution whose posting attempt goes on is a "zombie". An execution at
"gate" that has not started its transaction stands for any overlapping gate attempt
when the advisory lock is contended. The answers for closed or disabled
repositories and legacy payloads leave the mutex alone and are not actions.

### Outbox

One action per activity call of the loop, with each outcome that its retries can
have: effect or not, answer or failure. A timed-out attempt goes into `inFlight` and
takes effect later (`LateCall`) or never. `failures`, `delivered` and `signals` are
history. `dispatchRow` appears as its effect on the sink; its guard transaction is
`DispatchRow` of `ReviewRuns` and `ReviewFlow`. `ExtendLease` is the heartbeat. The
sleep after an empty claim and continue-as-new change no modelled state.

### ReviewFlow

The outbox row is reduced to none, pending, guarded (the guard's transaction is
committed), dispatched; a dead row is a pending one that is not delivered again.
`StartWorkflow` has the USE_EXISTING policy of the producer
(`github_webhook_persistence.ts:327`). `PostClaim` and `PostReview` are `doPost`
before and after the commit of the posting claim; the ladder of
`core.posted_reviews` is reduced to a review shown, none, or an error. FAILED and
CANCELLED of a failed workflow are merged into `RecordRunFailed`. Ids are minted in
order, which breaks the symmetry of the model without loss: the code compares ids
only for equality.

### PostReview

One pull request. Every attempt `<<r, k>>` of the activity is a process with its own
place in `doPost`, so that an attempt Temporal gave up on goes on beside its retry and
beside the next run. `row` is the row of `core.posted_reviews` with the position of
its review in `reviews`; `aged` stands for the 300 s window, which passes only when
no attempt that holds the claim is still awaited, because the window is longer than
`start_to_close` (60 s, `activity_ports.ts:328`; the constant's comment demands it).
`Throw` and `Return` say what the workflow hears: of a failed activity only the last
attempt's failure, with the classifier's state or without. `PostRequest` is the HTTP
client's retry loop on a POST that GitHub may have executed whatever it answered.
`outcome` is `review_findings.delivery_outcome`, which belongs to the finding and not
to the run: ids are content-addressed and a later run may find the same. The kill
switch of the lifecycle writes is part of `BestEffort`. Abstracted: texts, the cap of
50 comments (an error before the claim, like any other), the retries of the GET and
of the PUT, which repeat nothing, the tier-1 findings of arbitration, placeholder,
check run and the summary in the description.
For `BotReview` the posters are the attempts that know they won (`won`), at most one: none
if the answer to the winning COMMIT was lost; `recorded` is the row's review.

### RunTransactions

Two or three database sessions (`Slots`), each running one of the transactions of
`ReviewRuns` on one review: a webhook, the dispatcher's guard, the terminal activities,
the reaper, the findings write, and the milestones of `recordReviewLifecycleEvent`.
`Statements` is the order of the statements of each; `Wants` names the lock a statement
needs: the review or a run `FOR UPDATE`, the review `FOR SHARE`, the advisory lock of a
run's events, and `FOR KEY SHARE` on the run and the review, which the INSERT of an event
takes for its foreign keys and which no document of the code mentions. Writes are visible
at COMMIT; a statement that waited reads the row again (READ COMMITTED). A session
that is part of a circle may be rolled back at any time, as Postgres would do.
`TransactionsAreAtomic` is `ReviewRuns` with this module's tables: a COMMIT is one of
its steps, everything before is a stutter. So the atomic actions there are justified by
the locks here. The numbering matters since `uq_workflow_events_run_sequence` also names
`received_at`, so that the index admits the same number twice.

### ReviewPipeline

`pc` is the stage that `orchestrate` awaits; `pc.checked` says whether its claim check
is done. `MustDo` is a stage whose failure is thrown, `FailOpen` one that notes the
degradation and goes on. `chunk` is the pool of `fanOutReview`: workers pull the lowest
chunk that is due, so the cursor needs no variable; `aborted` is a rejection of
`Promise.all`. Findings are the chunks they come from and the notice; `findings`,
`semantic` and `metadata` are the locals handed from stage to stage, `rows`, `ids`,
`walkthrough` and `github` what ends up in the table, the summary and on GitHub. Lists of
findings are kept increasing where the code keeps the order it got, since no property
tells orders apart. Which findings a filter drops (policy, dedup, citations, arbitration) is arbitrary. `pair` is
the two concurrent posts.

### WorkspaceLease

Each execution of the review workflow and the retention workflow awaits one activity
attempt at a time; an attempt that is given up goes on among `late`. Attempts move from
statement to statement: `read`, `hop` (the transition with its compare-and-swap),
`rm`, `flip`. `dir` is the one directory that all leases of a run share, `written` by
whom its clone was made. `due` says that the grace or the backoff of a lease is over.
`LeaseRow` is the row of `core.workspace_leases`. `HeartbeatsWritten` is FALSE in the instance, as nothing under `src/` writes
`core.worker_heartbeats`: the orphan sweep then finds nothing. With TRUE, a lease may be
ORPHANED beside an active one of its run and `RequestedIsReleased` fails.

### CostLedger

An attempt of an LLM call goes through the lookup in the ledger, `checkOrRaise`, a second
check after a lock timeout, the SDK, the store in the ledger, and `recordCallCost` or the
release. `tx` is its open transaction: the statement it is at, the caps it resolved, the
rows it has locked, those it inserted or changed, and the total it read. `row[d][s]` is
`telemetry.cost_daily` of a day and a scope. A COMMIT is a relative UPDATE of the totals.
`SumOf` counts a sum cent by cent, as the size of a set, so that it can be reasoned
about without induction. `Midnight` and `ChangeCap` are bounded together by `MaxEvents`. Caps are changed by the
admin API; lowering one has no grace in the code. `booked` and `settled` are history.

### RoleChanges, FlagFlips, EmbedderGenerations, Installations

Four small protocols with nothing in common but the pattern: a handler reads and checks,
and a later transaction writes. In `RoleChanges` an approval is three statements
(`ApplyUpdate`, `ApplyDelete`, `ApplyCommit`) with the lock on its row in between; the
partial unique index is `IndexAdmits`. In `FlagFlips` `last_changed_at` is a counter,
`version`. In `EmbedderGenerations` every service call is one to three transactions; the
timestamps of a generation are Booleans; the maintenance worker that embeds the chunks
lives outside of `src/` and is `BackfillEnds`. In `Installations` webhooks may overtake
each other, a start that meets an open execution of its workflow id is swallowed, and an
attempt of the hydration may outlive its time limit; `switchedOff` and `repairLost` are
history. Attempts of the two reconcile activities are one transaction each and taken as
such.

### ConfluenceCorpus

One space. `wiki` is what Confluence shows, `chunks` the table by page and version, a
page's chunks of one version taken as one, since they are written and deleted
together. A writer is an execution that works on a page: the ingest, a resync, or an
upsert attempt that timed out and goes on beside its retry (`UpsertTimesOut`). Its `at` is
the next transaction of `upsertChunks`: limits, approval, write; the fetched version
and label travel with it. `sync` is the cycle of the space with its list `live`,
`sweeps` the reconcile attempts that go on after the workflow gave them up. A labels
request that fails leaves a page without labels, as in `getPage`. `RevokePageApproval`
may enqueue a resync or not; nothing passes a dispatcher today. The cap of tokens is
a second comparison of the same kind as the cap of chunks and is left out, as are
vectors, bodies and the quarantine flag.

### LlmCredentials

One process; every `await` of `forRole` and `current` is a step. `settings[r].key` numbers
the saves of a row and stands for `last_rotated_at`, provider and key together, since
`writeSettings` writes them in one statement; 0 is no row. A `scan` is the rotation
times of all rows, `clients[r].scan` the carrier string stored with a client. `clientQueue`
and `keyQueues` are the tail chains of `KeyedMutex`: the head holds the lock.
`refreshFails` is `lastRefreshFailedAt` against `hardStaleSeconds`. `began` and
`storedLate` are history. The adapter of Anthropic takes the key of each call; the one of
Bedrock keeps its SDK by credentials, which changes nothing here. Two saves of one role
whose times are taken in one order and written in the other are left out: a rotation
time only says "other than before".

### GitHubClient

Each request is a process: `_request`'s loop around `getToken`, and `exchangeWithRetry`'s
loop inside of the lock. `tokens[a].fresh` is the refresh boundary of `cacheLookup`, `lru`
the insertion order of the Map, `refused` the negative cache. `issued` counts the tokens
GitHub has issued, which it may do without the answer arriving (`MayIssue`). A token that
GitHub revokes needs no state: a 401 may come at any time. Rate limits, 4xx and network
errors of a request end it alike.

## 3. Runs

| run | instance | question |
|---|---|---|
| `MCReviewRuns` | 2 reviews, 3 runs, 1 attempt each of a findings write and of a milestone | every order of the lifecycle transactions |
| `MCRunTransactions` | 3 sessions, runs 0 to 2 of one review, 6 event rows | the same transactions with their locks and snapshots: numbering, circles of waits, refinement |
| `MCUpkeep` | 2 executions of 1 pull request, 3 mutex ids, lease of 2 ticks; 1 page with 3 versions, a cap of 1, 1 writer beside the ingest, 2 changes of the wiki, 1 late attempt | exclusion, and release of what is abandoned; the cap, and that the corpus follows the wiki |
| `MCOutbox` | 2 rows, batch of 2, 2 attempts, 2 tries, 1 abandoned call | delivery, dead-lettering, settlement |
| `MCReviewFlow` | 1 pull request, 2 runs, 2 executions, 2 mutexes, lease of 1 | composition, and who may overwrite a newer review |
| `MCReviewFlowEnds` | 1 execution, 1 mutex | every RUNNING run ends |
| `MCReviewFlowLost` | the same | violated: the newest push gets an execution |
| `MCPostReview` | 2 runs, 1 finding, 2 attempts, 2 requests per call | who posts, what the workflow and the findings may believe |
| `MCReviewWork` | a pipeline of 4 chunks of which 3 are kept and a pool of 2; a platform call and a call of an organization, 2 days | what an execution does and what it pays |
| `MCWorkspaceLease` | 2 executions, 2 leases of one run, 1 try per statement | releases and removals, and that they end |
| `MCControlPlane` | 2 admins and 2 requests; 3 owners; 2 operators and 2 generations; 1 repository and 4 webhooks; 1 role, 2 calls, 3 saves; 2 installations, 2 requests, a cache of 1, 2 tokens each | the six small protocols |
| `MCEmbedderSingleActive` | 2 operators, 3 generations | violated: one active generation |

`MCReviewWork`, `MCControlPlane` and `MCUpkeep` hold modules that share no state: the initial state
chooses which of them a behaviour is about, so that the state spaces add up instead
of multiplying.

Bounds, and why they are enough. Three runs on one of two reviews give a run that
supersedes and is superseded, and a pair of reviews shows that a sweep or a
supersede does not cross over; runs and reviews are only compared for equality, so
they are symmetric. Three mutex ids leave one for an orphan of a lost answer and one
for each execution; a lease of two ticks has a middle. Two rows in one batch let one
be late while the other is handled; the second try and the second attempt are the
last ones, so that every boundary is met. In `ReviewFlow` two executions are needed
for one to overtake the other; the liveness run and the two violations need one
only. In `PostReview` two runs give a refresh of another run's review, two attempts a
retry that meets its own claim and a late attempt beside it, two requests a POST sent
again; one finding that both runs may find is enough, since findings do not interact.
The lock-level model needs three sessions for a circle that a third one closes and for a
late reader beside two writers; six event rows let every run get its last event. Of four chunks the cap keeps
three, and with a pool of two one of them waits for a worker. Two calls of one organization and the platform meet on the
global row from both sides; the caps leave room for one of them. Two leases
of one run are what a directory can be confused between; `Tries` is 1 there, and 2
was checked once with one cleanup. Four webhooks are what it takes to install the App,
learn a repository, lose it and be blocked; the second hydration is the late one. Two
admins decide each other's requests; three owners allow a third value between the two
approvals of a flip. A page needs three versions for the second to be written beside the first by two
writers that both read a count below the cap of one; two changes of the wiki are an edit and a
hiding, or a hiding and a showing, in any order (three were checked once). Two calls of
one role let one refresh while the other sees the rotation, and three saves are a first
one, a rotation and another beside a rebuild. A cache of one entry for two installations evicts
with every second mint; two turns of each retry loop have a last one that is not the first. Runs that have posted stop, so deadlock is not checked there. The bounds of `ids` make a run of the model stop when they are used up, so
the runs of `ReviewRuns`, `RunTransactions`, `PrMutex`, `ReviewFlow`, `WorkspaceLease`, `MCUpkeep` and
`MCControlPlane` do not check for deadlock either; the outbox, whose dispatcher never
stops, and `MCReviewWork`, where a finished execution has a step of its own, do.

What the passing runs show, beyond the restatement of each property in its module:
`flipCurrentRun`'s optimistic guard can never reject a push (`ActiveRunIsCurrent`);
the reaper is the only change of state the event stream does not show
(`EventStreamExplainsState`); the unique index on live mutex rows is never needed
(`OneLiveRow`); a newer review can be overwritten by an older one, but only by an
execution whose claim was no longer confirmed
(`OvertakenPublishOutlivedItsLease`): the case is reachable in the model and the
property says where it comes from. `BotHasOnePoster`, the refinement of `BotReview`, holds
although attempts overlap, retry and belong to overtaken runs: after the id is
recorded nothing is posted any more, the id never changes, and later runs touch
no other review. But the one poster may post several reviews, as the client sends
a POST again after a 5xx; the price of exclusiveness is `AbandonedClaimIsForever`, a theorem.
`InlineDeliveredHasComment` rests on one comparison of lengths in
`runLifecycleBookkeeping`. `DeadlockNeedsLateLocker` lists the circles of waits that
exist: `driveTransition` has its run and needs the key-share lock of the review that a
webhook has locked, which waits for the run; a milestone has the advisory lock and needs
the same; a milestone or findings write has the advisory lock and needs the key-share
lock of the run whose transition waits for the advisory lock. Every circle contains
one of these late lockers, and whichever session Postgres rolls back, the rest is
a behaviour of `ReviewRuns`. `DeadlockNeedsCapChange` says the same of the cost rows: the
global row before the organization's is a sound order, and only a changed cap, whose
UPDATE comes before the two `FOR UPDATE`, breaks it. `RemovalIsForOldLease` admits that
the tree of a running review is removed; it says that this takes another
lease of the same run whose cleanup failed or was overtaken. `LeftoverIsStale` says that a clone
that nobody will remove was written by an attempt that outlived its lease.
`DayIsAccounted` bounds what a day's row shows by what was reserved, settled on it, or settled on it for
another day. `CooldownHasRepair` rests on the savepoint around mark and row. `DefaultCorpusIsBounded`
says that limits read outside of the upsert's transaction cost at most one page for each
writer beside the first. `CorpusIsCurrent` says that no failure of a listing, a page or a soft
delete keeps the corpus from coming to follow the wiki, and that a page that is always shown
never loses a chunk. `ClientIsItsFingerprint` rests on the order of two reads: the times
before the row. `FreshTokenIsNewest` holds although GitHub issues tokens whose answers are
lost, since nobody mints while an entry is fresh. `OldKeyWasStoredLate` and
`DisabledRoleIsSilent` bound what the stale key of `current()` can do: it has one origin,
and it does not outlive a role that is switched off for calls that begin after that. What
the violations show is under "findings" in
`PROJECT.json`.

## 4. Fairness

- `PrMutex`: weak fairness of time and of the janitor, which a Temporal schedule
  starts every five minutes (`worker/ensure_schedule.ts`). Nothing is assumed of
  the executions: they may stop anywhere.
- `Outbox`: weak fairness of the dispatcher's next step (Temporal keeps a running
  workflow going), of the end of an abandoned attempt and of lease expiry; strong
  fairness of a claim that finds rows, since not every claim loses its answer.
  Cancellation, failure and boot are not fair: `PendingIsSettled` is conditional
  on the execution.
- `ReviewFlow`: weak fairness of the reaper's schedule alone.
- `WorkspaceLease`: weak fairness of the retention workflow (a schedule), of the grace
  and of the end of an awaited attempt, which Temporal's timeouts force; strong fairness
  of each statement of a release, since no statement fails every time. Nothing is
  assumed of late attempts, nor that an execution of a review goes on.
- `RunTransactions`, `ReviewPipeline`, `CostLedger` and the six protocols of `MCControlPlane`: none; their
  properties are safety, and the first is compared with `ReviewRuns` without fairness.
- `ConfluenceCorpus`: weak fairness of the schedule (every six hours), of the workflow's
  steps and of the end of every attempt; strong fairness of the listing, of the soft
  delete and of each activity of the ingest on each page, since none of them fails every
  time. Nothing is assumed of admins or of the wiki. `MCUpkeep` states it for the
  behaviours that are about the corpus; there is no row of the mutex in those, so the
  fairness of `PrMutex` asks nothing of them.
- `PostReview`: none; a pull request may be left at any point, and its properties
  are safety.

## 5. Proofs

Every safety invariant, action property and refinement that a passing run checks is a
theorem; the runs show it on an instance, the theorem says it for all values of the
constants that satisfy the named assumptions. These are: nulls and notices differ from
ids and from each other, limits are positive naturals, the function of an execution's
pull request is total, and the calls of the cost ledger and the sessions of
`RunTransactions` are finitely many (`NullsAssumption`, `TTLAssumption`,
`AttemptsAssumption`, `SlotsAssumption`, `NoneAssumption`, `LeaseAssumption`,
`CostAssumption`, `PipelineAssumption`, `CorpusConstants` and the like). TLC evaluates
each of them. `AtomicInv`, `MoneyInv` and `LeaseInv` below were checked with TLC on the
instances of the runs before they were proved.

### ReviewRuns_proofs

The invariant strengthens the checked ones by: a run that is
not inserted has no lineage; birth numbers are distinct and at most `allocations`;
the pointer of a review names its youngest run; a review's last writer is one of
its runs. `ActiveRunIsCurrent` alone is not inductive: allocation needs to know
that the set of active runs is empty or holds the current run only, and the
guard needs "the pointer is youngest" for `WritesMoveForward`. `TerminalIsFinal`
and `WritesMoveForward` are action properties that follow from it.

`EventStreamExplainsState` needs `StreamInv`: per run, the last lifecycle event of the stream
says its state, or RUNNING when the reaper has cancelled it (`Says`), each event that may
come once has come at most once (`Once`), and what has not happened is not logged (`NotYetLogged`).

Every step of `ReviewRuns` is a step of `RunSlot` or a
stutter (`RunsHoldOneSlot`), by one lemma per action; the extra invariant says that a run with an
INGESTED event has left PENDING, so that a write only happens in a slot that runs
or is over.

### RunTransactions_proofs

`Inv` says of every open transaction where its statement order has brought it
(`Placed`), which locks it has for certain (`Locked`) and at most (`HoldsOnly`), that what
it read is still so because of them (`Sees`), and what it has written (`Wrote`); of two,
that their locks do not conflict and that they insert different runs (`Apart`); and of
the tables, that the events of a run are numbered 1, 2, 3, ... once each (`TablesInv`).
`SequenceIsGapless` follows, since only the holder of the advisory lock appends.

For `DeadlockNeedsLateLocker` the transactions that are no late lockers are ranked by
how far they have come with their locks (`Rank`, 0 to 4): each waits for one of a higher
rank only, and a circle cannot rise for ever (`NoEndlessClimb`, by the five ranks one after the other, as
there is no induction).

`TransactionsAreAtomic`, the refinement, needs `AtomicInv`: the order of the minted ids names each run
once (`MintedOnce`), and the milestones of a type posted for a run and the transactions
that will still post one are together no more than the sessions (`FewAttempts`), which is
the number of attempts `ReviewRuns` is instantiated with. There the stream of a run is a
sequence; it is the rows in the order of their numbers, and one lemma per kind of commit
says which sequence the new rows make of it.

### PrMutex_proofs, Outbox_proofs, ReviewFlow_proofs

Mutex: next to the properties the invariant says that executions have
rows of their own (`Handles`) and that a confirmed claim is covered by a live row
whose lease is at least what the execution believes is left (`Covered`). The
janitor and a reclaim need an expired lease, so they cannot meet such a row;
exclusion follows from one live row per pull request.

Outbox: the invariant says that every call that is under way or
abandoned is *earned*: a `markDispatched` outstanding for a row implies that
the row was delivered; a `markAttemptFailed` with expectation e implies more than
e failures, and the same of the loop's own snapshot. With that, whatever order they land in, an acknowledgement is true
and a failure is counted once.

Flow: the composition implements both components, so their
theorems hold of it; that needs that an open execution has its run.
`OvertakenPublishOutlivedItsLease` needs `ConfirmedIsNewest`: while an execution that has
claimed the posting relies on a confirmed claim, no execution of a younger run has got
through its gate and GitHub shows nothing younger. The mutex's own exclusion keeps it.
`FlowTypeCorrect` adds that a workflow id resolves to an execution of its own pull request,
which works on a run of that pull request, although a start is attached to whatever is open.

### PostReview_proofs

The invariant says who may be where: only the attempt that
won is on the ladder, and only while the row names no review (`LadderIsWinners`);
every review was posted by the winner; an attempt before phase 2 knows the review it
created (`KnowsCreated`), one before its PUT the review of the row
(`KnowsRecorded`); captured comment ids are those of all kept findings in one
review (`IdsArePaired`). `OnlyTheWinnerPosts` alone is not inductive: it needs that
an unscheduled attempt has not won and that a claim is never withdrawn. A step of
an attempt is reduced once (`StepOfAttempt`) to what it does to its own attempt and
run; each operation then has a lemma. `AbandonedClaimIsForever` follows since with
an abandoned claim nobody is on the ladder or before a PUT.

`BotHasOnePoster`: every step is a step of `BotReview` or a stutter, one lemma per operation
that a reader can see. A POST needs `LadderIsWinners`; that the id recorded is that of a
review of the claimant's own needs `KnowsCreated`, `WinnerPosted` and `OneWinner` together; that a PUT goes
to the recorded review is `KnowsRecorded`.

`ReviewsAreBounded` says what the POST that is sent again costs: at most 2 `HttpTries` - 1
reviews on a pull request, so five with the client's three tries, and one without
resending. The invariant (`ReviewBudget`) counts per rung: on the first at most the
requests answered 5xx, on the second also those of the first, of which the 422 was
none. TLC found the invariant true and the bound reached on one run before the proof.

### ReviewWork_proofs

Pipeline: `PipelineInv` follows the finding set through the stages. Once the rows are
written, the thread's findings are theirs (`RowsFollow`); from the rendering on the
summary has the same (`RenderFollows`); what was posted is the same or nothing
(`ReviewFollows`); only dropped findings are recorded as skipped (`SkipsFollow`); and an
outcome says how the post went (`OutcomeFollows`). `OneFindingSet` and `DeliveryDecides`
are read off it. `PipelineTypeCorrect` is proved part by part (`PlaceTyped` to `StoreTyped`);
only the last part needs `PipelineInv`, whose findings the rows are made of.

Cost, locks: `LedgerInv` says that a transaction runs exactly where an attempt is in one
(`Placed`), which rows it may hold at each statement (`Held`), that no row has two
holders on a day (`Apart`), that an organization's row has a global row beside it
(`RowsTogether`), and that without a cap change nobody has written but what it inserted
(`CapsStand`). Two transactions in a circle meet at the global row and a row below it;
the one that holds the lower row alone has then written its cap, and `CapsStand` says
that a cap was changed.

Cost, money: `MoneyInv` adds what the totals are made of. An attempt has reserved before
it may pay and settles once, after that (`Counted`); a check sees the rows that it has
made sure of and holds the global one when it reserves (`CheckSees`); a reservation has
rows (`BookedHasRow`); every cap in force was set at some time (`CapsKnown`); a day's total is
*equal* to the sum of the shares of the attempts that reserved on it, a share being the
estimate or, once settled on the same day, the cost (`Accounted`). `DayIsAccounted`
follows member by member. `CapBoundsTheDay` is inductive only with `SeenIsClose`: what a
check has read of the global total is exceeded by now by settlements alone. Both sums
are cardinalities; `SumAdds`, `SumChanges`, `SumSame` and `SumGrows` are all that is used
of them.

### ControlPlane_proofs

`RoleIsLastApplied` needs three facts: the unique index leaves
one pending request per subject (`OnePending`); a handler between its UPDATE and its
COMMIT is alone with a pending request (`RowLocks`); and what it has deleted by then
is all its subject holds (`DeletedAll`), because no other transaction on the subject
can commit. `DecisionIsFinal` follows from the same invariant.
`RowsPassTheirCheck` needs that an activation owns the rows it has demoted until it
commits (`DemotionsAreOwned`); `CacheIsItsVersion` that no snapshot is younger than the
singleton. `RepositoryStaysOff` needs that a switched-off repository is recorded,
as the INSERT alone sets the column. `CooldownHasRepair` is inductive over the types of
installations, webhooks and executions (`InstallationsTypeCorrect`): mark and row share a
savepoint, and a row is gone only when the execution it started is open or was lost.
`StagedOnLiveValue` is inductive as it stands.

The cap of the default corpus alone is not inductive. `AdmittedFit` counts
what is there and the writers that have passed their limits together: a writer passes
with a count below the cap, and all writers may be admitted at once; an upsert takes
its writer from one count and adds at most one to the other; an attempt that is given
up takes another writer's place. For
`LlmCredentials` the invariant says what a call knows (`CallKnows`): its scan is the
row it began with, what it builds is no older than that and no newer than the row, and
past the client a call that began with the role off has been overtaken by a save; and the
same of a cached client (`ClientKnows`). A client whose key is the row's was built from
a row that was on, which is what keeps a role that is off silent. `FreshTokenIsNewest` needs that who mints holds its
installation's lock and that nothing of the installation is fresh meanwhile (`MintInv`): two lemmas
say what keeps it (`KeepsMint`, `IssueMint`), and each action is an instance of one of them
but for the two that take the lock and fill the cache.

Workspaces: `LeaseInv` says that a run has at most one active lease (`OneActive`), that a
clone written under a lease has a lease whose release has yet to remove it
(`TreeHasLease`), that a workflow with a workspace knows its id (`Flows`), and of every
attempt that runs, awaited or late, what it knows (`Sound`): a release that hops has read
a state to hop from, and one past the hop has a lease that was moved on. Leases only move
forward, so what a late attempt has seen becomes old but not false. `LeftoverIsStale` and
`RemovalIsForOldLease` follow. The invariant was checked with one and with two tries.

### What is only model-checked

The liveness properties `AbandonedRowIsReleased`, `PendingIsSettled`,
`RunningRunEnds`, `RequestedIsReleased` and `CorpusIsCurrent`. Liveness
under fairness and ENABLED, induction over data, and RECURSIVE operators are out
of the reach of this prover and stay with TLC; the modules use none of the last. The
type of `lru` in `GitHubClient` has no theorem, since what filtering a sequence returns
needs induction; what the argument about tokens needs of the other types is in `MintTypes`.

## 6. Statements of the code that the models refute

`PROJECT.json` lists them under "findings". Two have a run of their own (`NoReviewLost`,
`SingleActive`). The other formulas stay in their modules, outside of the passing runs,
for whoever changes the code: `BusyNamesHolder` (`PrMutex`), `DispatchedIsFinal` (`Outbox`),
`ClaimCheckStopsSuperseded` (`ReviewFlow`), `DegradedAnswerMeansTwo422` and
`LadderFailureReachesWorkflow` (`PostReview`), `MilestoneOnce` (`RunTransactions`),
`AbandonedIsReclaimed` (`WorkspaceLease`), `LoweringWaits` (`CostLedger`),
`DegradedReviewSaysSo` and `MetadataIsAligned` (`ReviewPipeline`),
`ExpiredCanBeResubmitted` (`RoleChanges`), `FlipHasTwoApprovers` (`FlagFlips`), `ShownPageIsRetrieved`,
`OldVersionIsHidden` and `RevokedPageIsFlushed` (`ConfluenceCorpus`). To see the
counterexample of one, make it the only property of a copy of its module's configuration.

Smaller observations made while modelling, with no formula of their own:

- workspace: `allocate` answers "ALLOCATED" whatever state it found; a lost answer
  leaves a lease that nobody releases; a retried clone meets the directory of the first;
  the first entry of the cleanup backoff is never used.
- cost: a request whose archiving fails leaks its reservation; the catch around
  the cap lookup cannot work after an SQL error in a transaction (25P02); a deadlock
  (40P01) is not treated like a lock timeout.
- pipeline: concurrent chunks embed the same query path each ("once per unique path");
  activities go on over a workspace that is being removed after the pool has rejected;
  the advisory path has no last claim check; `isCancellation` does not see a
  cancellation that is the cause of an activity failure.
- embedder: two starts at once both insert; `cancelPending` clears the pointer whichever
  generation it names; the mode `generation_only` is gated on the coverage of the active
  generation, and an activation in that mode is not gated; `transitionToReady` has no
  caller under `src/`.
- installations: a removal whose start meets an open execution is swallowed, and a
  listing made before a removal inserts the repository as enabled if it was unknown;
  two webhooks at once both pass the cooldown and are coalesced by the workflow id; a
  late success of the hydration deletes a block.
- model credentials: a row that is gone or switched off ends the refresh but leaves the
  cached key; the hard-stale window counts from the first failed refresh, not from the
  time the key was stored; a `SELECT` that fails in `forRole` ends a call whose client is cached.
- GitHub client: `InstallationTokenCache` of `installation_token.ts` has no caller under `src/`.

## 7. Plan

Done: the run lifecycle down to its statements, mutex, outbox, flow, posting, pipeline,
workspaces, cost, the protocols of the control plane, the confluence corpus, and the
caches of credentials and tokens.

Posting implements an abstract specification of its own, as the run lifecycle does.

Next, in this order:

1. Pure algorithms (aggregation caps, token packing, rank fusion) as operators
   against reference definitions.
2. The webhook's admission checks and the retention of runs, as components of `ReviewFlow`.

## 8. Not modelled

Text, prompts, retrieval, policy and redaction; adapters to GitHub, LLM providers,
Confluence and Vault; admin reads; authentication; retention and partitions; audit
rows; tenancy columns. `PROJECT.json` gives the reason per component. Most of the
implementation's lines are of this kind: route tables, zod contracts, DTOs, prompts,
adapters, wiring and data tables, which have no state of their own. A run whose dispatch guard never commits stays PENDING until the next push:
the reaper looks at RUNNING runs only; no document promises otherwise. The five
attempts of an outbox row follow one another without a pause, as a failed attempt clears
the lease; `Outbox` has no clock and does not say how fast.
