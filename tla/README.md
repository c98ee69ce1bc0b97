# A TLA+ development for NoiseFence

NoiseFence is an SMTP gateway: it receives mail, scans it, decides per
recipient, queues it durably and relays it to upstream servers. Several MX nodes
can form a cluster that replicates its queues in pairs, shares budgets and
counters and changes its filtering policy together; a PostgreSQL database can
take over the management of all of them. This directory models the parts where
losing, duplicating or wrongly judging mail, or losing control of the cluster,
depends on the order of concurrent steps and failures. Paths below are relative
to the repository; `PROJECT.json` maps every definition to the lines it models.

    cd tla
    tlc -workers 2 -config NodeSafe.cfg MCNode             # one run
    tlapm ActivationProofs.tla                                # proofs of one component

## 1. Inventory

### Components

| Component | Source | State it keeps | Operations that change it | Here |
|---|---|---|---|---|
| Durable mail queue | `src/store.rs` | SQLite `messages`, `deliveries`, `delivery_policy`; spool of bodies | enqueue of a batch of variants, claim, finish, enqueue_dsn, cleanup, recover | `MailQueue` |
| Relay worker | `src/relay.rs`, `src/backscatter.rs` | in-flight jobs, the tick | claim loop, host attempts, notification sweep | `MailQueue` |
| Quarantine | `src/quarantine.rs` | hold deadline and action of a delivery | release, delete, expiry, forwarded commands | `MailQueue`, `RemoteCommands` |
| Paired replication | `src/ha.rs`, `src/ha/replica.rs`, `src/api/ha.rs` | generations on the owner; journal and files on the peer | prepare, synchronize; store_body, ingest, cleanup | `Replication` |
| Fenced queue recovery | `src/ha/recovery.rs` | checkpoint, staged and final rows, receipts | checkpoint, restore_queue_mode, activate | `Recovery` |
| Activation journal and authority | `src/cluster/activation.rs`, `src/control/activation_authority.rs`, `src/api/cluster.rs` | one durable journal: epoch, base, phase, progress, approver | stage, abort, recover, receipts, commit, release | `Activation` |
| Participant and admission gate | `src/control/activation.rs`, `src/cluster/activation/*` | durable view; gate; runtime | observe, fence, drain, bind, prepare, apply, install, resume | `Activation` |
| Worker loop, artifacts | `src/cluster/worker.rs`, `src/cluster/artifacts.rs`, `src/capacity.rs` | applied revision, leases, content-addressed model files | poll, download, build, install, prune | `Distribution` |
| Cluster budgets | `src/cluster/budget.rs`, ledgers in `src/llm.rs`, `src/protection/providers.rs` | credits, wallets, ledgers | grant, install, reserve, settle, restore | `Budget` |
| Metadata exchange | `src/central/outbox.rs`, `history.rs`, `logs.rs`, `transport.rs` | outbox with dirty generations, projection | export, ingest, acknowledge | `Projection` |
| Remote commands | `src/central/commands.rs`, `src/cluster/history.rs` | commands, receipts, bindings | request, dispatch, execute, acknowledge | `RemoteCommands` |
| Maintenance checks | `src/maintenance.rs` | observations of a reserved pair | probes, readiness | `MaintenanceCheck` |
| SMTP session | `src/smtp.rs` | per-connection transaction, permits | connect, MAIL, RCPT, STARTTLS, DATA, shutdown | `SmtpSession` |
| Admission, traffic, lookups | `src/smtp_admission*`, `src/traffic*`, `src/rbl.rs`, `src/recipient_verification.rs` | greylist rows, windows, tickets, caches | per connection, recipient and message | `Admission`, `Traffic`, `SenderVerification`, `Rbl`, `RecipientVerification` |
| Reputation providers | `src/protection/providers.rs` | caches, quotas, cool-downs | inspect, lookup, record | `Reputation` |
| Scanning engine | `src/engine.rs` | checks of one message under a deadline | run checks, score, render per recipient | `Analysis` |
| Decision and actions | `src/decision.rs`, `src/actions.rs`, `src/custom_filtering.rs`, ... | none (frozen records) | stages of one verdict, replay, simulation | `Decision` |
| Accounts, MFA | `src/central/{accounts,admin,mfa,invitations}.rs` | accounts, sessions, factors, invitations | sign in, change, reset, invite | `Accounts` |
| Policy authority | `src/central/policies.rs` | journal, head, revisions | stage, commit, recover, release | `Policies` |
| Disaster recovery | `src/central/recovery/*` | era, credentials, replayed sources | prepare, replay, activate, release workers | `CentralRecovery` |
| Move to PostgreSQL | `src/central/import/*`, `src/central/selection.rs`, `deploy/postgresql/{migrate,migration_agent}.py` | tokens, receipts, staged copies | freeze, capture, import, select, cancel | `Cutover`, `Import` |
| Directories | `src/identity/*`, `src/control/identity_*` | schedules, leases, candidates, SCIM inventory | collect, review, prepare, install, provision | `DirectorySync`, `Connectors`, `Scim` |
| Research | `src/research_archive.rs`, `src/central/{quality,research,research_worker}.rs` | encrypted originals, labels, samples, jobs | capture, expire, export, claim, finish | `ResearchArchive`, `ResearchJobs`, `ResearchEvidence` |
| Models, learning, statistics | `src/fusion.rs`, `src/semantic.rs`, `src/vision.rs`, `src/adaptive.rs`, ... | weights | numeric classification | not modelled (any result) |
| Web interface, deployment, scripts | `web/`, `deploy/`, `scripts/` | none | none | not modelled |

### How they interact

- An SMTP session asks the **gate** at MAIL, snapshots the runtime, asks
  **admission**, **block lists**, **recipient checks** and **traffic**, has the
  message **analysed** and **decided**, asks the gate again (`Gate::enter` with
  the epoch it scanned under), has the **replication** layer copy the message to
  the peer, and commits it to the **queue** in one transaction.
- The **relay worker** is one loop: it claims at most `relay.workers` deliveries,
  mirrors each claim to the peer before it opens a connection, spawns a job per
  delivery, and on the tick runs the notification sweep and the cleanup.
- SQLite triggers raise a message's replication and export generations on every
  change; background passes copy what the other side has not acknowledged.
- Workers **poll** the authority. A poll carries the worker's runtime epoch and
  receipt, its spending and its command receipts; the reply carries the journal,
  the credits and new commands. Any of them may be lost, late or repeated.
- Console requests and the clock act on the same rows at any time; a transaction
  often repeats, under a lock, a check that was made before it.

### What is hard here

1. Crashes between a file operation and a transaction.
2. Results that outlive their caller: a 250 whose recording is lost, an upload
   applied after the caller gave up, a receipt of an earlier rollout.
3. State that is read and used later: lists of a sweep, an exported manifest, the
   policy a message was scanned under, an account verified before its row is
   locked, a directory read page by page.
4. Decisions that span nodes: nobody may accept under the old policy once somebody
   accepts under the new one, with restarts in between.
5. Counters and quotas shared by concurrent callers, at their limit and at the end
   of their window.
6. What must eventually happen: every recipient gets an answer, every body leaves
   the disk, every closed gate opens, histories converge, commands end.

The hazards, each at its line, with the properties that would catch them, are in
`PROJECT.json`. Two weaknesses met on the way lie outside the models: the sweep of
`src/store.rs:680` lists without an order, which only matters beyond its limit of
rows, and the console revision may change outside activation between staging and
commit (`src/control/activation_authority.rs:763`).

## 2. Modules

One module per component, one action per transaction, request, file operation or
handler step. `MCMailQueue` and `MCActivation` give `MailQueue` and `Activation` their
small sets; `MCNode` joins the two for safety, `MCLive` has the liveness of what a node
exchanges with management, and everything else is checked in three suites:

| Suite | Components |
|---|---|
| `MCNode` | `MailQueue`, `Activation` |
| `MCCluster` | `Replication`, `Budget`, `Projection`, `RemoteCommands`, `Distribution`, `MaintenanceCheck` |
| `MCMail` | `MailQueue` (a batch), `Recovery`, `SmtpSession`, `Admission`, `Traffic`, `SenderVerification`, `Reputation`, `Rbl`, `RecipientVerification`, `Decision`, `Analysis` |
| `MCManagement` | `Accounts`, `Policies`, `CentralRecovery`, `Cutover`, `Import`, `DirectorySync`, `Connectors`, `Scim`, `ResearchArchive`, `ResearchJobs`, `ResearchEvidence` |
| `MCLive` | liveness of `Activation`, `Projection` and `RemoteCommands` |

A suite INSTANCEs each component, some of them several times with different
constants, and a behaviour chooses one instance in its initial state (variable
`component`) and then takes only its steps. Variables are shared by name, so that
a state stays small; a variable no chosen component uses is constant. The
properties of a component are joined in one definition per component
(`ReplicationSafe`, ...), which is what the run lists: an implication per
instance, `component = "retries" => Retries!AcceptedRestorable /\ ...`, and the
action properties as one `[][...]_vars`. `PublicationSafe`, `DirectoriesSafe` and
`ResearchSafe` join the properties of several modules.

Five components are instantiated with a parameter: `Traffic(p)`,
`RecipientVerification(p)`, `Analysis(p)`, `Distribution(p)` and
`MaintenanceCheck(p)`, where `p` is a record of their constants. The suite chooses
among a few such records (`ThreeMessages`, `ModelDistribution`, ...); the theorems of
section 5 about them are for every `p`.

A helper that `PROJECT.json` does not map stands for some of the lines of the mapped
definition that uses it.
In `MCMail` and `MCManagement` symmetry is declared per set of interchangeable
values, for all instances at once; the other runs have none.
Operators marked `Mutant` restate one definition with a plausible mistake; the
ones `PROJECT.json` lists are tried against the run's property, the others
document further mistakes the properties detect. The proofs about `M` are in
`MProofs`, which EXTENDS `M`; a suite instantiates `MProofs` where there is one, so
that the theorems apply to its instances.

### MailQueue

`status`, `raw`, `linked`, `hold` and `files` are the durable state (SQLite and
spool); `smtp`, `phase`, `bounces`, `sweep`, `job`, `tried` belong to the process
and are lost by `Die`. Every action is one SQLite transaction or one file
operation, so a crash falls between any two of them; `CrashInDsn` is the crash
inside `enqueue_dsn`, between the DSN's body and its transaction. The worker's
loop is `phase`: *claim* and *sync* on the fast path, then, on a tick, *notify*,
*expire*, *list*, *sweep* and *purge* in the code's order.

Time is abstracted to what the code asks of it: a hold lies in the future or has
passed, a delivery is past the maximum queue age or not, metadata is purged at any
time once its body is gone. A host attempt is one step with its possible outcomes.
`copies` and `doubt` are history variables: what the upstream took, and
acceptances that were never recorded.

### Replication and Recovery

One action per owner transaction (with the trigger's new generation), one per
request sent, received or given up on, one per peer transaction. `net` holds the
requests under way, including those whose caller gave up. `Restored(d)` is what a
restore would make of delivery `d` from the peer's journal now; as it is evaluated
in every state, every moment at which the owner may be lost is covered.
`PeerForget` assumes that no request is still under way 30 days after the
tombstone it would contradict. `Recovery` is the restore itself: checkpoint and
journal merged message by message, interrupted and repeated.

Two operations are left out: `resync` (`src/ha/recovery.rs:73-105`), which makes an
owner mirror its whole queue anew, and the enrolment of a queue that already holds
mail (`src/ha.rs:151-157`). A queue is empty here when it is paired.

### Activation and PolicySwitch

A bundle is named by its epoch (rollout and console revision). `journal` is the
authority's row, `disk[n]` the participant's durable view, `active`, `fence` and
`closed` the gate, `run` the runtime, `step[n]` where the driver of a node stands.
`past` holds every journal that ever was and `polls` every report that was ever
true: any of them may arrive at any time. A node restarts at any step, closed once
its storage is enrolled, on the runtime last saved; a driver's run may fail at any
step and leaves the gate as it is.

`AtomicSwitch` maps the journal's committed epoch to the abstract `policy` and a
session that passed `Gate::enter` to a `lease`. Membership is fixed: the authority
refuses every step while it differs from the rollout's.

### The other components, and what their models leave out

- `Budget`: one paid resource; a window is a month, day or minute.
- `Projection`: messages and transcripts, the batch under way, acknowledgements.
- `RemoteCommands`: one recipient of one message; the two sides' clocks are
  independent. The workers of a SQLite coordinator execute the same transaction
  (`execute_transaction`), dispatched by `src/cluster/history.rs:346-358` without
  bound receipts; that dispatch is left out, except for its pending rows, which
  `Import` looks at.
- `Distribution`: one clock for both machines; a replaced file is always a new
  version. Every new engine reads some files again (`Reread`), an older build
  refuses some settings and ignores others (`Refused`, `Optional`, operators
  `Refuses`, `Stripped`, `ForBuild`). The console's overview, which also asks for a
  publication, is left out: a worker's exchange asks for the same. An unenrolled
  exchange of protocol 2 does not check the revision again after the work (only version 1
  does, `src/api/cluster.rs:746`), so the bound on staleness is the lease plus the handler's time. Refusals for lack of engine
  capacity are failed polls.
- `MaintenanceCheck`: the policy installed on a held node is constant;
  observations carry the date of the answer's receipt, so the bound is freshness
  plus one request; the Python supervisor is external.
- `SmtpSession`, `Admission`, `Traffic`, `SenderVerification`, `Rbl`,
  `RecipientVerification`, `Reputation`: clocks in small units, DNS and HTTP
  answers of any value. A ticket verified just before it expires is not seen by a
  later poll; the message then stays held until its quarantine ends.
- `Admission`: a bucket that was not used for longer than `Unused` (24 hours) is
  forgotten and begins full again, and a peer without one is not counted while the table
  is full (`src/smtp_admission/runtime.rs:296`, `304-312`). `RateBounded` therefore allows
  the burst once more for every stretch in which a bucket may have been forgotten: with
  `rate_per_minute * 1440 < rate_burst`, which the validation allows, it was not full
  again by then. `RetryPasses` keeps apart how long an attempt counts (`RetryMaxAge`)
  and how long a pass does (`Retention`).
- `SenderVerification`: the answer proves itself by the coordinator's own challenge or
  by the word of the captcha provider. The provider is awaited between the check of the
  link and the transaction, so that another confirmation, the end of the ticket or its
  clean-up may come in between (instance `confirmations`).
- `Rbl`: a zone is skipped that does not serve the peer's kind of address
  (`src/rbl.rs:404-408`, instance `skipped`), and the zones with a private key are asked
  only where the caller says so (line 464, instance `votes`).
- `Decision`: every stage from the fresh index to the frozen record. The index alone
  makes no spam where corroboration is required, except after a rule with category
  *undetermined*, which is the run `decision_rule` of section 4. A simulation reads the
  retained facts (`Facts::metadata`), so a rule about the message itself may not match
  there: it agrees with the receipt where there is no such rule, and no rule matches in
  a simulation only. Observed while modelling: an unusable fusion with a high score gives the category spam by the index alone, the
  action still being blocked by coverage; `category_sql` asks for complete analyses
  where the Rust code also takes readable ones with a DNS gap.
- `Analysis`: a check's result is any value; a deadline may fall at any point. The
  instance has four recipients and two per variant, so that both a full and a fresh
  variant are met.
- `Accounts`: central mode only. In the instance `timesteps` the clock moves, so that
  a one-time code of an earlier step can come late or again. The commands of an operator on the coordinator's machine
  (`src/central/operator.rs`) are left out; they are transactions under the same lock as
  the console's changes. The SQLite handler of a password change
  (`src/api.rs`, about line 608) stores the new password without reading the
  account again, which is the mutant `ReplaceableBlindly`.
- `CentralRecovery`: an operation whose console was authorized is assumed not to be
  reused (`docs/postgresql-development.md:951-956`); unattached workers are kept
  fenced by the supervisor.
- `Policies`: an edit that disables a node or changes its token deletes what it reported
  (`src/central/nodes.rs:214-221`), so that it must report anew before a commit.
- `Cutover`: `migrate.py` freezes the nodes one by one, has what they hold copied, selects
  the copy node by node or cancels, and a killed run is followed by another. A partial `--cancel`
  cannot be run again to cancel the others.
- `Import`: one recipient per message, the rollout and the commands that are still
  pending, the dirty marks of the triggers in `src/cluster-schema.sql`; refusals for
  keys, connections and foreign keys, and the contents of accounts, are left out. What
  is promised of the mirror speaks of messages that were mirrored before the step.
  With `quarantine_days = 30` the cleanup of `src/store.rs:764` expires, strips and deletes an aged worker
  message in one pass; its dirty mark goes with it and the coordinator's mirror
  keeps it as quarantined, so that a migration is refused until it is reconciled.
  An owner keeps 50 transcripts and an export carries 5: a mirror that lags by
  more makes the capture refuse.
- `DirectorySync`, `Connectors`, `Scim`: providers list in the order of identifiers
  with a cursor; one object per page; delegations left out. Connections and tokens are
  replaced while a collection or a review is under way (instances `credentials`,
  `renewing` and `attesting`). `Complete` is checked without anybody being reactivated
  between Okta's two lists (`Crossing`); with such a person it is violated, which is the
  run `okta_crossing` of section 4. `Resident::publish` is used by tests only.
- `ResearchArchive`: an interrupted key creation makes every write fail until
  collection stops with an empty archive; a failed clean-up leaves an orphan until
  the next restart; a crash between a context and its row lets one capture count
  the old size; a refresh that always fails delays later entries until it expires. The
  quota is checked with one compared message, so one entry that grows beside another is
  outside the bounds.
- `ResearchJobs`: a selection takes less than a unit of the clock; the runner's
  directory and program are external; heartbeats and comparison jobs left out.
- `ResearchEvidence`: similarity hashes are 8 bits in 4 blocks, which keeps the
  pigeonhole argument for up to 3 changed bits; limits and access filters left out.

## 3. Runs

Each passing run explores all states of its instances.

| Run | Instance | Checks | Distinct states |
|---|---|---|---|
| `node_safe` | queue: one hostile message with a sender, two hosts, a replica, two crashes, feedback that changes; rollouts: two nodes, a session on the worker, two rollouts or one and a fault | `QueueInv` (with `TypeOK`), its parts, `NothingForgotten`; `OneOpenPolicy`, `ReadyMeansFenced`, `ReleasedEverywhere`, `AtomicSwitch` | 1.31 M |
| `queue_live` | one message with its report, one crash, fairness | `EventuallyResolved`, `BodyReclaimed` | 0.12 M |
| `cluster_safe` | 15 instances of the cluster's protocols | `ReplicationSafe`, `BudgetSafe`, `ProjectionSafe`, `RemoteCommandsSafe`, `PublicationSafe` | 1.65 M |
| `mail_safe` | 23 instances of what a node does for a message | eleven joined properties | 1.45 M |
| `management_safe` | 24 instances of management | eight joined properties | 1.46 M |
| `services_live` | two nodes with two rollouts or one and a fault; one node's history; one remote command; fairness | `AdmissionResumes`, `Converges`, `EveryCommandEnds` | 0.10 M |
| `activation_stranded`, `activation_missed_release`, `recovery_dsn_name`, `recovery_held`, `decision_rule`, `okta_crossing` | | violated, see section 4 | |

### What they show

- **Queue.** No recipient of an unanswered transaction is visible; the journal
  never counts on a missing body; a recipient that needs work keeps its body;
  terminal states are final until purged; a second copy upstream follows only an
  acceptance that could not be recorded; a failure has at most one report. Every
  recipient is eventually resolved and every body reclaimed.
- **Replication and recovery.** In every state, a restore brings back all
  unfinished accepted mail with its body, sends nothing on its own that may already
  have been sent, keeps a report or the failure it is about, and does not revive
  what the owner retired; interrupted restores can be repeated.
- **Activation.** Open gates are on the committed policy only; a recorded readiness
  means a closed, drained gate; a release means every node installed the bundle;
  acceptances see an atomic switch; closed gates open again.
- **Cluster.** Credits are granted once and never exceed the limit, whatever is
  lost, repeated or restored; central management's copy of a history loses no
  change, shows nothing of deleted messages and never gets stuck; a message is
  released or deleted once, and what is recorded of it is what happened; a worker
  runs model sets as a whole and can start after any crash.
- **Mail.** One policy revision per message, permits that never leak, retries that
  pass greylisting, windows and quotas kept by all callers together, results that
  survive a deadline; the index or the fusion alone makes no spam, but for the rule of
  section 4.
- **Management.** Sessions end with the account state they were opened under,
  resets are not overwritten, someone administers; a policy in force is approved
  when written; after a disaster old access is gone and sources are replayed; a
  move leaves nothing behind and one authority; directories are installed complete,
  reviewed and recent; research data is readable, bounded and never relapses.

### Bounds

- *Queue.* The properties relate one delivery to its message, its report, its batch
  or its siblings. One crash meets every intermediate state; two let recovery meet
  the leftovers of an interrupted attempt. The batch of `mail_safe` has no crash;
  its crashes are covered by the theorems of section 5.
- *Activation.* Two rollouts are needed for stale receipts, for recovery (a rollout
  of its own) and for an abort after a release. `MaxEvents` 2 lets a fault replace
  the second rollout; the theorems cover any number of both.
- *Suites.* An instance has the fewest values that let its hazard happen: two
  callers for a race, one more event than a limit for a quota, two windows for a
  roll-over, one crash or one restore. Where one instance would be large, several
  small ones (`quota`, `restored`, `tightened`, `rollover`, `euro` of `Budget`) each
  show one of its hazards.

`CHECK_DEADLOCK FALSE` is used where the system may stop: all mail retired, the
bound on rollouts reached, a component of a suite at the end of its events.
`queue_live` checks deadlock; there the cleanup cycle goes on for ever.

### Fairness

- `MailQueue`: a supervisor restarts the process (`WF(Restart)`); `tokio` keeps
  polling spawned jobs, each with a timeout per host and an outer one
  (`WF(JobGoesOn)`); the clock advances (`WF(Passage)`); the tick comes round again
  and again between claims (`SF(Housekeeping)`), and then runs to its end
  (`WF(Cleanup)`); `claim` takes the longest-due delivery first (`SF(Claim)`); a
  sender's domain resolves now and then (`SF(Answered)`), and a lookup that fails
  only postpones (`WF(LookupFails)`). Nothing is assumed about upstream hosts.
- `Activation`: the loops poll for ever and some reply is current (`SF` of taking
  the present journal, `WF(Exchange)`), drivers and sessions have deadlines
  (`WF(Work)`, `WF(Leave)`), the owner's loop runs every two seconds
  (`WF(Advance)`). Administrators need not do anything.
- `Projection`: the transport's loop comes round for ever (`WF` of export and of a
  request's deadline, `GiveUp`); a request sent again and again reaches the service, and
  its answer the node, some time (`SF` of taking the current batch and of its
  acknowledgement). Messages and transcripts have no fairness of their own beyond that.
- `RemoteCommands`: the node polls, works and stops in time (`WF(Poll)`, `WF(Execute)`,
  `WF(Finish)`, `WF(Stop)`), clocks advance (`WF(ExpireHere)`), and of the polls that go
  on for ever one is taken whole, one answered and one confirmed (`SF` of
  `AcknowledgeCommands`, `PendingCommands`, `Confirm`).

`MCLive` restates these conjuncts for the component that a behaviour chose. As the
other two never move, a strong fairness of each is stated as one of a disjunction. The
streams are separate components there: that a refused batch of histories must not hold
up commands, which share one loop (`src/central/transport.rs`), is not shown.

## 4. Where the code and its documentation differ

- `activation_stranded`. `docs/coordinated-activation.md:41` says that after an
  account change prevents a commit, another administrator can abort before commit
  or authorize a recovery. A rollout that is itself a recovery can be neither
  aborted nor recovered, and with a changed approver it cannot commit.
- `activation_missed_release`. `docs/coordinated-activation.md:230` says that abort
  restores admission on the unchanged base epoch. A node that applied rollout 1,
  missed its release and prepared rollout 2 has a gate that is fenced for 2 and
  still bound to the epoch before 1. When 2 is aborted it must resume on 1, which
  `Gate::resume` refuses until the process restarts.
- `recovery_dsn_name`. `src/store.rs:732-733` says that "Worker IDs include their node
  and original message, so queue counters cannot collide", and line 752 that a report's
  name is never taken. A coordinator's reports have neither in their names. A restore numbers the rows anew while reports keep the names of the old rows
  (`dsn-<row>`), so that a later failure's report is refused on every sweep.
- `recovery_held`. `docs/high-availability.md:20` says an uncertain recipient is held
  until an operator releases it. Recovery stores no `held_until`, and every way to
  release or delete a held recipient refuses a delivery without one.
- `decision_rule`. `docs/custom-filtering.md:21` says that each explicit threshold
  imposes server-side substantiation. After a rule with category *undetermined*,
  `src/custom_filtering.rs:725-731` settles the message by the index against the
  profile's threshold alone: an index that the filter's own threshold would accept is
  recorded as spam without any other observation.
- `okta_crossing`. `src/identity/connectors/okta.rs:432-433` says that a user crossing
  Okta's two lists aborts the scan. The code notices only who is met twice. Who is
  reactivated after the default list was read and before the deprovisioned one is, is in
  neither, and the collection counts as complete without that person.

## 5. Proofs

TLAPS checks the theorems below for every value of the constants.

### MailQueueProofs

For every envelope, every partition into transactions, every number of workers and
hosts, either setting of replication and any number of crashes:

| Theorem | States |
|---|---|
| `TypeCorrect` | `Spec => []TypeOK` |
| `QueueCorrect` | `Spec => []QueueInv`, the inductive invariant |
| `RecoveryAlwaysServes` | `Spec => []BodyOnDisk` |
| `NeverWithoutBody` | `Spec => []UnresolvedHasBody` |
| `AcceptedAsOne` | `Spec => []UnacceptedInvisible` |
| `DuplicatesExplained` | `Spec => []NoSilentDuplicate` |
| `AnsweredOnce` | `Spec => []OneAnswer` |
| `NothingIsForgotten` | `Spec => NothingForgotten` |

Assumptions: deliveries are pairs of a message and a recipient, identifiers of
reports differ from those of accepted mail, transactions are disjoint sets of
variants, and the bounds are natural numbers. None of the properties is inductive.
`QueueInv` adds what they rest on:

- `ClaimsHaveJobs`: a job belongs to a delivery marked *sending* in a live process,
  so no other actor changes a row while its job is about to write it.
- `SweptIsResolved`, `BouncesStillFailed`: lists taken in one transaction and used
  in others stay good, because nothing else moves what is on them.
- `UnacceptedUntouched`: an unanswered transaction has no row and no report.
- `CopiesAccounted`: an undoubted copy is one whose job is about to record it, or
  already did. This is `NoSilentDuplicate` made inductive.
- `UnlinkedUnsent`: a report not linked from its failure was never sent.

One lemma per group of actors, in each a step per action.

### ActivationProofs

For every set of nodes, every owner among them, every set of sessions and any
number of rollouts, restarts and failed driver runs:

| Theorem | States |
|---|---|
| `TypeCorrect` | `Spec => []TypeOK` |
| `GatesAgree` | `Spec => []OneOpenPolicy` |
| `ReadinessFenced` | `Spec => []ReadyMeansFenced` |
| `ReleaseEverywhere` | `Spec => []ReleasedEverywhere` |
| `ImplementsAtomicSwitch` | `Spec => AtomicSwitch`, the refinement of `PolicySwitch` |

Assumptions: the owner is a node, sessions run on nodes, bounds are natural
numbers. Not even the type invariant is inductive: a new rollout's revision stays
in its range only because the current policy's revision keeps up with the number
of rollouts. `ActivationInv` adds

- `HistoryKept`: every journal a reply may still carry is of an older rollout or an
  earlier state of the current one (`Later`), and the outcome of an ended rollout
  stands until the next commit (`Stands`);
- `ViewKept`: what a node stored came from the authority, and where its driver
  stands says how the view in hand relates to the stored one;
- `NotBehind`: every node has stored the rollout that made the current policy
  current. With `Stands` this is why a gate can only reopen on the current policy,
  although a worker may act on a reply of any age;
- `GateKept`: past the fence, and while storage says an unfinished rollout is
  prepared, the gate is closed and drained, across restarts;
- `BornOut`, `ReportKept`: a recorded progress, and a report on its way unless the
  node moved on, is true of storage and runtime.

A commit needs every progress at *prepared*; `BornOut` and `GateKept` then say that
every gate is closed and drained, so the step that changes the policy is the
abstract `Switch`; `Enter` is `Accept`, `Leave` and `Restart` are `Done`, and every
other step stutters. `NodesKept` and `OneNode` state once what a step of the
authority, and of one node, must not disturb. TLC checked `ActivationInv` on the
rollouts of `node_safe` before it was proved.

### ReplicationProofs

For all mail, envelopes, numbers of requests under way and crashes of the owner
(assumption `IdsApart`: envelopes are of the mail and its recipients, reports and
processes are no accepted mail). `IdsApart`, like the assumptions of the next two
modules, is a hypothesis of each theorem.

| Theorem | States |
|---|---|
| `InvAlways` | `Spec => []ReplicationInv`, the inductive invariant |
| `ReplicationTyped` | `Spec => []TypeOK` |
| `AcceptedMailRestorable` | `Spec => []AcceptedRestorable` |
| `PeerJournalComplete` | `Spec => []JournalComplete` |
| `RestoreNeverResends` | `Spec => []NoBlindResend` |
| `RetiredMailResolved` | `Spec => []RetiredIsResolved` |
| `PeerGoesForward` | `Spec => PeerMonotone` |
| `ReportsSurvive` | `Spec => []NoticeSurvives` |

These are all of the module's properties. A request may arrive long after its
caller gave up, so the invariant speaks of every manifest that is on its way, may
still be sent, or was taken by the peer:

- `AllHonest`: each is the session's candidate or an export. At the owner's present
  generation it says what the owner says; an older one still has the body and the
  work the owner has; one without the body is the newest;
- `PeerKept`, `Answered`, `Copied`: the peer has the file of every body its journal
  names; a receipt, and a phase that waits for one, mean that the peer knows that
  generation or a later one, so accepted mail is there with its body;
- `ClaimsKnown`: while a conversation may be open, every manifest the peer could
  still take instead of its own says *sending* too. That is why a restore holds the
  delivery for review;
- `DeliveredKnown`, `RetiredKnown`: the same for recorded deliveries and for
  retired bodies;
- `NoticeInv` adds `LoopKept` (what the pass has read and has yet to copy) and
  `NoticesKept`: every manifest has the failure or its link to the report, and until
  the peer has the report no manifest says that the message is retired, because the
  pass copies the report first.

Every step is of one of five classes: the owner's journal moves on, a copy is made,
the peer takes a request, the peer forgets, or the owner takes a receipt. One lemma
per class says what it preserves and one per action says which class it is. TLC
checked the invariants first on two instances: two recipients without a crash
(183,691 states) and one recipient with a crash and three generations (452,180).

### RemoteCommandsProofs

For any number of commands, polls on their way and stops of the node (assumption
`NullIsNoValue`: NULL is no operation and no result):

| Theorem | States |
|---|---|
| `CommandsTyped` | `Spec => []TypeOK` |
| `QueueDecidedOnce` | `Spec => []DecidedOnce` |
| `RecordsTruthful` | `Spec => []ResultTruthful` |
| `NoPollRefused` | `Spec => []NeverContradicts` |
| `WithdrawnStaysHere` | `Spec => WithdrawnNeverSent` |

`CommandsInv` adds that receipts on their way are genuine and recorded by central
management before a reply confirms them (`ReceiptsKept`), that the node works only
on what was asked for (`OnlyAsked`), and that a message leaves quarantine by the
one decision applied (`OneDecision`). TLC checked it with two commands and two late
polls (5,965,137 states).

### ProjectionProofs

For any number of messages, transcripts, changes, batches under way and
revocations (assumption `KindsApart`: a transcript is no message and belongs to
one):

| Theorem | States |
|---|---|
| `ProjectionTyped` | `Spec => []TypeOK` |
| `ChangesReachCentral` | `Spec => []NoChangeLost` |
| `TranscriptsReachCentral` | `Spec => []NoTranscriptLost` |
| `DeletionsFinal` | `Spec => []DeletedStaysDeleted` |
| `BatchesAccepted` | `Spec => []NeverRefused` |

`ProjectionInv` looks at all that anyone may still say of an object: its entry in
the outbox, the version central management has and the entries of every batch
(`Known`). In `OneStory` no generation names two contents and nothing follows a
tombstone; `LastSaid` and `ShownVersion` tie the last thing said to the node's
state and the version to what is shown. TLC checked it with two messages, two
transcripts and six changes (515,918 states).

### SmtpSessionProofs

For any number of connections, clients, recipients, transactions and revisions, and
any limits, without assumptions:

| Theorem | States |
|---|---|
| `SessionsCorrect` | `Spec => []SessionInv`, the inductive invariant |
| `RevisionKept` | `Spec => []OneRevisionPerMessage` |
| `ChannelKept` | `Spec => []EnvelopeOverOneChannel` |
| `LimitsEnforced` | `Spec => []OverLimitIsRefused` |
| `ReportsKept` | `Spec => []ReportsOfTheMessage` |
| `IdleIsFree` | `Spec => []IdleHoldsNoEngine` |
| `PermitsReturned` | `Spec => []NothingLeaks` |

The properties speak of queued messages; `SessionInv` says the same of every open
transaction (`Consistent`): its recipients were named under its revision and over
its channel, its reports come from its own check of the peer, and a refusal by
admission never meets an open transaction. Outside of one there are no recipients
and no engine, which is why a refused MAIL may read another revision. For the
permits, a step adds its session to the sets they count, removes it, or leaves them
(`SetsAfter`), and the cardinality theorems of the library do the rest. TLC checked
`SessionInv` with two sessions (88,592 states).

### MCClusterProofs and MCMailProofs: what the suites check

The theorems above are about a component alone. These two modules carry them over
to what the suites' runs check: a behaviour of the suite that chose a component is
a behaviour of that component, the choice is never changed, and the instances'
constants satisfy the assumptions (`ValuesApart`, which TLC evaluates).

| Theorem | States |
|---|---|
| `ReplicationProved` | `MCCluster!Spec => ReplicationSafe` |
| `ProjectionProved` | `MCCluster!Spec => []ProjectionSafe` |
| `RemoteCommandsProved` | `MCCluster!Spec => RemoteCommandsSafe` |
| `PublicationProved` | `MCCluster!Spec => []PublicationSafe` |
| `MailQueueProved` | `MCMail!Spec => []MailQueueSafe` |
| `SmtpSessionProved` | `MCMail!Spec => []SmtpSessionSafe` |
| `RecipientVerificationProved` | `MCMail!Spec => []RecipientVerificationSafe` |
| `TrafficProved` | `MCMail!Spec => []TrafficSafe` |
| `AnalysisProved` | `MCMail!Spec => []AnalysisSafe` |

The five components with a parameter are proved about here, for every record `p` of
constants that satisfies the condition named with each.

**`RecipientsVerified`** (`RoutesListed(p)`: a configuration has a list of routes,
perhaps an empty one). A recipient is refused only when every route of the
configuration its check began with said it is unknown. `RecipientInv` says so of the
cache (`CacheBacked`: entries carry their configuration and sender) and of a check
half way through (`CheckBacked`: it has heard the routes before the next one, and an
exchanged configuration does not disturb it).

**`TrafficLimited`** (`TrafficKept(p)`: buckets and results are kept for longer than
a window, and longer than a request lasts, by as much as the clock may be set back;
the code keeps them for 3600 s, a window has 10 to 3600 s and a request 3 s). A
message is counted once, in no window of time do more pass than two adjoining windows
allow, and a recipient is deferred early only while the messages of the last window
really reach the limit. `TrafficInv` needs
`Remembered` (a counted message has its stored result, or its request can arrive no
more) and, per key, `Window`: what passed since the bucket was opened and, separately,
in the window before it. Both are at most the limit; that is where the factor of two
comes from, and why a bound on one bucket alone is not inductive.

**`AnalysisKeepsWhatFinished`** (`AnalysisKept(p)`: an envelope names nobody twice,
as the session pushes an address only when it is not there yet, `src/smtp.rs:536`;
a variant holds at least one recipient). Whatever deadlines cancel, a finished check
is in the decided scan, once, and scored; an unfinished one casts no vote and leaves
the scan partial; a tag needs a chain that can be sealed; and an accepted message has
each recipient in exactly one variant of its outcome. `AnalysisInv` follows the
message from place to place: `VotesBacked` and `SlotsFollow` (a result is in its slot
or was taken from it and applied, never both, which is why retaining at a deadline
cannot apply it again), `ScoreKept`, `CompleteKept` (what a complete scan has seen so
far), `TagsKept`, and `PlacesKept` (those rendered have one place each in a variant
that is not too full, nobody is left out, and the rest wait in the envelope's order). TLC checked it on the suite's instance (44,656 states).

**`PairValidated`** (`PairKept(p)`: two nodes, and a worker that is asked probes its
peer for its replica and for the policy). A node is ready only when its peer checked
itself for the same operation, and the authority's policy was the planned one, no
longer ago than the lifetime of an observation and one request. `PairInv` traces the
dates back: `RequestBacked` (a request that was served is backed by that check of the
peer), `ObservedBacked`, `LocalBacked`, and `RoundsKept` (between two rounds a worker
has both observations or neither).

**`PoliciesDistributed`** (`DistributionKept(p)`: room for an engine beside the
template, older builds read plain settings). A worker runs whole model sets that an
engine of the coordinator was built from, can restart from what it stored, accepts
mail under a policy replaced at most a lease and one exchange ago, never stores one
it cannot read, and no edit is lost. `DistributionInv` has a part for the builder
(`LoadingKept`), the revisions and the permit (`ConsoleKept`), the publication being
hashed (`CaptureKept`) and each worker (`WorkerKept`: exchange, poll, storage, what
is live). The key is `NotReplaced(rev, t)`: a revision on its way was still in force
at `t`, where `t` is when the exchange that carries it began, then what was stored as
the time of synchronization, then the end of the lease less its length.

### Only model-checked

- Liveness (`EventuallyResolved`, `BodyReclaimed`, `AdmissionResumes`, `Converges`,
  `EveryCommandEnds`) is out of the prover's reach, and so are sums over recursive
  definitions.
- `DecisionSafe`: the verdict folds over lists of rules, and the prover cannot use
  a module with second-order operators through an instance with a parameter.
- The other components of the suites (`AccountsSafe`, `CutoverSafe`, `ResearchSafe`,
  `BudgetSafe`, `RecoverySafe`, `AdmissionSafe`, `SenderVerificationSafe`,
  `ReputationSafe`, `RblSafe`, `PoliciesSafe`, `CentralRecoverySafe`, `ScimSafe`,
  `ImportSafe`, `DirectoriesSafe`) are checked on their instances only.

## 6. Plan

Proofs still worth doing: `Policies` as another implementation of `PolicySwitch`;
`Accounts`, `Cutover` and `ResearchArchive`, whose properties need no sums.

Models still worth writing: `retry_delay`, dot-stuffing and header rendering as
pure operators; redirects of the protection providers; the observe mode of a
session.

## 7. Not modelled

- Fusion, language and vision models, training and calibration: numeric. A check's
  result is any value here.
- SMTP grammar, MIME and message rendering, TLS, DNS: a host attempt and a lookup
  are steps with their outcomes.
- Schema migrations, searches and listings: they run before mail is queued, or only
  read.
- Disk-full and I/O errors beyond those that fail an acceptance or end the process;
  corruption of SQLite or of the file system itself.
- The web interface, packaging and the Python supervisors of deployments, other than
  the migration's (`Cutover`) and the research worker's use of them (external).
