----------------------------- MODULE MCCluster ------------------------------
(***************************************************************************)
(* The cluster's protocols, each in an instance of its own: paired         *)
(* replication, budgets, the metadata projection, remote commands, the     *)
(* distribution of policies and models, and maintenance checks. A behaviour*)
(* chooses one of them; a variable of the same name serves whichever is    *)
(* chosen. A component with proofs is an instance of its proof module, so  *)
(* that its theorems apply.                                                *)
(***************************************************************************)
EXTENDS Integers, Sequences, FiniteSets

CONSTANTS m1, r1, w1, w2, w3, j1, m2, l1, c1, c2, nil

\* A message, a transcript and a process are not one another, and NULL is no string
\* of the journals.
ASSUME ValuesApart ==
    /\ m1 \notin {<<"dsn", <<m1, r1>>>>, "worker", "loop"} /\ l1 \notin {m1, m2}
    /\ nil \notin {"release", "delete", "retry", "done", "conflict", "expired", "revoked"}

VARIABLES
    component,
    raw, status, linked, gen, acked, smtp, planned, claimed, talk, todo, urgent, sync,
    ok, net, remote, blob, pfiles, sent, doubt, crashes, now, limit, policy, used,
    alloc, held, backup, wallet, lease, spent, job, call, reply, polls, high, metered,
    restored, seq, outbox, late, answer, ver, view, enabled, edits, shown, row,
    withdrawn, past, receipt, pc, queue, applied, source, saved, inForce, ran, active,
    loading, saving, cache, capture, nodes, exch, build, disk, stored, live, poll,
    retired, central, unsettled, proc, round, req, health, proved

vars ==
    <<component, raw, status, linked, gen, acked, smtp, planned, claimed, talk, todo,
      urgent, sync, ok, net, remote, blob, pfiles, sent, doubt, crashes, now, limit,
      policy, used, alloc, held, backup, wallet, lease, spent, job, call, reply, polls,
      high, metered, restored, seq, outbox, late, answer, ver, view, enabled, edits,
      shown, row, withdrawn, past, receipt, pc, queue, applied, source, saved, inForce,
      ran, active, loading, saving, cache, capture, nodes, exch, build, disk, stored,
      live, poll, retired, central, unsettled, proc, round, req, health, proved>>

Paired ==
    INSTANCE ReplicationProofs
    WITH Mail <- {m1}, Rcpt <- {r1}, Envelope <- {<<m1, r1>>}, ListLimit <- 1, MaxGen <-
         2, MaxNet <- 2, MaxCrashes <- 0
Retries ==
    INSTANCE ReplicationProofs
    WITH Mail <- {m1}, Rcpt <- {r1}, Envelope <- {<<m1, r1>>}, ListLimit <- 2, MaxGen <-
         3, MaxNet <- 1, MaxCrashes <- 1

Quota ==
    INSTANCE Budget
    WITH Workers <- {w1, w2}, Jobs <- {j1}, Limits <- {0, 2}, Costs <- {1}, Chunk <- 1,
         Margin <- 1, Refundable <- FALSE, MaxWindow <- 0, MaxPolls <- 2, MaxSpend <- 1
Returned ==
    INSTANCE Budget
    WITH Workers <- {w1, w2}, Jobs <- {j1}, Limits <- {1}, Costs <- {1}, Chunk <- 1,
         Margin <- 1, Refundable <- FALSE, MaxWindow <- 0, MaxPolls <- 2, MaxSpend <- 2
Tightened ==
    INSTANCE Budget
    WITH Workers <- {w3}, Jobs <- {j1}, Limits <- {0, 1}, Costs <- {1}, Chunk <- 1,
         Margin <- 1, Refundable <- FALSE, MaxWindow <- 0, MaxPolls <- 2, MaxSpend <- 2
Rollover ==
    INSTANCE Budget
    WITH Workers <- {w3}, Jobs <- {j1}, Limits <- {0, 1}, Costs <- {1}, Chunk <- 1,
         Margin <- 1, Refundable <- FALSE, MaxWindow <- 1, MaxPolls <- 1, MaxSpend <- 1
Euro ==
    INSTANCE Budget
    WITH Workers <- {w3}, Jobs <- {j1}, Limits <- {2}, Costs <- {1, 2}, Chunk <- 2,
         Margin <- 1, Refundable <- TRUE, MaxWindow <- 1, MaxPolls <- 1, MaxSpend <- 0

History ==
    INSTANCE ProjectionProofs
    WITH Messages <- {m1, m2}, Logs <- {l1}, Owner <- [l \in {l1} |-> m1], BatchSize <-
         1, MaxSeq <- 5, MaxLate <- 2, MaxEdits <- 1

Commanding ==
    INSTANCE RemoteCommandsProofs
    WITH Commands <- {c1, c2}, None <- nil, MaxLate <- 1

Distribution(p) ==
    INSTANCE Distribution
    WITH Workers <- p.workers, Reread <- p.reread, MaxStale <- p.maxStale, HandlerTime <-
         p.handlerTime, ClockSkew <- p.clockSkew, MaxEngines <- p.maxEngines, None <-
         p.none, Slots <- p.slots, MaxVersion <- p.maxVersion, MaxRevision <-
         p.maxRevision, MaxNow <- p.maxNow, Gated <- p.gated, Refused <- p.refused,
         Optional <- p.optional
ModelDistribution ==
    [workers |-> {w1}, reread |-> {}, maxStale |-> 1, handlerTime |-> 1,
     clockSkew |-> 2, maxEngines |-> 3, none |-> nil, slots |-> {"a", "b"},
     maxVersion |-> 1, maxRevision |-> 0, maxNow |-> 0, gated |-> {}, refused |-> {},
     optional |-> {}]
LeaseDistribution ==
    [workers |-> {w1}, reread |-> {}, maxStale |-> 1, handlerTime |-> 1,
     clockSkew |-> 2, maxEngines |-> 3, none |-> nil, slots |-> {"a"},
     maxVersion |-> 0, maxRevision |-> 1, maxNow |-> 2, gated |-> {"gated"},
     refused |-> {"gated"}, optional |-> {}]
EditDistribution ==
    [workers |-> {w1}, reread |-> {}, maxStale |-> 1, handlerTime |-> 1,
     clockSkew |-> 2, maxEngines |-> 3, none |-> nil, slots |-> {"a"},
     maxVersion |-> 0, maxRevision |-> 2, maxNow |-> 0, gated |-> {"gated"},
     refused |-> {"gated"}, optional |-> {"extra"}]
RereadDistribution ==
    [workers |-> {w1}, reread |-> {"b"}, maxStale |-> 1, handlerTime |-> 1,
     clockSkew |-> 2, maxEngines |-> 3, none |-> nil, slots |-> {"b"},
     maxVersion |-> 1, maxRevision |-> 1, maxNow |-> 0, gated |-> {},
     refused |-> {"late"}, optional |-> {}]

\* NULL is no record of the coordinator's or of a worker's.
ASSUME RecordsApart ==
    \A p \in {ModelDistribution, LeaseDistribution, EditDistribution, RereadDistribution} :
        nil \notin Distribution(p)!Bundles \cup Distribution(p)!Leases \cup Distribution(p)!Saves

MaintenanceCheck(p) ==
    INSTANCE MaintenanceCheck
    WITH Coordinator <- p.coordinator, Worker <- p.worker, Fresh <- p.fresh, Operations
         <- p.operations, Rpc <- p.rpc, Asked <- p.asked, Probes <- p.probes
WorkerReady ==
    [coordinator |-> "c", worker |-> "w", fresh |-> 0,
     operations |-> [c |-> {1, 2}, w |-> {1}], rpc |-> 0, asked |-> {"w"},
     probes |-> {<<"w", "replica">>, <<"w", "policy">>}]
CoordinatorReady ==
    [coordinator |-> "c", worker |-> "w", fresh |-> 0,
     operations |-> [c |-> {1}, w |-> {1}], rpc |-> 0, asked |-> {"c"},
     probes |-> {<<"c", "replica">>, <<"w", "policy">>}]

Components == {"replication", "retries", "quota", "restored", "tightened", "rollover", "euro",
      "projection", "commands", "models", "leases", "edits", "rereads", "readiness",
      "authority"}

\* The chosen component is in its initial state; the variables it does not use
\* hold nothing.
Init ==
    /\ component \in Components
    /\ IF component = "replication" THEN Paired!Init ELSE TRUE
    /\ IF component = "retries" THEN Retries!Init ELSE TRUE
    /\ IF component = "quota" THEN Quota!Init ELSE TRUE
    /\ IF component = "restored" THEN Returned!Init ELSE TRUE
    /\ IF component = "tightened" THEN Tightened!Init ELSE TRUE
    /\ IF component = "rollover" THEN Rollover!Init ELSE TRUE
    /\ IF component = "euro" THEN Euro!Init ELSE TRUE
    /\ IF component = "projection" THEN History!Init ELSE TRUE
    /\ IF component = "commands" THEN Commanding!Init ELSE TRUE
    /\ IF component = "models" THEN Distribution(ModelDistribution)!Init ELSE TRUE
    /\ IF component = "leases" THEN Distribution(LeaseDistribution)!Init ELSE TRUE
    /\ IF component = "edits" THEN Distribution(EditDistribution)!Init ELSE TRUE
    /\ IF component = "rereads" THEN Distribution(RereadDistribution)!Init ELSE TRUE
    /\ IF component = "readiness" THEN MaintenanceCheck(WorkerReady)!Init ELSE TRUE
    /\ IF component = "authority" THEN MaintenanceCheck(CoordinatorReady)!Init ELSE TRUE
    /\ IF component \in {"replication", "retries"} THEN TRUE
       ELSE raw = "idle" /\ linked = "idle" /\ smtp = "idle" /\ planned = "idle" /\
            claimed = "idle" /\ talk = "idle" /\ todo = "idle" /\ urgent = "idle" /\
            sync = "idle" /\ ok = "idle" /\ net = "idle" /\ remote = "idle" /\ blob = "idle" /\
            pfiles = "idle" /\ doubt = "idle" /\ crashes = "idle"
    /\ IF component \in {"replication", "retries", "commands"} THEN TRUE
       ELSE status = "idle" /\ acked = "idle" /\ sent = "idle"
    /\ IF component \in {"replication", "retries", "projection"} THEN TRUE
       ELSE gen = "idle"
    /\ IF component \in {"quota", "restored", "tightened", "rollover", "euro", "models",
        "leases", "edits", "rereads"} THEN TRUE
       ELSE now = "idle" /\ held = "idle"
    /\ IF component \in {"quota", "restored", "tightened", "rollover", "euro"} THEN TRUE
       ELSE limit = "idle" /\ policy = "idle" /\ used = "idle" /\ alloc = "idle" /\
            backup = "idle" /\ wallet = "idle" /\ lease = "idle" /\ spent = "idle" /\
            job = "idle" /\ polls = "idle" /\ high = "idle" /\ metered = "idle" /\
            restored = "idle"
    /\ IF component \in {"quota", "restored", "tightened", "rollover", "euro",
        "projection"} THEN TRUE
       ELSE call = "idle"
    /\ IF component \in {"quota", "restored", "tightened", "rollover", "euro",
        "commands"} THEN TRUE
       ELSE reply = "idle"
    /\ IF component \in {"projection"} THEN TRUE
       ELSE seq = "idle" /\ outbox = "idle" /\ answer = "idle" /\ ver = "idle" /\
            view = "idle" /\ enabled = "idle" /\ edits = "idle"
    /\ IF component \in {"projection", "commands"} THEN TRUE
       ELSE late = "idle"
    /\ IF component \in {"commands"} THEN TRUE
       ELSE shown = "idle" /\ row = "idle" /\ withdrawn = "idle" /\ past = "idle" /\
            receipt = "idle" /\ pc = "idle" /\ queue = "idle" /\ applied = "idle"
    /\ IF component \in {"models", "leases", "edits", "rereads"} THEN TRUE
       ELSE source = "idle" /\ saved = "idle" /\ inForce = "idle" /\ ran = "idle" /\
            active = "idle" /\ loading = "idle" /\ saving = "idle" /\ cache = "idle" /\
            capture = "idle" /\ nodes = "idle" /\ exch = "idle" /\ build = "idle" /\
            disk = "idle" /\ stored = "idle" /\ live = "idle" /\ poll = "idle" /\
            retired = "idle"
    /\ IF component \in {"readiness", "authority"} THEN TRUE
       ELSE central = "idle" /\ unsettled = "idle" /\ proc = "idle" /\ round = "idle" /\
            req = "idle" /\ health = "idle" /\ proved = "idle"

Next ==
    /\ UNCHANGED component
    /\ \/ component = "replication" /\ Paired!Next
       \/ component = "retries" /\ Retries!Next
       \/ component = "quota" /\ Quota!Next
       \/ component = "restored" /\ Returned!Next
       \/ component = "tightened" /\ Tightened!Next
       \/ component = "rollover" /\ Rollover!Next
       \/ component = "euro" /\ Euro!Next
       \/ component = "projection" /\ History!Next
       \/ component = "commands" /\ Commanding!Next
       \/ component = "models" /\ Distribution(ModelDistribution)!Next
       \/ component = "leases" /\ Distribution(LeaseDistribution)!Next
       \/ component = "edits" /\ Distribution(EditDistribution)!Next
       \/ component = "rereads" /\ Distribution(RereadDistribution)!Next
       \/ component = "readiness" /\ MaintenanceCheck(WorkerReady)!Next
       \/ component = "authority" /\ MaintenanceCheck(CoordinatorReady)!Next
    /\ IF component \in {"replication", "retries"} THEN TRUE
       ELSE UNCHANGED <<raw, linked, smtp, planned, claimed, talk, todo, urgent, sync, ok, net,
            remote, blob, pfiles, doubt, crashes>>
    /\ IF component \in {"replication", "retries", "commands"} THEN TRUE
       ELSE UNCHANGED <<status, acked, sent>>
    /\ IF component \in {"replication", "retries", "projection"} THEN TRUE
       ELSE UNCHANGED <<gen>>
    /\ IF component \in {"quota", "restored", "tightened", "rollover", "euro", "models",
        "leases", "edits", "rereads"} THEN TRUE
       ELSE UNCHANGED <<now, held>>
    /\ IF component \in {"quota", "restored", "tightened", "rollover", "euro"} THEN TRUE
       ELSE UNCHANGED <<limit, policy, used, alloc, backup, wallet, lease, spent, job, polls, high,
            metered, restored>>
    /\ IF component \in {"quota", "restored", "tightened", "rollover", "euro",
        "projection"} THEN TRUE
       ELSE UNCHANGED <<call>>
    /\ IF component \in {"quota", "restored", "tightened", "rollover", "euro",
        "commands"} THEN TRUE
       ELSE UNCHANGED <<reply>>
    /\ IF component \in {"projection"} THEN TRUE
       ELSE UNCHANGED <<seq, outbox, answer, ver, view, enabled, edits>>
    /\ IF component \in {"projection", "commands"} THEN TRUE
       ELSE UNCHANGED <<late>>
    /\ IF component \in {"commands"} THEN TRUE
       ELSE UNCHANGED <<shown, row, withdrawn, past, receipt, pc, queue, applied>>
    /\ IF component \in {"models", "leases", "edits", "rereads"} THEN TRUE
       ELSE UNCHANGED <<source, saved, inForce, ran, active, loading, saving, cache, capture, nodes,
            exch, build, disk, stored, live, poll, retired>>
    /\ IF component \in {"readiness", "authority"} THEN TRUE
       ELSE UNCHANGED <<central, unsettled, proc, round, req, health, proved>>

Spec == Init /\ [][Next]_vars

-----------------------------------------------------------------------------
ReplicationInv ==
    /\ component = "replication" =>
        /\ Paired!TypeOK
        /\ Paired!AcceptedRestorable
        /\ Paired!JournalComplete
        /\ Paired!NoBlindResend
        /\ Paired!NoticeSurvives
        /\ Paired!RetiredIsResolved
    /\ component = "retries" =>
        /\ Retries!TypeOK
        /\ Retries!AcceptedRestorable
        /\ Retries!JournalComplete
        /\ Retries!NoBlindResend
        /\ Retries!NoticeSurvives
        /\ Retries!RetiredIsResolved

ReplicationStep ==
    /\ component = "replication" => Paired!MonotoneStep
    /\ component = "retries" => Retries!MonotoneStep

\* The types, and: the peer never acknowledges a generation the journal lacks.
\* If the owner is lost now, every recipient of accepted mail that still needs
\* work, and every DSN that was ever acknowledged, is restored with its body.
\* The restore can read every body its journal names.
\* While an upstream conversation is open the peer knows the delivery as being
\* sent; a restore never sends again, nor bounces, what the owner got delivered.
\* A failure's report survives the owner: its DSN is in the journal, or the
\* failure itself comes back for review.
\* A message the owner has retired is not wanted back by the peer's journal.
\* The peer never steps back to an older generation and never takes up again a
\* body it retired.
ReplicationSafe == []ReplicationInv /\ [][ReplicationStep]_vars

BudgetInv ==
    /\ component = "quota" =>
        /\ Quota!TypeOK
        /\ Quota!ClusterWithinLimit
        /\ Quota!WorkersWithinLimit
        /\ Quota!OneChunkInFlight
    /\ component = "restored" =>
        /\ Returned!TypeOK
        /\ Returned!ClusterWithinLimit
        /\ Returned!WorkersWithinLimit
        /\ Returned!OneChunkInFlight
    /\ component = "tightened" =>
        /\ Tightened!TypeOK
        /\ Tightened!ClusterWithinLimit
        /\ Tightened!WorkersWithinLimit
        /\ Tightened!OneChunkInFlight
    /\ component = "rollover" =>
        /\ Rollover!TypeOK
        /\ Rollover!ClusterWithinLimit
        /\ Rollover!WorkersWithinLimit
        /\ Rollover!OneChunkInFlight
    /\ component = "euro" =>
        /\ Euro!TypeOK
        /\ Euro!ClusterWithinLimit
        /\ Euro!WorkersWithinLimit
        /\ Euro!OneChunkInFlight

BudgetStep ==
    /\ component = "quota" => Quota!SpendStep
    /\ component = "restored" => Returned!SpendStep
    /\ component = "tightened" => Tightened!SpendStep
    /\ component = "rollover" => Rollover!SpendStep
    /\ component = "euro" => Euro!SpendStep

\* The state of the program is well formed; a wallet is never asked for twice at once.
\* Until the authority is lost, what all nodes together reserve under a limit in
\* one window stays within the highest limit that window had, whatever replies
\* are lost, repeated or late, and whichever policy each worker still runs.
\* The workers alone never exceed it, even after the authority came back from an
\* old checkpoint that has forgotten credits: the hold issues none of them again.
\* A reply that is lost or repeated strands at most one increment: the authority
\* never issues a second credit before the worker has reported the first.
\* A worker whose policy has a limit has spent no more than that limit unless it
\* spent under an earlier policy: a step that spends obeys the policy of its node.
BudgetSafe == []BudgetInv /\ [][BudgetStep]_vars

\* Every variable keeps its shape; a receipt answers the batch the node waits for.
\* When the outbox no longer holds a message, central management shows exactly
\* its latest state: no receipt, lost, late or repeated, hides a change.
\* The same for the transcripts of messages the node still has.
\* Nothing of a deleted message is ever shown again, whatever batch arrives late.
\* A batch is refused only by a revocation: no legal order of changes, exports
\* and late commits makes central management reject the node's entries forever.
ProjectionSafe ==
    /\ component = "projection" =>
        /\ History!TypeOK
        /\ History!NoChangeLost
        /\ History!NoTranscriptLost
        /\ History!DeletedStaysDeleted
        /\ History!NeverRefused

RemoteCommandsInv ==
    /\ component = "commands" =>
        /\ Commanding!TypeOK
        /\ Commanding!DecidedOnce
        /\ Commanding!ResultTruthful
        /\ Commanding!NeverContradicts

RemoteCommandsStep ==
    /\ component = "commands" => Commanding!SendStep

\* Every variable keeps its shape; what the node works on is a reply to a poll.
\* A message is released or deleted at most once, whatever was asked for on a
\* stale view, sent twice, or executed after central management gave it up.
\* What is recorded is what happened: on the node "done" says exactly that the
\* queue changed, central management only records executions, a confirmed
\* receipt is recorded there, and only expiry and revocation are overtaken.
\* No poll is refused: a node's receipts never contradict what central
\* management recorded, so they cannot block its later commands.
\* A command whose author lost the right before it was ever dispatched never
\* reaches the node.
RemoteCommandsSafe == []RemoteCommandsInv /\ [][RemoteCommandsStep]_vars

\* The console, the publication and each worker keep records of the right kind; an
\* engine is only built while a generation is free (capacity.rs).
\* Every model set a worker runs is one a coordinator engine was built from, as a
\* whole: never a mix of files of before and after a replacement.
\* A worker that stored a bundle can start from it after any crash: all its files are
\* there, whatever was downloaded or pruned since.
\* A worker that accepts mail applies the policy in force, or one that was replaced
\* at most a lease (and, through v2, the time of one exchange) ago.
\* No edit is lost: each revision was made from the one before it, and the policy in
\* force is the last one saved.
\* An older build never stores a policy it cannot read.
DistributionSafe ==
    /\ component = "models" =>
        /\ Distribution(ModelDistribution)!TypeOK
        /\ Distribution(ModelDistribution)!OneModelSet
        /\ Distribution(ModelDistribution)!Restartable
        /\ Distribution(ModelDistribution)!StalenessBounded
        /\ Distribution(ModelDistribution)!NoLostEdit
        /\ Distribution(ModelDistribution)!OnlyReadablePolicies
    /\ component = "leases" =>
        /\ Distribution(LeaseDistribution)!TypeOK
        /\ Distribution(LeaseDistribution)!OneModelSet
        /\ Distribution(LeaseDistribution)!Restartable
        /\ Distribution(LeaseDistribution)!StalenessBounded
        /\ Distribution(LeaseDistribution)!NoLostEdit
        /\ Distribution(LeaseDistribution)!OnlyReadablePolicies
    /\ component = "edits" =>
        /\ Distribution(EditDistribution)!TypeOK
        /\ Distribution(EditDistribution)!OneModelSet
        /\ Distribution(EditDistribution)!Restartable
        /\ Distribution(EditDistribution)!StalenessBounded
        /\ Distribution(EditDistribution)!NoLostEdit
        /\ Distribution(EditDistribution)!OnlyReadablePolicies
    /\ component = "rereads" =>
        /\ Distribution(RereadDistribution)!TypeOK
        /\ Distribution(RereadDistribution)!OneModelSet
        /\ Distribution(RereadDistribution)!Restartable
        /\ Distribution(RereadDistribution)!StalenessBounded
        /\ Distribution(RereadDistribution)!NoLostEdit
        /\ Distribution(RereadDistribution)!OnlyReadablePolicies

\* A node that says it is ready has had its peer check itself, for the same
\* operation, no longer ago than an observation counts plus one request -
\* whatever arrived late, failed or was restarted in between.
\* ... and the authority's settled policy was the planned one no longer ago than
\* that; for the coordinator, no longer ago than its own answer takes.
\* A worker whose last round failed has nothing left of the rounds before.
MaintenanceCheckSafe ==
    /\ component = "readiness" =>
        /\ MaintenanceCheck(WorkerReady)!ReadyMeansPeerReady
        /\ MaintenanceCheck(WorkerReady)!ReadyMeansPolicySettled
        /\ MaintenanceCheck(WorkerReady)!FailureClearsBoth
    /\ component = "authority" =>
        /\ MaintenanceCheck(CoordinatorReady)!ReadyMeansPeerReady
        /\ MaintenanceCheck(CoordinatorReady)!ReadyMeansPolicySettled
        /\ MaintenanceCheck(CoordinatorReady)!FailureClearsBoth

\* What a worker fetches and installs, and what a validated pair may claim of
\* it: both of the above.
PublicationSafe == DistributionSafe /\ MaintenanceCheckSafe

=============================================================================
