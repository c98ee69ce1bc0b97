----------------------------- MODULE MailQueue -----------------------------
(***************************************************************************)
(* The durable mail queue of one NoiseFence node: a SQLite journal         *)
(* (messages, deliveries, delivery_policy) beside a spool directory that   *)
(* holds one body per message (src/store.rs), the relay worker that claims *)
(* deliveries, talks to the upstream hosts, reports failures and cleans up *)
(* (src/relay.rs), and the quarantine commands (src/quarantine.rs).        *)
(*                                                                         *)
(* SMTP sessions, relay jobs, the relay worker, console users and the      *)
(* clock interleave.  The process may die between any two steps; the       *)
(* journal and the spool survive, everything else is lost.                 *)
(***************************************************************************)
EXTENDS Naturals, FiniteSets

CONSTANTS
    Mail,         \* identifiers of the queued variants of accepted messages
    Rcpt,         \* envelope recipients
    Envelope,     \* the (variant, recipient) pairs
    Batches,      \* SMTP transactions: the sets of variants accepted together
    NullSender,   \* variants whose reverse path is empty
    Hostile,      \* variants whose scan satisfies backscatter::suppression_reason
    Workers,      \* config.relay.workers
    Hosts,        \* upstream hosts of a route
    NoticeLimit,  \* failures one notification sweep lists (100 in the code)
    Replicated,   \* TRUE if a claim must first reach a replica
    MaxCrashes    \* bound: how often the process may die

Notice(d) == <<"dsn", d>>            \* identifier of the DSN about delivery d
Notices   == {Notice(d) : d \in Envelope}
Ids       == Mail \cup Notices
Reply(d)  == <<Notice(d), "sender">> \* the one delivery of that DSN
Deliveries == Envelope \cup {Reply(d) : d \in Envelope}
DeliveriesOf(m) == {d \in Deliveries : d[1] = m}

ASSUME EnvelopeAssumption ==
    /\ Envelope \subseteq Mail \X Rcpt
    /\ "sender" \notin Rcpt
    /\ Mail \cap Notices = {}
ASSUME BatchAssumption ==
    /\ Batches \subseteq SUBSET Mail
    /\ \A a, b \in Batches : a # b => a \cap b = {}
ASSUME SenderAssumption == NullSender \subseteq Mail /\ Hostile \subseteq Mail
ASSUME BoundAssumption ==
    /\ Workers \in Nat \ {0} /\ Hosts \in Nat \ {0} /\ NoticeLimit \in Nat \ {0}
    /\ MaxCrashes \in Nat
    /\ Replicated \in BOOLEAN

VARIABLES
    files,    \* spool/<id>.eml present on disk (durable)
    raw,      \* messages.raw_present = 1 (durable)
    status,   \* deliveries.status, "none" without a row (durable)
    linked,   \* deliveries.dsn_id was set (durable; kept after a purge, as history)
    hold,     \* delivery_policy.held_until: "none", in the "future", "past"
    aged,     \* older than relay.max_queue_age_seconds
    content,  \* failed deliveries whose last trace is the content rejection
    ham,      \* messages a recipient marked legitimate (feedback.spam = 0)
    smtp,     \* what an SMTP transaction has reached
    mode,     \* the process: down, recovering, running, refused to start
    phase,    \* where the relay worker's loop stands
    bounces,  \* failed jobs listed by this notification sweep
    sweep,    \* resolved messages listed by this cleanup
    job,      \* stage of the relay job of a delivery
    tried,    \* upstream hosts this job has contacted
    copies,   \* history: copies the upstream has taken: 0, 1, 2 = several
    doubt,    \* history: an acceptance the queue never got to record
    crashes   \* history: process deaths so far

durable  == <<files, raw, status, linked, hold>>
clock    == <<aged>>
evidence == <<content, ham>>
worker   == <<phase, bounces, sweep>>
relay    == <<job, tried>>
history  == <<copies, doubt, crashes>>
vars == <<durable, clock, evidence, smtp, mode, worker, relay, history>>

Live     == {"pending", "sending", "failed", "quarantined"}
Terminal == {"delivered", "notified", "dsn_suppressed", "discarded", "expired"}
Status   == {"none"} \cup Live \cup Terminal
Stages   == {"idle", "claimed", "running", "contact",
             "delivered", "refused", "content", "deferred"}
Phases   == {"claim", "sync", "notify", "expire", "list", "sweep", "purge"}

\* The type of each variable: the statuses are those store.rs writes, and the
\* stages those of a job in relay.rs.
TypeOK ==
    /\ files \subseteq Ids
    /\ raw \subseteq Ids
    /\ status \in [Deliveries -> Status]
    /\ linked \subseteq Envelope
    /\ hold \in [Deliveries -> {"none", "future", "past"}]
    /\ aged \subseteq Deliveries
    /\ content \subseteq Deliveries
    /\ ham \subseteq Mail
    /\ smtp \in [Batches -> {"idle", "writing", "accepted", "refused", "lost"}]
    /\ mode \in {"down", "recovering", "running", "refused"}
    /\ phase \in Phases
    /\ bounces \subseteq Deliveries
    /\ sweep \subseteq Ids
    /\ job \in [Deliveries -> Stages]
    /\ tried \in [Deliveries -> 0..Hosts]
    /\ copies \in [Deliveries -> 0..2]
    /\ doubt \subseteq Deliveries
    /\ crashes \in 0..MaxCrashes

\* Mutant: cleanup overlooks failed deliveries whose sender was not told yet.
ResolvedDespiteFailed(m) ==
    \A d \in DeliveriesOf(m) : status[d] \notin Live \ {"failed"}

Resolved(m) == \A d \in DeliveriesOf(m) : status[d] \notin Live

Init ==
    /\ files = {} /\ raw = {} /\ linked = {}
    /\ status = [d \in Deliveries |-> "none"]
    /\ hold = [d \in Deliveries |-> "none"]
    /\ aged = {} /\ content = {} /\ ham = {}
    /\ smtp = [b \in Batches |-> "idle"]
    /\ mode = "running"
    /\ phase = "claim" /\ bounces = {} /\ sweep = {}
    /\ job = [d \in Deliveries |-> "idle"]
    /\ tried = [d \in Deliveries |-> 0]
    /\ copies = [d \in Deliveries |-> 0]
    /\ doubt = {} /\ crashes = 0

-----------------------------------------------------------------------------
(* SMTP acceptance: Store::enqueue_variants_with_reserve                    *)

BeginEnqueue(b) ==
    /\ mode = "running" /\ smtp[b] = "idle"
    /\ smtp' = [smtp EXCEPT ![b] = "writing"]
    /\ UNCHANGED <<durable, clock, evidence, mode, worker, relay, history>>

\* Mutant: each variant gets its own transaction.
WriteBodyAndRow(b, m) ==
    /\ mode = "running" /\ smtp[b] = "writing"
    /\ m \in b \ files
    /\ files' = files \cup {m}
    /\ raw' = raw \cup {m}
    /\ status' = [d \in Deliveries |-> IF d[1] = m THEN "pending" ELSE status[d]]
    /\ UNCHANGED <<linked, hold, clock, evidence, smtp, mode, worker, relay,
                   history>>

\* One variant's body: create_new, write, sync_all.
WriteBody(b, m) ==
    /\ mode = "running" /\ smtp[b] = "writing"
    /\ m \in b \ files
    /\ files' = files \cup {m}
    /\ UNCHANGED <<raw, status, linked, hold, clock, evidence, smtp, mode,
                   worker, relay, history>>

\* The transaction that makes every variant and recipient of the batch visible
\* at once; the recipients in held are quarantined by their policy.
CommitBatch(b, held) ==
    /\ mode = "running" /\ smtp[b] = "writing"
    /\ b \subseteq files
    /\ raw' = raw \cup b
    /\ status' = [d \in Deliveries |->
                    IF d[1] \notin b THEN status[d]
                    ELSE IF d \in held THEN "quarantined" ELSE "pending"]
    /\ hold' = [d \in Deliveries |-> IF d \in held THEN "future" ELSE hold[d]]
    /\ smtp' = [smtp EXCEPT ![b] = "accepted"]
    /\ UNCHANGED <<files, linked, clock, evidence, mode, worker, relay, history>>

\* A failure before the commit removes what this batch wrote; the client is told
\* to retry.
FailBatch(b) ==
    /\ mode = "running" /\ smtp[b] = "writing"
    /\ files' = files \ b
    /\ smtp' = [smtp EXCEPT ![b] = "refused"]
    /\ UNCHANGED <<raw, status, linked, hold, clock, evidence, mode, worker,
                   relay, history>>

-----------------------------------------------------------------------------
(* Relay: Store::claim, run_job, deliver_with_timeout, Store::finish        *)

Spawned == {d \in Deliveries : job[d] \notin {"idle", "claimed"}}

Claim(d) ==
    /\ mode = "running" /\ phase = "claim"
    /\ Cardinality(Spawned) < Workers
    /\ status[d] = "pending"
    /\ status' = [status EXCEPT ![d] = "sending"]
    /\ job' = [job EXCEPT ![d] = "claimed"]
    /\ phase' = "sync"
    /\ UNCHANGED <<files, raw, linked, hold, clock, evidence, smtp, mode,
                   bounces, sweep, tried, history>>

\* synchronize_message succeeded (at once when no replica is configured).
Spawn(d) ==
    /\ mode = "running" /\ phase = "sync" /\ job[d] = "claimed"
    /\ job' = [job EXCEPT ![d] = "running"]
    /\ phase' = "claim"
    /\ UNCHANGED <<durable, clock, evidence, smtp, mode, bounces, sweep, tried,
                   history>>

\* synchronize_message failed: the claim goes back to the queue.
SyncFails(d) ==
    /\ Replicated
    /\ mode = "running" /\ phase = "sync" /\ job[d] = "claimed"
    /\ status' = [status EXCEPT ![d] = "pending"]
    /\ job' = [job EXCEPT ![d] = "idle"]
    /\ phase' = "claim"
    /\ UNCHANGED <<files, raw, linked, hold, clock, evidence, smtp, mode,
                   bounces, sweep, tried, history>>

\* run_job: the delivery has outlived max_queue_age_seconds; no trace is kept.
ExpireJob(d) ==
    /\ mode = "running" /\ job[d] = "running" /\ d \in aged
    /\ status' = [status EXCEPT ![d] = "failed"]
    /\ content' = content \ {d}
    /\ job' = [job EXCEPT ![d] = "idle"]
    /\ UNCHANGED <<files, raw, linked, hold, clock, ham, smtp, mode, worker,
                   tried, history>>

\* run_job reads the body, then deliver_with_timeout opens the first host.
Contact(d) ==
    /\ mode = "running" /\ job[d] = "running" /\ d \notin aged
    /\ d[1] \in files
    /\ job' = [job EXCEPT ![d] = "contact"]
    /\ tried' = [tried EXCEPT ![d] = 1]
    /\ UNCHANGED <<durable, clock, evidence, smtp, mode, worker, history>>

OneMore(n) == IF n = 0 THEN 1 ELSE 2

\* Mutant: a failure after the final 250 is taken for a failed attempt.
HostAcceptsQuitFails(d) ==
    /\ mode = "running" /\ job[d] = "contact"
    /\ copies' = [copies EXCEPT ![d] = OneMore(@)]
    /\ job' = [job EXCEPT ![d] = "deferred"]
    /\ UNCHANGED <<durable, clock, evidence, smtp, mode, worker, tried, doubt,
                   crashes>>

\* The 250 after DATA was read: delivered, whatever happens to QUIT.
HostAccepts(d) ==
    /\ mode = "running" /\ job[d] = "contact"
    /\ copies' = [copies EXCEPT ![d] = OneMore(@)]
    /\ job' = [job EXCEPT ![d] = "delivered"]
    /\ UNCHANGED <<durable, clock, evidence, smtp, mode, worker, tried, doubt,
                   crashes>>

\* A 5xx reply ends the attempt; "content" is the filter's 5.7.1 after DATA.
HostRefuses(d, kind) ==
    /\ mode = "running" /\ job[d] = "contact"
    /\ job' = [job EXCEPT ![d] = kind]
    /\ UNCHANGED <<durable, clock, evidence, smtp, mode, worker, tried, history>>

NextHost(d) ==
    IF tried[d] < Hosts
    THEN tried' = [tried EXCEPT ![d] = @ + 1] /\ UNCHANGED job
    ELSE job' = [job EXCEPT ![d] = "deferred"] /\ UNCHANGED tried

\* A 4xx reply, an I/O error or a timeout before the final reply.
HostDefers(d) ==
    /\ mode = "running" /\ job[d] = "contact"
    /\ NextHost(d)
    /\ UNCHANGED <<durable, clock, evidence, smtp, mode, worker, history>>

\* The host took the message but its final reply never arrived.
ReplyLost(d) ==
    /\ mode = "running" /\ job[d] = "contact"
    /\ copies' = [copies EXCEPT ![d] = OneMore(@)]
    /\ doubt' = doubt \cup {d}
    /\ NextHost(d)
    /\ UNCHANGED <<durable, clock, evidence, smtp, mode, worker, crashes>>

\* Mutant: the outcome's name is stored in place of the delivery's state.
FinishWithOutcome(d) ==
    /\ mode = "running"
    /\ job[d] \in {"delivered", "refused", "content", "deferred"}
    /\ status' = [status EXCEPT ![d] = job[d]]
    /\ job' = [job EXCEPT ![d] = "idle"]
    /\ tried' = [tried EXCEPT ![d] = 0]
    /\ UNCHANGED <<files, raw, linked, hold, clock, evidence, smtp, mode, worker,
                   history>>

\* finish_with_attempts: the outcome and its transcript commit together.
Finish(d) ==
    /\ mode = "running"
    /\ job[d] \in {"delivered", "refused", "content", "deferred"}
    /\ status' = [status EXCEPT ![d] =
                    IF job[d] = "delivered" THEN "delivered"
                    ELSE IF job[d] = "deferred" THEN "pending" ELSE "failed"]
    /\ content' = IF job[d] = "content" THEN content \cup {d} ELSE content \ {d}
    /\ job' = [job EXCEPT ![d] = "idle"]
    /\ tried' = [tried EXCEPT ![d] = 0]
    /\ UNCHANGED <<files, raw, linked, hold, clock, ham, smtp, mode, worker,
                   history>>

-----------------------------------------------------------------------------
(* Failure reports: relay::notifications                                    *)

\* failed: the failures nobody was told of, all of them or NoticeLimit of them.
Unreported == {d \in Deliveries : status[d] = "failed" /\ d \notin linked}

BeginNotify(list) ==
    /\ mode = "running" /\ phase = "claim"
    /\ list = Unreported \/ Cardinality(list) = NoticeLimit
    /\ Cardinality(list) <= NoticeLimit
    /\ phase' = "notify" /\ bounces' = list
    /\ UNCHANGED <<durable, clock, evidence, smtp, mode, sweep, relay, history>>

Sweeping(d) == mode = "running" /\ phase = "notify" /\ d \in bounces

\* job.is_dsn or an empty reverse path: finish without a DSN.
NoSender(d) == d[1] \in Notices \cup NullSender

\* enqueue_dsn and suppress_hostile_dsn re-read the row in their transaction.
Eligible(d) == ~NoSender(d) /\ status[d] = "failed" /\ d \notin linked

\* suppress_hostile_dsn's decision, from the scan, the trace and the feedback.
Suppressible(d) ==
    Eligible(d) /\ d \in content /\ d[1] \in Hostile /\ d[1] \notin ham

FinishNotified(d) ==
    /\ status' = [status EXCEPT ![d] = "notified"]
    /\ bounces' = bounces \ {d}
    /\ UNCHANGED <<files, raw, linked, hold, clock, evidence, smtp, mode, phase,
                   sweep, relay, history>>

NotifyNobody(d) == Sweeping(d) /\ NoSender(d) /\ FinishNotified(d)

\* The sender's domain publishes a null MX.
NotifyNullMx(d) ==
    Sweeping(d) /\ ~NoSender(d) /\ ~Suppressible(d) /\ FinishNotified(d)

Suppress(d) ==
    /\ Sweeping(d) /\ Suppressible(d)
    /\ status' = [status EXCEPT ![d] = "dsn_suppressed"]
    /\ bounces' = bounces \ {d}
    /\ UNCHANGED <<files, raw, linked, hold, clock, evidence, smtp, mode, phase,
                   sweep, relay, history>>

\* The MX lookup failed: the failure waits for a later sweep.
LookupFails(d) ==
    /\ Sweeping(d) /\ ~NoSender(d) /\ ~Suppressible(d)
    /\ bounces' = bounces \ {d}
    /\ UNCHANGED <<durable, clock, evidence, smtp, mode, phase, sweep, relay,
                   history>>

\* Mutant: the DSN commits before, and apart from, the link to it.
EnqueueDsnUnlinked(d) ==
    /\ Sweeping(d) /\ Eligible(d) /\ ~Suppressible(d)
    /\ files' = files \cup {Notice(d)}
    /\ raw' = raw \cup {Notice(d)}
    /\ status' = [status EXCEPT ![Reply(d)] = "pending"]
    /\ bounces' = bounces \ {d}
    /\ UNCHANGED <<linked, hold, clock, evidence, smtp, mode, phase, sweep, relay,
                   history>>

\* One transaction: the DSN's row and delivery, and the link from the failure.
\* Its body was synced to the spool just before.
EnqueueDsn(d) ==
    /\ Sweeping(d) /\ Eligible(d) /\ ~Suppressible(d)
    /\ files' = files \cup {Notice(d)}
    /\ raw' = raw \cup {Notice(d)}
    /\ status' = [status EXCEPT ![d] = "notified", ![Reply(d)] = "pending"]
    /\ linked' = linked \cup {d}
    /\ bounces' = bounces \ {d}
    /\ UNCHANGED <<hold, clock, evidence, smtp, mode, phase, sweep, relay,
                   history>>

-----------------------------------------------------------------------------
(* Store::cleanup                                                           *)

EndNotify ==
    /\ mode = "running" /\ phase = "notify" /\ bounces = {}
    /\ phase' = "expire"
    /\ UNCHANGED <<durable, clock, evidence, smtp, mode, bounces, sweep, relay,
                   history>>

\* Mutant: the expiry forgets to look at the delivery's state.
ExpireHoldsOfAnyState ==
    /\ mode = "running" /\ phase = "expire"
    /\ status' = [d \in Deliveries |->
                    IF hold[d] = "past" THEN "expired" ELSE status[d]]
    /\ phase' = "list"
    /\ UNCHANGED <<files, raw, linked, hold, clock, evidence, smtp, mode,
                   bounces, sweep, relay, history>>

ExpireHolds ==
    /\ mode = "running" /\ phase = "expire"
    /\ status' = [d \in Deliveries |->
                    IF status[d] = "quarantined" /\ hold[d] = "past"
                    THEN "expired" ELSE status[d]]
    /\ phase' = "list"
    /\ UNCHANGED <<files, raw, linked, hold, clock, evidence, smtp, mode,
                   bounces, sweep, relay, history>>

\* Mutant: only delivered mail is swept.
ListDelivered(behind) ==
    /\ mode = "running" /\ phase = "list"
    /\ sweep' = {m \in raw : \A d \in DeliveriesOf(m) : status[d] = "delivered"}
    /\ phase' = "sweep"
    /\ UNCHANGED <<durable, clock, evidence, smtp, mode, bounces, relay, history>>

\* Resolved messages, except those the replica has yet to hear of (behind).
ListResolved(behind) ==
    /\ mode = "running" /\ phase = "list"
    /\ behind # {} => Replicated
    /\ sweep' = {m \in raw \ behind : Resolved(m)}
    /\ phase' = "sweep"
    /\ UNCHANGED <<durable, clock, evidence, smtp, mode, bounces, relay, history>>

\* Mutant: the body goes before the tombstone commits.
UnlinkFirst(m) ==
    /\ mode = "running" /\ phase = "sweep" /\ m \in sweep \cap raw
    /\ files' = files \ {m}
    /\ UNCHANGED <<raw, status, linked, hold, clock, evidence, smtp, mode,
                   worker, relay, history>>

\* The tombstone commits first; the unlink follows.
Tombstone(m) ==
    /\ mode = "running" /\ phase = "sweep" /\ m \in sweep \cap raw
    /\ raw' = raw \ {m}
    /\ UNCHANGED <<files, status, linked, hold, clock, evidence, smtp, mode,
                   worker, relay, history>>

RemoveBody(m) ==
    /\ mode = "running" /\ phase = "sweep" /\ m \in sweep \ raw
    /\ files' = files \ {m}
    /\ sweep' = sweep \ {m}
    /\ UNCHANGED <<raw, status, linked, hold, clock, evidence, smtp, mode,
                   phase, bounces, relay, history>>

EndSweep ==
    /\ mode = "running" /\ phase = "sweep" /\ sweep = {}
    /\ phase' = "purge"
    /\ UNCHANGED <<durable, clock, evidence, smtp, mode, bounces, sweep, relay,
                   history>>

\* Metadata older than 30 days without a body is deleted with its deliveries;
\* old is whatever the clock says is that old.
Purge(old) ==
    /\ mode = "running" /\ phase = "purge"
    /\ old \cap raw = {}
    /\ status' = [d \in Deliveries |-> IF d[1] \in old THEN "none" ELSE status[d]]
    /\ phase' = "claim"
    /\ UNCHANGED <<files, raw, linked, hold, clock, evidence, smtp, mode,
                   bounces, sweep, relay, history>>

-----------------------------------------------------------------------------
(* Console users and the clock                                              *)

MayAct(d) ==
    /\ mode = "running"
    /\ status[d] = "quarantined" /\ d[1] \in raw /\ hold[d] = "future"

\* quarantine_action(Release): a new retry period starts with released_at.
Release(d) ==
    /\ MayAct(d)
    /\ status' = [status EXCEPT ![d] = "pending"]
    /\ aged' = aged \ {d}
    /\ UNCHANGED <<files, raw, linked, hold, evidence, smtp, mode, worker,
                   relay, history>>

\* quarantine_action(Delete)
Discard(d) ==
    /\ MayAct(d)
    /\ status' = [status EXCEPT ![d] = "discarded"]
    /\ UNCHANGED <<files, raw, linked, hold, clock, evidence, smtp, mode,
                   worker, relay, history>>

\* A recipient marks the message legitimate, or takes that back, at any time
\* (the queue reads it only for hostile mail).
Feedback(m, legitimate) ==
    /\ mode = "running" /\ \E d \in DeliveriesOf(m) : status[d] # "none"
    /\ ham' = IF legitimate THEN ham \cup {m} ELSE ham \ {m}
    /\ UNCHANGED <<durable, clock, content, smtp, mode, worker, relay, history>>

HoldPasses(d) ==
    /\ hold[d] = "future"
    /\ hold' = [hold EXCEPT ![d] = "past"]
    /\ UNCHANGED <<files, raw, status, linked, clock, evidence, smtp, mode,
                   worker, relay, history>>

\* The age of a delivery is read only by run_job, so it only matters here.
Age(d) ==
    /\ status[d] \in {"pending", "sending"} /\ d \notin aged
    /\ aged' = aged \cup {d}
    /\ UNCHANGED <<durable, evidence, smtp, mode, worker, relay, history>>

-----------------------------------------------------------------------------
(* Process death and Store::recover                                         *)

Die ==
    /\ mode \in {"recovering", "running"} /\ crashes < MaxCrashes
    /\ mode' = "down"
    /\ smtp' = [b \in Batches |-> IF smtp[b] = "writing" THEN "lost" ELSE smtp[b]]
    /\ phase' = "claim" /\ bounces' = {} /\ sweep' = {}
    /\ job' = [d \in Deliveries |-> "idle"]
    /\ tried' = [d \in Deliveries |-> 0]
    /\ doubt' = doubt \cup {d \in Deliveries : job[d] = "delivered"}
    /\ crashes' = crashes + 1
    /\ UNCHANGED <<raw, status, linked, hold, clock, evidence, copies>>

Crash == Die /\ UNCHANGED files

\* Death (or an SQL error, which ends the worker) inside enqueue_dsn, between
\* the DSN's body and its commit.
CrashInDsn(d) ==
    /\ Sweeping(d) /\ Eligible(d) /\ ~Suppressible(d)
    /\ files' = files \cup {Notice(d)}
    /\ Die

\* Mutant: recovery leaves the dead process's claims as they are.
RecoverNoClaims ==
    /\ mode = "down"
    /\ mode' = "recovering"
    /\ UNCHANGED <<durable, clock, evidence, smtp, worker, relay, history>>

\* recover, first transaction: claims of the dead process are pending again.
RecoverClaims ==
    /\ mode = "down"
    /\ mode' = "recovering"
    /\ status' = [d \in Deliveries |->
                    IF status[d] = "sending" THEN "pending" ELSE status[d]]
    /\ UNCHANGED <<files, raw, linked, hold, clock, evidence, smtp, worker,
                   relay, history>>

\* recover, then: refuse to serve if a body is missing, else drop the orphans.
RecoverSpool ==
    /\ mode = "recovering"
    /\ mode' = IF raw \subseteq files THEN "running" ELSE "refused"
    /\ files' = IF raw \subseteq files THEN files \cap raw ELSE files
    /\ UNCHANGED <<raw, status, linked, hold, clock, evidence, smtp, worker,
                   relay, history>>

-----------------------------------------------------------------------------
Enqueue ==
    \E b \in Batches :
        \/ BeginEnqueue(b)
        \/ \E m \in b : WriteBody(b, m)
        \/ \E held \in SUBSET {d \in Envelope : d[1] \in b} : CommitBatch(b, held)
        \/ FailBatch(b)

Relay(d) ==
    \/ Claim(d) \/ Spawn(d) \/ SyncFails(d) \/ ExpireJob(d) \/ Contact(d)
    \/ HostAccepts(d) \/ \E kind \in {"refused", "content"} : HostRefuses(d, kind)
    \/ HostDefers(d) \/ ReplyLost(d) \/ Finish(d)

Notify(d) ==
    \/ NotifyNobody(d) \/ NotifyNullMx(d) \/ Suppress(d) \/ LookupFails(d)
    \/ (d \in Envelope /\ (EnqueueDsn(d) \/ CrashInDsn(d)))

Housekeeping == \E list \in SUBSET Unreported : BeginNotify(list)

Cleanup ==
    \/ EndNotify \/ ExpireHolds \/ EndSweep
    \/ \E behind \in SUBSET raw : ListResolved(behind)
    \/ \E m \in Ids : Tombstone(m) \/ RemoveBody(m)
    \/ \E old \in SUBSET {m \in Ids : m \notin raw} : Purge(old)

Console(d) == Release(d) \/ Discard(d)
Passage(d) == HoldPasses(d) \/ Age(d)
Restart    == RecoverClaims \/ RecoverSpool

Next ==
    \/ Enqueue \/ Housekeeping \/ Cleanup \/ Crash \/ Restart
    \/ \E d \in Deliveries : Relay(d) \/ Notify(d) \/ Console(d) \/ Passage(d)
    \/ \E m \in Hostile, legitimate \in BOOLEAN : Feedback(m, legitimate)

Spec == Init /\ [][Next]_vars
-----------------------------------------------------------------------------
(* Safety                                                                   *)

\* Every body the journal counts on is on disk: recovery never refuses to serve.
\* (store.rs: recover's "durable queue corruption" check.)
BodyOnDisk == raw \subseteq files /\ mode # "refused"

\* A recipient that still needs work keeps its message's body, through claims,
\* retries, DSNs, cleanups and crashes, so run_job can always read it.
UnresolvedHasBody == \A d \in Deliveries : status[d] \in Live => d[1] \in raw

\* Acceptance is one unit: no recipient of a transaction that was not answered
\* 250 is ever visible to the relay, whatever the transaction left in the spool.
UnacceptedInvisible ==
    \A b \in Batches : smtp[b] # "accepted" =>
        \A d \in Envelope : d[1] \in b => status[d] = "none" /\ copies[d] = 0

\* The queue says delivered only of what the upstream took, and the upstream
\* takes a second copy only after an acceptance the queue could not record.
NoSilentDuplicate ==
    \A d \in Deliveries :
        /\ status[d] = "delivered" => copies[d] > 0
        /\ copies[d] = 2 => d \in doubt

\* A failure is answered by at most one DSN: one exists only for a delivery
\* marked notified by it, and never for a suppressed or a sender-less one.
OneAnswer ==
    \A d \in Envelope :
        /\ status[Reply(d)] # "none" => d \in linked
        /\ d \in linked => status[d] \in {"notified", "none"} /\ ~NoSender(d)

\* A terminal recipient stays what it is until its metadata is purged, and no
\* recipient that needs work is ever forgotten.
NothingForgotten ==
    [][\A d \in Deliveries :
         /\ status[d] \in Terminal => status'[d] \in {status[d], "none"}
         /\ status[d] \in Live => status'[d] # "none"]_vars

-----------------------------------------------------------------------------
(* The strengthening that makes the safety properties inductive             *)

ClaimsHaveJobs ==
    \A d \in Deliveries : job[d] # "idle" => status[d] = "sending" /\ mode = "running"

UnacceptedUntouched ==
    \A b \in Batches : smtp[b] # "accepted" =>
        /\ b \cap raw = {}
        /\ \A d \in Envelope : d[1] \in b => d \notin linked

SweptIsResolved ==
    /\ sweep # {} => phase = "sweep" /\ mode = "running"
    /\ \A m \in sweep :
         /\ Resolved(m)
         /\ \A b \in Batches : m \in b => smtp[b] = "accepted"

\* finish(job, "notified") does not look at the row again: the list must be good.
BouncesStillFailed ==
    /\ bounces # {} => phase = "notify" /\ mode = "running"
    /\ \A d \in bounces : status[d] = "failed" /\ d \notin linked

CopiesAccounted ==
    \A d \in Deliveries :
        /\ job[d] = "delivered" => copies[d] > 0
        /\ copies[d] > 0 /\ d \notin doubt =>
             job[d] = "delivered" \/ status[d] \in {"delivered", "none"}

UnlinkedUnsent == \A d \in Envelope : d \notin linked => copies[Reply(d)] = 0

\* What every step preserves: the safety properties above with the facts about
\* jobs, sweeps and history they rest on.
QueueInv ==
    /\ TypeOK
    /\ BodyOnDisk /\ UnresolvedHasBody /\ UnacceptedInvisible
    /\ ClaimsHaveJobs /\ UnacceptedUntouched /\ SweptIsResolved
    /\ BouncesStillFailed
    /\ NoSilentDuplicate /\ CopiesAccounted
    /\ OneAnswer /\ UnlinkedUnsent

-----------------------------------------------------------------------------
(* Liveness                                                                 *)

\* A spawned job goes on: every host attempt and every job has a timeout.
JobGoesOn(d) ==
    \/ Spawn(d) \/ ExpireJob(d) \/ Contact(d) \/ Finish(d)
    \/ HostAccepts(d) \/ HostDefers(d) \/ ReplyLost(d)
    \/ \E kind \in {"refused", "content"} : HostRefuses(d, kind)

Answered(d) ==
    \/ NotifyNobody(d) \/ NotifyNullMx(d) \/ Suppress(d)
    \/ (d \in Envelope /\ EnqueueDsn(d))

\* A restart follows a crash; jobs and host attempts have timeouts; the clock
\* advances; claim takes the oldest due delivery first, so a pending one gets
\* its turn; the one-second tick reaches housekeeping again and again; DNS
\* answers now and then.
Fairness ==
    /\ WF_vars(Restart) /\ SF_vars(Housekeeping) /\ WF_vars(Cleanup)
    /\ \A d \in Deliveries :
         /\ SF_vars(Claim(d)) /\ WF_vars(JobGoesOn(d)) /\ WF_vars(Passage(d))
         /\ WF_vars(LookupFails(d)) /\ SF_vars(Answered(d))

FairSpec == Spec /\ Fairness

\* Every recipient that needs work is eventually delivered, answered, discarded
\* or expired.
EventuallyResolved ==
    \A d \in Deliveries : status[d] \in Live ~> status[d] \notin Live

\* The body of a resolved message eventually leaves the disk.
BodyReclaimed == \A m \in Ids : (m \in raw /\ Resolved(m)) ~> m \notin files
=============================================================================
