---------------------------- MODULE Replication ----------------------------
(***************************************************************************)
(* Paired replication of the durable queue (src/ha.rs, src/ha/replica.rs,  *)
(* src/api/ha.rs, src/ha-schema.sql).  The owner mirrors every body and    *)
(* every change of a message's deliveries to one peer; the peer keeps an   *)
(* inert journal from which a fenced restore (src/ha/recovery.rs) rebuilds *)
(* the queue after the owner is lost.                                      *)
(*                                                                         *)
(* The owner's queue is MailQueue seen through its journal: one action per *)
(* transaction, with the ha_* triggers that raise the message's            *)
(* generation.  (A trigger fires per row; one step per transaction keeps   *)
(* the same order, which is all the peer compares.)                        *)
(*                                                                         *)
(* Three kinds of callers push copies: the SMTP session of a message       *)
(* (prepare), the relay worker (synchronize_message after a claim) and the *)
(* background loop (synchronize).  Requests may be lost, answered after    *)
(* the caller gave up, or applied late, in any order.                      *)
(***************************************************************************)
EXTENDS Naturals, FiniteSets

CONSTANTS
    Mail,        \* accepted messages
    Rcpt,        \* envelope recipients
    Envelope,    \* (message, recipient) pairs
    ListLimit,   \* ids one pass of synchronize takes (12 in the code)
    MaxGen,      \* bound: no claim is made at this generation
    MaxNet,      \* bound: requests in flight, abandoned ones included
    MaxCrashes   \* bound: owner crashes

Notice(d)  == <<"dsn", d>>
Notices    == {Notice(d) : d \in Envelope}
Ids        == Mail \cup Notices
Reply(d)   == <<Notice(d), "sender">>
Deliveries == Envelope \cup {Reply(d) : d \in Envelope}
Of(m)      == {d \in Deliveries : d[1] = m}

Live     == {"pending", "sending", "failed", "quarantined"}
Terminal == {"delivered", "notified", "discarded"}
Status   == {"none"} \cup Live \cup Terminal

VARIABLES
    \* the owner's journal
    raw,       \* messages.raw_present
    status,    \* deliveries.status
    linked,    \* deliveries.dsn_id is set
    gen,       \* ha_local.generation, 0 without a row
    acked,     \* ha_local.acked
    \* the owner's process
    smtp,      \* SMTP transactions
    planned,   \* recipients the session's policy quarantines
    claimed,   \* the worker's claim that waits for its copy, a set of at most one
    talk,      \* conversation with the upstream about a delivery
    todo,      \* ids left in the background pass
    urgent,    \* those of them that were never acknowledged when listed
    sync,      \* what each of the two synchronizers is sending
    ok,        \* callers whose outstanding request was answered with a receipt
    net,       \* requests on their way
    \* the peer
    remote,    \* ha_remote: the last accepted manifest
    blob,      \* ha_blobs: none, present, retired
    pfiles,    \* replicas/<owner>/<id>.eml
    \* history
    sent,      \* deliveries the upstream has taken
    doubt,     \* deliveries taken without the owner recording it
    crashes

journal == <<raw, status, linked, gen, acked>>
process == <<smtp, planned, claimed, talk, todo, urgent, sync, ok, net>>
peer    == <<remote, blob, pfiles>>
history == <<sent, doubt, crashes>>
vars    == <<journal, process, peer, history>>

NoManifest == [gen |-> 0, confirmed |-> FALSE, body |-> FALSE, known |-> FALSE,
               st |-> <<>>, dsn |-> {}]

\* What export and prepare put into a manifest: generation, whether the owner
\* has committed, whether the body still exists, states and DSN links.
Manifest(m, g, conf, body, st, dsn) ==
    [gen |-> g, confirmed |-> conf, body |-> body, known |-> TRUE,
     st |-> st, dsn |-> dsn]

\* export reads one snapshot of the journal.
Export(m) ==
    Manifest(m, gen[m], TRUE, m \in raw, [d \in Of(m) |-> status[d]], linked \cap Of(m))

\* prepare describes the message before the owner commits it.
Candidate(m, held) ==
    Manifest(m, 0, FALSE, TRUE,
             [d \in Of(m) |-> IF d \in held THEN "quarantined" ELSE "pending"], {})

ResolvedIn(man) == \A d \in DOMAIN man.st : man.st[d] \notin Live
Resolved(m)     == \A d \in Of(m) : status[d] \notin Live

Syncers == {"worker", "loop"}
Idle    == [stage |-> "idle", id |-> <<>>, man |-> NoManifest]
BodyRequest(p, m)      == [proc |-> p, id |-> m, kind |-> "body"]
UpdateRequest(p, m, man) == [proc |-> p, id |-> m, kind |-> "manifest", man |-> man]

Init ==
    /\ raw = {} /\ linked = {}
    /\ status = [d \in Deliveries |-> "none"]
    /\ gen = [m \in Ids |-> 0] /\ acked = [m \in Ids |-> 0]
    /\ smtp = [m \in Mail |-> "idle"]
    /\ planned = {} /\ claimed = {}
    /\ talk = [d \in Deliveries |-> "idle"]
    /\ todo = {} /\ urgent = {}
    /\ sync = [p \in Syncers |-> Idle]
    /\ ok = {} /\ net = {}
    /\ remote = [m \in Ids |-> NoManifest]
    /\ blob = [m \in Ids |-> "none"] /\ pfiles = {}
    /\ sent = {} /\ doubt = {} /\ crashes = 0

\* A caller posts a request; it may reach the peer long after the caller gave up.
Post(r) == Cardinality(net) < MaxNet /\ net' = net \cup {r}

Touch(m)  == gen' = [gen EXCEPT ![m] = @ + 1]
Change(d, s) == status' = [status EXCEPT ![d] = s] /\ Touch(d[1])

-----------------------------------------------------------------------------
(* Acceptance: prepare, then the local commit                               *)

\* prepare: upload the body of the message.
Prepare(m, held) ==
    /\ smtp[m] = "idle"
    /\ smtp' = [smtp EXCEPT ![m] = "body"]
    /\ planned' = planned \cup held
    /\ Post(BodyRequest(m, m))
    /\ UNCHANGED <<journal, claimed, talk, todo, urgent, sync, ok, peer, history>>

\* prepare: the upload was acknowledged; send the unconfirmed manifest.
PrepareManifest(m) ==
    /\ smtp[m] = "body" /\ m \in ok
    /\ smtp' = [smtp EXCEPT ![m] = "manifest"]
    /\ ok' = ok \ {m}
    /\ Post(UpdateRequest(m, m, Candidate(m, planned \cap Of(m))))
    /\ UNCHANGED <<journal, planned, claimed, talk, todo, urgent, sync, peer, history>>

\* The queue transaction; the triggers create ha_local unacknowledged.
Commit(m) ==
    /\ smtp[m] = "manifest" /\ m \in ok
    /\ smtp' = [smtp EXCEPT ![m] = "accepted"]
    /\ ok' = ok \ {m}
    /\ raw' = raw \cup {m}
    /\ status' = [d \in Deliveries |->
                    IF d[1] # m THEN status[d]
                    ELSE IF d \in planned THEN "quarantined" ELSE "pending"]
    /\ gen' = [gen EXCEPT ![m] = 1]
    /\ UNCHANGED <<linked, acked, planned, claimed, talk, todo, urgent, sync, net,
                   peer, history>>

\* A refusal, a deadline or a local error: the client is told to retry.
Refuse(m) ==
    /\ smtp[m] \in {"body", "manifest"}
    /\ smtp' = [smtp EXCEPT ![m] = "refused"]
    /\ ok' = ok \ {m}
    /\ UNCHANGED <<journal, planned, claimed, talk, todo, urgent, sync, net, peer,
                   history>>

-----------------------------------------------------------------------------
(* synchronize_message, for the worker and for the background loop          *)

\* export, then the first request: the body if there is one, else the manifest.
Start(p, m, man) ==
    /\ sync' = [sync EXCEPT ![p] =
                  [stage |-> IF man.body THEN "body" ELSE "manifest", id |-> m, man |-> man]]
    /\ Post(IF man.body THEN BodyRequest(p, m) ELSE UpdateRequest(p, m, man))

\* The upload was acknowledged: send the manifest exported before it.
SendManifest(p) ==
    /\ sync[p].stage = "body" /\ p \in ok
    /\ sync' = [sync EXCEPT ![p].stage = "manifest"]
    /\ ok' = ok \ {p}
    /\ Post(UpdateRequest(p, sync[p].id, sync[p].man))
    /\ UNCHANGED <<journal, smtp, planned, claimed, talk, todo, urgent, peer, history>>

\* The receipt for the manifest's generation is recorded.
RecordAck(p) ==
    /\ sync[p].stage = "manifest" /\ p \in ok
    /\ LET m == sync[p].id  g == sync[p].man.gen
       IN  acked' = [acked EXCEPT ![m] = IF gen[m] > 0 /\ g > @ THEN g ELSE @]
    /\ sync' = [sync EXCEPT ![p] = Idle]
    /\ ok' = ok \ {p}

GiveUp(p) ==
    /\ sync' = [sync EXCEPT ![p] = Idle]
    /\ ok' = ok \ {p}

-----------------------------------------------------------------------------
(* The relay worker                                                         *)

\* claim: pending, and acknowledged at least once; then synchronize_message
\* exports the message with the claim in it.
Claim(d) ==
    /\ claimed = {} /\ status[d] = "pending" /\ acked[d[1]] > 0
    /\ gen[d[1]] < MaxGen
    /\ Change(d, "sending")
    /\ claimed' = {d}
    /\ UNCHANGED <<raw, linked, acked, smtp, planned, talk, todo, urgent, sync, ok,
                   net, peer, history>>

MirrorClaim(d) ==
    /\ d \in claimed /\ sync["worker"].stage = "idle"
    /\ Start("worker", d[1], Export(d[1]))
    /\ UNCHANGED <<journal, smtp, planned, claimed, talk, todo, urgent, ok, peer,
                   history>>

\* Mutant: the conversation starts before the claim's copy is acknowledged.
SpawnUnmirrored(d) ==
    /\ d \in claimed
    /\ claimed' = {}
    /\ talk' = [talk EXCEPT ![d] = "talking"]
    /\ UNCHANGED <<journal, smtp, planned, todo, urgent, sync, ok, net, peer, history>>

\* The copy is acknowledged: run_job opens the upstream connection.
Spawn(d) ==
    /\ d \in claimed
    /\ RecordAck("worker")
    /\ claimed' = {}
    /\ talk' = [talk EXCEPT ![d] = "talking"]
    /\ UNCHANGED <<raw, status, linked, gen, smtp, planned, todo, urgent, net, peer,
                   history>>

\* The copy failed: the claim returns to the queue.
Unclaim(d) ==
    /\ d \in claimed
    /\ GiveUp("worker")
    /\ Change(d, "pending")
    /\ claimed' = {}
    /\ UNCHANGED <<raw, linked, acked, smtp, planned, talk, todo, urgent, net, peer,
                   history>>

\* The upstream's 250 was read.
Taken(d) ==
    /\ talk[d] = "talking"
    /\ talk' = [talk EXCEPT ![d] = "taken"]
    /\ sent' = sent \cup {d}
    /\ UNCHANGED <<journal, smtp, planned, claimed, todo, urgent, sync, ok, net,
                   peer, doubt, crashes>>

\* The upstream took it, but the reply was lost.
TakenUnheard(d) ==
    /\ talk[d] = "talking"
    /\ talk' = [talk EXCEPT ![d] = "deferred"]
    /\ sent' = sent \cup {d} /\ doubt' = doubt \cup {d}
    /\ UNCHANGED <<journal, smtp, planned, claimed, todo, urgent, sync, ok, net,
                   peer, crashes>>

\* finish_with_attempts
Finish(d, s) ==
    /\ \/ talk[d] = "taken" /\ s = "delivered"
       \/ talk[d] = "talking" /\ s \in {"pending", "failed"}
       \/ talk[d] = "deferred" /\ s = "pending"
    /\ Change(d, s)
    /\ talk' = [talk EXCEPT ![d] = "idle"]
    /\ UNCHANGED <<raw, linked, acked, smtp, planned, claimed, todo, urgent, sync,
                   ok, net, peer, history>>

\* notifications without a DSN: empty or null-MX sender, or suppressed.
NotifyNobody(d) ==
    /\ status[d] = "failed"
    /\ Change(d, "notified")
    /\ UNCHANGED <<raw, linked, acked, process, peer, history>>

\* enqueue_dsn: the new message and the link commit together.
EnqueueDsn(d) ==
    /\ status[d] = "failed" /\ d \notin linked
    /\ raw' = raw \cup {Notice(d)}
    /\ status' = [status EXCEPT ![d] = "notified", ![Reply(d)] = "pending"]
    /\ linked' = linked \cup {d}
    /\ gen' = [gen EXCEPT ![d[1]] = @ + 1, ![Notice(d)] = 1]
    /\ UNCHANGED <<acked, process, peer, history>>

\* quarantine_action, or the hold's expiry
EndHold(d, s) ==
    /\ status[d] = "quarantined"
    /\ Change(d, s)
    /\ UNCHANGED <<raw, linked, acked, process, peer, history>>

\* Mutant: cleanup does not ask whether the peer knows the latest generation.
TombstoneUnmirrored(m) ==
    /\ m \in raw /\ Resolved(m)
    /\ raw' = raw \ {m}
    /\ Touch(m)
    /\ UNCHANGED <<status, linked, acked, process, peer, history>>

\* cleanup: resolved, and the peer has the latest generation.
Tombstone(m) ==
    /\ m \in raw /\ Resolved(m) /\ acked[m] >= gen[m]
    /\ raw' = raw \ {m}
    /\ Touch(m)
    /\ UNCHANGED <<status, linked, acked, process, peer, history>>

\* Mutant: the journal's row outlives the message it is about.
PurgeLeavesAck(m) ==
    /\ gen[m] > 0 /\ m \notin raw /\ acked[m] >= gen[m]
    /\ status' = [d \in Deliveries |-> IF d[1] = m THEN "none" ELSE status[d]]
    /\ gen' = [gen EXCEPT ![m] = 0]
    /\ linked' = linked \ Of(m)
    /\ UNCHANGED <<raw, acked, process, peer, history>>

\* cleanup: metadata older than 30 days whose last generation the peer has.
Purge(m) ==
    /\ gen[m] > 0 /\ m \notin raw /\ acked[m] >= gen[m]
    /\ status' = [d \in Deliveries |-> IF d[1] = m THEN "none" ELSE status[d]]
    /\ gen' = [gen EXCEPT ![m] = 0]
    /\ acked' = [acked EXCEPT ![m] = 0]
    /\ linked' = linked \ Of(m)
    /\ UNCHANGED <<raw, process, peer, history>>

-----------------------------------------------------------------------------
(* The background loop: ha::run and synchronize                             *)

Behind   == {m \in Ids : gen[m] > acked[m]}
Unacked  == {m \in Behind : acked[m] = 0}

\* Mutant: the pass lists messages in any order.
ListPassUnordered(list) ==
    /\ todo = {} /\ sync["loop"].stage = "idle"
    /\ list # {} /\ list \subseteq Behind
    /\ Cardinality(list) <= ListLimit
    /\ todo' = list /\ urgent' = {}
    /\ UNCHANGED <<journal, smtp, planned, claimed, talk, sync, ok, net, peer, history>>

\* The pass lists never-acknowledged messages first, at most ListLimit in all.
ListPass(list) ==
    /\ todo = {} /\ sync["loop"].stage = "idle"
    /\ list # {} /\ list \subseteq Behind
    /\ Cardinality(list) <= ListLimit
    /\ list \subseteq Unacked \/ Unacked \subseteq list
    /\ todo' = list /\ urgent' = list \cap Unacked
    /\ UNCHANGED <<journal, smtp, planned, claimed, talk, sync, ok, net, peer, history>>

LoopMirror(m) ==
    /\ m \in todo /\ sync["loop"].stage = "idle"
    /\ urgent # {} => m \in urgent
    /\ gen[m] > 0
    /\ Start("loop", m, Export(m))
    /\ UNCHANGED <<journal, smtp, planned, claimed, talk, todo, urgent, ok, peer,
                   history>>

LoopAck ==
    /\ RecordAck("loop")
    /\ todo' = todo \ {sync["loop"].id}
    /\ urgent' = urgent \ {sync["loop"].id}
    /\ UNCHANGED <<raw, status, linked, gen, smtp, planned, claimed, talk, net, peer,
                   history>>

\* Any error ends the pass.
LoopFails ==
    /\ todo # {}
    /\ GiveUp("loop")
    /\ todo' = {} /\ urgent' = {}
    /\ UNCHANGED <<journal, smtp, planned, claimed, talk, net, peer, history>>

-----------------------------------------------------------------------------
(* The peer                                                                 *)

\* Is a caller still waiting for this request?
Waiting(r) ==
    IF r.proc \in Syncers
    THEN /\ sync[r.proc].stage = r.kind /\ sync[r.proc].id = r.id
         /\ r.kind = "manifest" => sync[r.proc].man = r.man
    ELSE smtp[r.proc] = r.kind

Answer(r) == ok' = IF Waiting(r) THEN ok \cup {r.proc} ELSE ok

\* store_body: a body is immutable once known, and a retired one stays retired.
StoreBody(r) ==
    /\ r \in net /\ r.kind = "body"
    /\ net' = net \ {r}
    /\ IF blob[r.id] = "retired"
       THEN UNCHANGED <<blob, pfiles, ok>>
       ELSE /\ blob' = [blob EXCEPT ![r.id] = "present"]
            /\ pfiles' = pfiles \cup {r.id}
            /\ Answer(r)
    /\ UNCHANGED <<journal, smtp, planned, claimed, talk, todo, urgent, sync, remote,
                   history>>

\* Mutant: generations are not compared.
AcceptableAnyGeneration(m, man) ==
    /\ remote[m].known /\ man.body => remote[m].body
    /\ man.body => blob[m] = "present" /\ m \in pfiles

\* Mutant: a manifest is taken before its body.
AcceptableWithoutBody(m, man) ==
    remote[m].known =>
        /\ man.gen > remote[m].gen
        /\ man.body => remote[m].body

\* ingest's checks against the journal and the blob catalogue.
Acceptable(m, man) ==
    /\ remote[m].known =>
         /\ man.gen > remote[m].gen
         /\ man.body => remote[m].body
    /\ man.body => blob[m] = "present" /\ m \in pfiles

\* ingest: a replay of the stored manifest is acknowledged again; a stale,
\* conflicting, resurrecting or body-less one is refused.  The body of a retired
\* message is unlinked after the commit, unless the peer stops there (torn).
Ingest(r, torn) ==
    /\ r \in net /\ r.kind = "manifest"
    /\ net' = net \ {r}
    /\ LET m == r.id  man == r.man
       IN  \/ /\ Acceptable(m, man)
              /\ remote' = [remote EXCEPT ![m] = man]
              /\ blob' = IF man.body \/ blob[m] = "none" THEN blob
                         ELSE [blob EXCEPT ![m] = "retired"]
              /\ pfiles' = IF man.body \/ torn THEN pfiles ELSE pfiles \ {m}
              /\ Answer(r)
           \/ /\ ~Acceptable(m, man)
              /\ IF remote[m] = man THEN Answer(r) ELSE UNCHANGED ok
              /\ UNCHANGED peer
    /\ UNCHANGED <<journal, smtp, planned, claimed, talk, todo, urgent, sync, history>>

\* A request that never reaches the peer.
Lose(r) ==
    /\ r \in net
    /\ net' = net \ {r}
    /\ UNCHANGED <<journal, smtp, planned, claimed, talk, todo, urgent, sync, ok, peer,
                   history>>

\* Mutant: the body of a candidate the owner has not confirmed is an orphan.
PeerCleanupUnconfirmed(m, torn) ==
    /\ blob[m] # "none"
    /\ \/ blob[m] = "retired"
       \/ remote[m].known /\ ~remote[m].body
       \/ ~remote[m].confirmed
    /\ pfiles' = pfiles \ {m}
    /\ blob' = IF torn THEN blob ELSE [blob EXCEPT ![m] = "none"]
    /\ UNCHANGED <<journal, process, remote, history>>

\* cleanup on the peer: retired bodies, and uploads no manifest refers to.  The
\* file goes first; a stop there (torn) leaves the catalogue row.
PeerCleanup(m, torn) ==
    /\ blob[m] # "none"
    /\ \/ blob[m] = "retired"
       \/ remote[m].known /\ ~remote[m].body
       \/ ~remote[m].known
    /\ pfiles' = pfiles \ {m}
    /\ blob' = IF torn THEN blob ELSE [blob EXCEPT ![m] = "none"]
    /\ UNCHANGED <<journal, process, remote, history>>

\* cleanup on the peer: tombstones older than 30 days.  A request that still
\* offers the body is older than the tombstone, and none is that late.
PeerForget(m) ==
    /\ remote[m].known /\ ~remote[m].body
    /\ \A r \in net : r.id = m => r.kind = "manifest" /\ ~r.man.body
    /\ \A p \in Syncers : sync[p].id = m => ~sync[p].man.body
    /\ remote' = [remote EXCEPT ![m] = NoManifest]
    /\ UNCHANGED <<journal, process, blob, pfiles, history>>

-----------------------------------------------------------------------------
\* The owner dies and Store::recover returns its claims to the queue.
CrashAndRecover ==
    /\ crashes < MaxCrashes
    /\ LET orphan == {d \in Deliveries : status[d] = "sending"}
       IN  /\ status' = [d \in Deliveries |-> IF d \in orphan THEN "pending" ELSE status[d]]
           /\ gen' = [m \in Ids |-> IF \E d \in orphan : d[1] = m THEN gen[m] + 1 ELSE gen[m]]
    /\ smtp' = [m \in Mail |-> IF smtp[m] \in {"body", "manifest"} THEN "refused" ELSE smtp[m]]
    /\ claimed' = {} /\ talk' = [d \in Deliveries |-> "idle"]
    /\ todo' = {} /\ urgent' = {}
    /\ sync' = [p \in Syncers |-> Idle] /\ ok' = {}
    /\ doubt' = doubt \cup {d \in Deliveries : talk[d] = "taken"}
    /\ crashes' = crashes + 1
    /\ UNCHANGED <<raw, linked, acked, planned, net, peer, sent>>

Accept(m) ==
    \/ \E held \in SUBSET (Of(m) \cap Envelope) : Prepare(m, held)
    \/ PrepareManifest(m) \/ Commit(m) \/ Refuse(m)

Relay(d) ==
    \/ Claim(d) \/ MirrorClaim(d) \/ Spawn(d) \/ Unclaim(d)
    \/ Taken(d) \/ TakenUnheard(d)
    \/ \E s \in {"delivered", "pending", "failed"} : Finish(d, s)
    \/ NotifyNobody(d) \/ (d \in Envelope /\ EnqueueDsn(d))
    \/ \E s \in {"pending", "discarded"} : EndHold(d, s)

Mirror ==
    \/ \E p \in Syncers : SendManifest(p)
    \/ \E list \in SUBSET Behind : ListPass(list)
    \/ \E m \in Ids : LoopMirror(m)
    \/ LoopAck \/ LoopFails

Peer ==
    \/ \E r \in net : StoreBody(r) \/ Lose(r) \/ \E torn \in BOOLEAN : Ingest(r, torn)
    \/ \E m \in Ids : PeerForget(m) \/ \E torn \in BOOLEAN : PeerCleanup(m, torn)

Next ==
    \/ \E m \in Mail : Accept(m)
    \/ \E d \in Deliveries : Relay(d)
    \/ \E m \in Ids : Tombstone(m) \/ Purge(m)
    \/ Mirror \/ Peer \/ CrashAndRecover

Spec == Init /\ [][Next]_vars
-----------------------------------------------------------------------------
(* What a fenced restore makes of the peer's journal                        *)

\* restore_queue_mode: an unconfirmed candidate, a delivery that was being sent
\* and a failure whose DSN never reached the peer are held for an operator.
Restored(d) ==
    LET man == remote[d[1]]
    IN  IF ~man.known THEN "none"
        ELSE IF \/ ~man.confirmed /\ ~ResolvedIn(man)
                \/ man.st[d] = "sending"
                \/ man.body /\ man.st[d] = "notified" /\ d \in man.dsn
                     /\ ~remote[Notice(d)].known
             THEN "held" ELSE man.st[d]

Kept == {"held", "pending", "failed", "quarantined"}

-----------------------------------------------------------------------------
(* Properties                                                               *)

\* The types, and: the peer never acknowledges a generation the journal lacks.
TypeOK ==
    /\ raw \subseteq Ids /\ linked \subseteq Envelope
    /\ status \in [Deliveries -> Status]
    /\ gen \in [Ids -> Nat] /\ acked \in [Ids -> Nat]
    /\ \A m \in Ids : acked[m] <= gen[m]
    /\ smtp \in [Mail -> {"idle", "body", "manifest", "accepted", "refused"}]
    /\ planned \subseteq Envelope /\ claimed \subseteq Deliveries
    /\ talk \in [Deliveries -> {"idle", "talking", "taken", "deferred"}]
    /\ urgent \subseteq todo /\ todo \subseteq Ids
    /\ ok \subseteq Mail \cup Syncers
    /\ DOMAIN remote = Ids /\ pfiles \subseteq Ids
    /\ blob \in [Ids -> {"none", "present", "retired"}]
    /\ sent \subseteq Deliveries /\ doubt \subseteq sent
    /\ crashes \in 0..MaxCrashes

\* If the owner is lost now, every recipient of accepted mail that still needs
\* work, and every DSN that was ever acknowledged, is restored with its body.
AcceptedRestorable ==
    \A d \in Deliveries :
        status[d] \in Live /\ (d \in Envelope \/ acked[d[1]] > 0) =>
            remote[d[1]].body /\ d[1] \in pfiles /\ Restored(d) \in Kept

\* The restore can read every body its journal names.
JournalComplete == \A m \in Ids : remote[m].body => m \in pfiles

\* While an upstream conversation is open the peer knows the delivery as being
\* sent; a restore never sends again, nor bounces, what the owner got delivered.
NoBlindResend ==
    \A d \in Deliveries :
        /\ talk[d] # "idle" => Restored(d) = "held"
        /\ d \in sent \ doubt => Restored(d) \notin {"pending", "failed"}

\* A failure's report survives the owner: its DSN is in the journal, or the
\* failure itself comes back for review.
NoticeSurvives ==
    \A d \in Envelope :
        d \in linked /\ status[Reply(d)] \in Live =>
            remote[Notice(d)].known \/ Restored(d) \in Kept

\* A message the owner has retired is not wanted back by the peer's journal.
RetiredIsResolved ==
    \A m \in Ids : gen[m] > 0 /\ m \notin raw => ResolvedIn(remote[m])

MonotoneStep ==
    \A m \in Ids : remote[m].known /\ remote'[m].known =>
       /\ remote'[m].gen >= remote[m].gen
       /\ remote'[m].body => remote[m].body

\* The peer never steps back to an older generation and never takes up again a
\* body it retired.
PeerMonotone == [][MonotoneStep]_vars
=============================================================================
