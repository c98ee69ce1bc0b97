------------------------------- MODULE Import -------------------------------
(***************************************************************************)
(* What the console of a coordinator shows of its workers' mail, and what  *)
(* of it survives the copy to central management (src/cluster/history.rs,  *)
(* src/central/import).  Workers export changed records; the coordinator   *)
(* keeps them as mirrors, under recipient numbers of its own.  The offline *)
(* copy takes every message from its owner, checks every mirror against    *)
(* it, and gives the recipients their public numbers back.  A message has  *)
(* one recipient here, so a number stands for a recipient.                 *)
(***************************************************************************)
EXTENDS Naturals, FiniteSets, FiniteSetsExt

CONSTANTS
    Workers, Coordinator, Msgs, None,
    Keep, Retain,     \* transcripts an export carries, and an owner retains
    MaxLogs, MaxChanges, MaxSends, MaxGap     \* bounds

VARIABLES
    own,      \* of every message: None, or the record at its owner
    used,     \* the identities taken so far, and the number of changes
    aged,     \* messages older than the retention of metadata
    dirty,    \* the generation of a worker's unexported change, or 0
    seq,      \* cluster_sequence of every worker
    mirror,   \* the coordinator's copies
    pub,      \* the number of a message's recipient at the coordinator, or 0
    labels,   \* messages a person has judged at the coordinator
    enabled,  \* the workers that are not revoked
    policy,   \* the revision, the members of the last rollout if any, whether it goes on
    pending,  \* the console's commands without a result: node and message
    reqs,     \* exports on their way
    reply,    \* of every worker: the receipts of its last exchange
    sent,     \* the number of exchanges of every worker
    tombs,    \* deletions that the management journal recorded
    seeded,   \* whether the management journals exist
    seen,     \* None, or what the copy was captured from
    dest      \* the destination

histVars == <<own, used, aged, dirty, seq, mirror, pub, labels, enabled, policy, pending>>
wireVars == <<reqs, reply, sent>>
copyVars == <<tombs, seeded, seen, dest>>
vars == <<histVars, wireVars, copyVars>>

\* The sources of a plan: one coordinator and its workers.
Nodes == Workers \cup {Coordinator}
Live(m) == own[m] # None
OwnedBy(n) == {m \in Msgs : Live(m) /\ own[m].at = n}
\* The transcripts an owner still has of n attempts.
Retained(n) == {k \in 1..n : k + Retain > n}
Mirrored == {m \in Msgs : mirror[m] # None}
Top(S) == Max(S \cup {0})

Phases == {"fresh", "claimed", "accounts", "metadata", "recipient_ids", "smtp_logs", "quality",
           "policy", "copied_not_activated", "active", "failed"}
Empty(gap) == [phase |-> "fresh", versions |-> {}, rows |-> << >>, seq |-> gap, labels |-> {},
               enabled |-> {}, rev |-> 0]

Init ==
    /\ own = [m \in Msgs |-> None] /\ used = [ids |-> {}, changes |-> 0] /\ aged = {}
    /\ dirty = [m \in Msgs |-> 0] /\ seq = [w \in Workers |-> 0]
    /\ mirror = [m \in Msgs |-> None] /\ pub = [m \in Msgs |-> 0]
    /\ labels = {} /\ enabled = Workers /\ policy = [rev |-> 0, busy |-> FALSE, members |-> None]
    /\ pending = {}
    /\ reqs = {} /\ reply = [w \in Workers |-> {}] /\ sent = [w \in Workers |-> 0]
    /\ tombs = {} /\ seeded = FALSE /\ seen = None
    /\ dest \in {Empty(g) : g \in 0..MaxGap}

-----------------------------------------------------------------------------
(* The queues and their exports                                             *)

\* The triggers of the queue: a change of a worker's record marks it once more.
Mark(n, m) ==
    IF n \in Workers
    THEN seq' = [seq EXCEPT ![n] = @ + 1] /\ dirty' = [dirty EXCEPT ![m] = seq[n] + 1]
    ELSE UNCHANGED <<seq, dirty>>

\* Changes of the sources are bounded together.
Changing == used.changes < MaxChanges /\ used' = [used EXCEPT !.changes = @ + 1]
NewNumber == 1 + Top({pub[m] : m \in Msgs})

\* A message is stored at the node that accepted it.
Accept(n, m) ==
    /\ m \notin used.ids /\ used.changes < MaxChanges
    /\ own' = [own EXCEPT ![m] = [at |-> n, open |-> TRUE, kept |-> TRUE, logs |-> 0, ver |-> 1]]
    /\ used' = [ids |-> used.ids \cup {m}, changes |-> used.changes + 1]
    /\ pub' = IF n = Coordinator THEN [pub EXCEPT ![m] = NewNumber] ELSE pub
    /\ Mark(n, m)
    /\ UNCHANGED <<aged, mirror, labels, enabled, policy, pending, wireVars, copyVars>>

\* An attempt ends: its transcript and the new status are stored together.
Attempt(m, open) ==
    /\ Live(m) /\ own[m].open /\ own[m].logs < MaxLogs /\ Changing
    /\ own' = [own EXCEPT ![m].logs = @ + 1, ![m].open = open, ![m].ver = @ + 1]
    /\ Mark(own[m].at, m)
    /\ UNCHANGED <<aged, mirror, pub, labels, enabled, policy, pending, wireVars, copyVars>>

\* Thirty days pass.
Age(m) ==
    /\ Live(m) /\ m \notin aged /\ aged' = aged \cup {m} /\ Changing
    /\ UNCHANGED <<own, dirty, seq, mirror, pub, labels, enabled, policy, pending, wireVars, copyVars>>

\* cleanup, the body: it is given up when no recipient needs it; a quarantine ends
\* after at most thirty days.
Unlink(m) ==
    /\ Live(m) /\ own[m].kept /\ (own[m].open => m \in aged)
    /\ own' = [own EXCEPT ![m].kept = FALSE, ![m].open = FALSE, ![m].ver = @ + 1]
    /\ Mark(own[m].at, m)
    /\ UNCHANGED <<used, aged, mirror, pub, labels, enabled, policy, pending, wireVars, copyVars>>

\* cleanup, the metadata of a node: aged records without a body go, and with them
\* the mark; mirrors go when their last known state has no body either.
Expired(n) ==
    {m \in OwnedBy(n) \cap aged : ~own[m].kept}
    \cup {m \in Mirrored \cap aged : n = Coordinator /\ ~mirror[m].kept}
Purge(n) ==
    LET purged == Expired(n) \cap OwnedBy(n)
        rows == IF n = Coordinator THEN Expired(n) ELSE {} IN
    /\ Expired(n) # {}
    /\ own' = [m \in Msgs |-> IF m \in purged THEN None ELSE own[m]]
    /\ dirty' = [m \in Msgs |-> IF m \in purged THEN 0 ELSE dirty[m]]
    /\ mirror' = [m \in Msgs |-> IF m \in rows THEN None ELSE mirror[m]]
    /\ pub' = [m \in Msgs |-> IF m \in rows THEN 0 ELSE pub[m]]
    /\ labels' = labels \ rows
    /\ tombs' = IF seeded THEN tombs \cup purged ELSE tombs
    /\ UNCHANGED <<used, aged, seq, enabled, policy, pending, wireVars, seeded, seen, dest>>

\* snapshot: the record under the generation of its mark, with its last transcripts.
Record(m) ==
    [id |-> m, gen |-> dirty[m], ver |-> own[m].ver, kept |-> own[m].kept,
     logs |-> {k \in Retained(own[m].logs) : k + Keep > own[m].logs}]

\* A worker's poll exports what is marked.  An earlier exchange it gave up may still
\* be on its way.
Export(w) ==
    LET recs == {Record(m) : m \in {x \in OwnedBy(w) : dirty[x] # 0}} IN
    /\ recs # {} /\ sent[w] < MaxSends
    /\ sent' = [sent EXCEPT ![w] = @ + 1]
    /\ reqs' = reqs \cup {[from |-> w, nr |-> sent[w] + 1, recs |-> recs]}
    /\ reply' = [reply EXCEPT ![w] = {}]
    /\ UNCHANGED <<histVars, copyVars>>

\* Mutant: whatever arrives is the newest.
Superseded_Never(r) == FALSE

\* A record that is not newer than the mirror is acknowledged and not stored.
Superseded(r) == mirror[r.id] # None /\ mirror[r.id].gen >= r.gen
Retired(r) == r.id \in aged /\ ~r.kept

\* ingest: all records of an exchange in one transaction, refused as a whole when
\* the node is revoked.
Ingest(q) ==
    LET new == {r \in q.recs : ~Superseded(r) /\ ~Retired(r)}
        of(m) == CHOOSE r \in new : r.id = m
        ids == {r.id : r \in new}
        fresh == {m \in ids : pub[m] = 0} IN
    /\ q \in reqs /\ reqs' = reqs \ {q}
    /\ IF q.from \in enabled
       THEN /\ mirror' = [m \in Msgs |-> IF m \in ids
                            THEN [owner |-> q.from, gen |-> of(m).gen, ver |-> of(m).ver,
                                  kept |-> of(m).kept, logs |-> of(m).logs] ELSE mirror[m]]
            /\ \E f \in [fresh -> NewNumber..(NewNumber + Cardinality(fresh) - 1)] :
                 /\ \A x, y \in fresh : f[x] = f[y] => x = y
                 /\ pub' = [m \in Msgs |-> IF m \in fresh THEN f[m] ELSE pub[m]]
            /\ reply' = IF q.nr = sent[q.from]
                        THEN [reply EXCEPT ![q.from] = {[id |-> r.id, gen |-> r.gen] : r \in q.recs}]
                        ELSE reply
       ELSE UNCHANGED <<mirror, pub, reply>>
    /\ UNCHANGED <<own, used, aged, dirty, seq, labels, enabled, policy, pending, sent, copyVars>>

\* Mutant: a receipt clears the mark whatever happened since.
Confirms_Any(m, receipts) == \E r \in receipts : r.id = m

\* A receipt clears the mark of the generation it names.
Confirms(m, receipts) == \E r \in receipts : r.id = m /\ r.gen = dirty[m]

\* acknowledge: the receipts of the last exchange are applied.
Acknowledge(w) ==
    /\ reply[w] # {}
    /\ dirty' = [m \in Msgs |-> IF Confirms(m, reply[w]) THEN 0 ELSE dirty[m]]
    /\ reply' = [reply EXCEPT ![w] = {}]
    /\ UNCHANGED <<own, used, aged, seq, mirror, pub, labels, enabled, policy, pending, reqs, sent, copyVars>>

-----------------------------------------------------------------------------
(* The console                                                              *)

\* A person judges a message the console shows.
Label(m) ==
    /\ pub[m] # 0 /\ m \notin labels /\ labels' = labels \cup {m} /\ Changing
    /\ UNCHANGED <<own, aged, dirty, seq, mirror, pub, enabled, policy, pending, wireVars, copyVars>>

\* A person releases or deletes a held message of a worker: the command waits for
\* it, one at a time.  It ends with the worker's receipt or at its own time; what it
\* changes is a change of the worker's record (module RemoteCommands).
Command(m) ==
    /\ m \in Mirrored /\ mirror[m].kept /\ mirror[m].owner \in enabled
    /\ <<mirror[m].owner, m>> \notin pending
    /\ pending' = pending \cup {<<mirror[m].owner, m>>} /\ Changing
    /\ UNCHANGED <<own, aged, dirty, seq, mirror, pub, labels, enabled, policy, wireVars, copyVars>>
Settle(c) ==
    /\ pending' = pending \ {c}
    /\ UNCHANGED <<own, used, aged, dirty, seq, mirror, pub, labels, enabled, policy, wireVars, copyVars>>

\* save_node revokes a node and ends its commands; its queue stays.
Revoke(w) ==
    /\ w \in enabled /\ enabled' = enabled \ {w} /\ Changing
    /\ pending' = {c \in pending : c[1] # w}
    /\ UNCHANGED <<own, aged, dirty, seq, mirror, pub, labels, policy, wireVars, copyVars>>

\* A rollout of a new revision begins, for the nodes that are enabled, and ends
\* released or aborted.
Rollout ==
    /\ \/ ~policy.busy /\ policy.rev = 0
          /\ policy' = [policy EXCEPT !.busy = TRUE, !.members = enabled]
       \/ policy.busy /\ \E rev \in {policy.rev, policy.rev + 1} :
             policy' = [policy EXCEPT !.rev = rev, !.busy = FALSE]
    /\ Changing
    /\ UNCHANGED <<own, aged, dirty, seq, mirror, pub, labels, enabled, pending, wireVars, copyVars>>

-----------------------------------------------------------------------------
(* The capture                                                              *)

\* PolicySnapshot::capture: no rollout goes on, no command is outstanding, and the
\* last rollout, if there was one, was for the nodes that are enabled.
PolicySettled ==
    /\ ~policy.busy /\ pending = {}
    /\ policy.members # None => policy.members = enabled

\* The mirror of a message and its owner's record agree: the envelope, and every
\* transcript the mirror shows.
Agrees(m) == own[m].at = mirror[m].owner /\ mirror[m].logs \subseteq Retained(own[m].logs)

\* ReconciledSpools::verify: every mirror is a live message of its owner.
Reconciled == \A m \in Mirrored : Live(m) /\ Agrees(m)

\* capture: with the services stopped, all the locks and then all the write
\* reservations, the journals are seeded and every part is read; nothing is kept of
\* a capture that is refused but the journals, which exist from then on.
Capture ==
    /\ dest.phase = "fresh" /\ seen = None /\ seeded' = TRUE
    /\ seen' = IF PolicySettled /\ Reconciled
               THEN [own |-> own, pub |-> pub, mirror |-> mirror, labels |-> labels, tombs |-> tombs,
                     enabled |-> enabled, rev |-> policy.rev]
               ELSE None
    /\ reqs' = {} /\ reply' = [w \in Workers |-> {}]
    /\ UNCHANGED <<histVars, sent, tombs, dest>>

-----------------------------------------------------------------------------
(* The copy, one transaction at a time                                      *)

Goes(from, to) == dest.phase = from /\ dest' = [dest EXCEPT !.phase = to]
CopyFrame == UNCHANGED <<histVars, wireVars, tombs, seeded, seen>>

\* claim_import: only an empty destination is claimed.
Claim ==
    /\ seen # None /\ dest.rows = << >> /\ dest.versions = {}
    /\ Goes("fresh", "claimed") /\ CopyFrame

\* import_accounts, with the comparison of every copied table.
ImportAccounts == Goes("claimed", "accounts") /\ CopyFrame

\* What the snapshots of the spools hold: live records and recorded deletions.
Events == {m \in Msgs : seen.own[m] # None} \cup seen.tombs

\* ingest of one event: a live record gets a row and the next number, a deletion
\* only its version.
IngestEvent(m) ==
    /\ dest.phase = "accounts" /\ m \in Events \ dest.versions
    /\ dest' = IF seen.own[m] = None THEN [dest EXCEPT !.versions = @ \cup {m}]
               ELSE [dest EXCEPT !.versions = @ \cup {m}, !.seq = @ + 1,
                       !.rows = [x \in DOMAIN @ \cup {m} |->
                                   IF x = m THEN [id |-> dest.seq + 1, at |-> seen.own[m].at, logs |-> {}]
                                   ELSE @[x]]]
    /\ CopyFrame
ImportMetadata == Goes("accounts", "metadata") /\ dest.versions = Events /\ CopyFrame

\* import_delivery_identities: the public number where there is one; any other is
\* kept above the public range, or allocated above both.
Number(m) ==
    LET ids == {dest.rows[x].id : x \in DOMAIN dest.rows}
        legacy == Top({seen.pub[x] : x \in Msgs})
        rank == Cardinality({i \in ids : i <= dest.rows[m].id}) IN
    IF seen.pub[m] # 0 THEN seen.pub[m]
    ELSE IF dest.rows[m].id > legacy THEN dest.rows[m].id
    ELSE Max({legacy} \cup ids) + rank
RestoreIds ==
    LET rows == [m \in DOMAIN dest.rows |-> [dest.rows[m] EXCEPT !.id = Number(m)]] IN
    /\ dest.phase = "metadata"
    /\ {m \in Msgs : seen.pub[m] # 0} \subseteq DOMAIN dest.rows
    /\ dest' = [dest EXCEPT !.phase = "recipient_ids", !.rows = rows,
                  !.seq = Max({@} \cup {rows[m].id : m \in DOMAIN rows})]
    /\ CopyFrame

\* The transcripts of every owner, attached to the recipient they are about.
ImportLogs ==
    /\ dest.phase = "recipient_ids"
    /\ dest' = [dest EXCEPT !.phase = "smtp_logs",
                  !.rows = [m \in DOMAIN @ |-> [@[m] EXCEPT !.logs = Retained(seen.own[m].logs)]]]
    /\ CopyFrame

\* copy_tables, verify_tables: captured rows are inserted where the messages they
\* refer to exist, and read back before the commit.
Insertable(rows) == rows \subseteq DOMAIN dest.rows

\* import_quality: into tables that are still empty.
ImportQuality ==
    /\ dest.phase = "smtp_logs" /\ dest.labels = {} /\ Insertable(seen.labels)
    /\ dest' = [dest EXCEPT !.phase = "quality", !.labels = seen.labels]
    /\ CopyFrame

\* import_policy: the installed revision goes on, with the members of the journal.
ImportPolicy ==
    /\ dest.phase = "quality"
    /\ dest' = [dest EXCEPT !.phase = "policy", !.rev = seen.rev, !.enabled = seen.enabled]
    /\ CopyFrame

\* A copied row has the values of the captured record, and its public number.
SameRow(m) ==
    /\ dest.rows[m].at = seen.own[m].at /\ dest.rows[m].logs = Retained(seen.own[m].logs)
    /\ seen.pub[m] # 0 => dest.rows[m].id = seen.pub[m]

\* parity::verify: versions, rows, numbers, transcripts and the sequence.
Parity ==
    /\ dest.versions = Events /\ DOMAIN dest.rows = {m \in Msgs : seen.own[m] # None}
    /\ \A m \in DOMAIN dest.rows : SameRow(m) /\ dest.rows[m].id \in 1..dest.seq
Verify == Goes("policy", "copied_not_activated") /\ Parity /\ CopyFrame

\* A step fails: its transaction leaves at most a gap in the numbers, the
\* destination is never used again and another one is named.
CopyFails ==
    /\ dest.phase \notin {"fresh", "copied_not_activated", "active", "failed"}
    /\ dest' = [dest EXCEPT !.phase = "failed"] /\ CopyFrame
OtherDestination ==
    /\ dest.phase = "failed" /\ dest' \in {Empty(g) : g \in 0..MaxGap} /\ seen' = None
    /\ UNCHANGED <<histVars, wireVars, tombs, seeded>>

\* The receipt is activated (module Cutover).
Activate == Goes("copied_not_activated", "active") /\ CopyFrame

\* Central management stores the next message it is told of.
Arrive(m) ==
    /\ dest.phase = "active" /\ m \notin used.ids /\ m \notin DOMAIN dest.rows
    /\ dest' = [dest EXCEPT !.seq = @ + 1, !.versions = @ \cup {m},
                  !.rows = [x \in DOMAIN @ \cup {m} |->
                              IF x = m THEN [id |-> dest.seq + 1, at |-> Coordinator, logs |-> {}] ELSE @[x]]]
    /\ CopyFrame

\* The locks of the sources are held from an accepted capture to the receipt of
\* its copy; what a source writes after that is the matter of module Cutover.
Old == seen = None

Next ==
    \/ /\ Old
       /\ \/ \E m \in Msgs : (\E n \in Nodes : Accept(n, m)) \/ (\E o \in BOOLEAN : Attempt(m, o))
                             \/ Age(m) \/ Unlink(m) \/ Label(m) \/ Command(m)
          \/ \E n \in Nodes : Purge(n)
          \/ \E w \in Workers : Export(w) \/ Acknowledge(w) \/ Revoke(w)
          \/ \E q \in reqs : Ingest(q)
          \/ \E c \in pending : Settle(c)
          \/ Rollout \/ Capture
    \/ Claim \/ ImportAccounts \/ ImportMetadata \/ RestoreIds \/ ImportLogs \/ ImportQuality
    \/ ImportPolicy \/ Verify \/ CopyFails \/ OtherDestination \/ Activate
    \/ \E m \in Msgs : IngestEvent(m) \/ Arrive(m)

Spec == Init /\ [][Next]_vars

-----------------------------------------------------------------------------
(* Properties                                                               *)

\* No change of a worker's message is forgotten: as long as the owner has the
\* message, the console shows its present state or the change is still marked for
\* export, unless the record is beyond retention.
NoUpdateLost ==
    \A w \in enabled : \A m \in OwnedBy(w) :
        \/ dirty[m] # 0
        \/ mirror[m] # None /\ mirror[m].ver = own[m].ver
        \/ m \in aged /\ ~own[m].kept

\* One step of a mirror: it is replaced by a later state of the message only.
MirrorStep ==
    \A m \in Mirrored : mirror'[m] # None =>
        mirror'[m].ver >= mirror[m].ver /\ mirror'[m].owner = mirror[m].owner /\ pub'[m] = pub[m]

\* An exchange that arrives late never takes the console back to an older state of
\* a message, and never renumbers its recipients.
MirrorForward == [][MirrorStep]_vars

Copied == dest.phase \in {"copied_not_activated", "active"}

\* The copy is what the owners hold: every live message once, at its owner, with
\* all its transcripts.
OwnersCopied ==
    Copied => \A m \in Msgs : seen.own[m] # None =>
        /\ m \in DOMAIN dest.rows
        /\ dest.rows[m].at = seen.own[m].at /\ dest.rows[m].logs = Retained(seen.own[m].logs)
\* A message whose deletion was recorded is not in the copy.
NothingRevived ==
    Copied => \A m \in seen.tombs : m \notin DOMAIN dest.rows

\* What the old console showed is found again: the message under the same number,
\* at least the transcripts it had, the judgements; a revoked node stays revoked
\* and the installed revision goes on.
ConsoleKept ==
    Copied =>
        /\ \A m \in Msgs : seen.pub[m] # 0 =>
              /\ m \in DOMAIN dest.rows /\ dest.rows[m].id = seen.pub[m]
              /\ seen.mirror[m] # None => seen.mirror[m].logs \subseteq dest.rows[m].logs
        /\ dest.labels = seen.labels /\ dest.enabled = seen.enabled /\ dest.rev = seen.rev

\* No two recipients have one number, and the next one allocated is free.
NumbersFree ==
    \A m \in DOMAIN dest.rows :
        /\ dest.phase \notin {"accounts", "metadata", "failed"} => dest.rows[m].id \in 1..dest.seq
        /\ \A x \in DOMAIN dest.rows : dest.rows[x].id = dest.rows[m].id => x = m
=============================================================================
