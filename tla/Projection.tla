----------------------------- MODULE Projection -----------------------------
(***************************************************************************)
(* Queue metadata copied from an MX node to central management             *)
(* (src/central/outbox.rs, outbox.sql, history.rs, logs.rs, transport.rs). *)
(*                                                                         *)
(* Triggers record every change of a message or of an SMTP transcript in   *)
(* an outbox under a new generation.  One task exports a batch, central    *)
(* management commits it, and the node removes the entries of the receipt. *)
(* A batch whose sender gave up may still be committed later.              *)
(* The content of an object is identified with its generation.             *)
(***************************************************************************)
EXTENDS Naturals, FiniteSets

CONSTANTS
    Messages,
    Logs,        \* SMTP transcripts (delivery_attempts)
    Owner,       \* the message a transcript belongs to
    BatchSize,   \* entries per batch, 12 in the code
    MaxSeq,      \* bound: changes
    MaxLate,     \* bound: batches that wait to be committed
    MaxEdits     \* bound: times an administrator enables or disables the node

Objects == Messages \cup Logs

VARIABLES
    seq,      \* management_journal.sequence
    gen,      \* generation of each object on the node, 0 when it is not there
    outbox,   \* management_outbox and management_log_outbox
    call,     \* the batch the node waits for, a set of at most one
    late,     \* batches sent and not yet handled
    answer,   \* the receipt of the current batch was sent
    ver,      \* message_versions and delivery_log_versions
    view,     \* messages and delivery_logs: the generation central management shows
    enabled,  \* sources.enabled
    edits     \* administrators' changes so far

node    == <<seq, gen, outbox>>
network == <<call, late, answer>>
central == <<ver, view, enabled, edits>>
vars    == <<node, network, central>>

NoEntry == [gen |-> 0, deleted |-> FALSE]

Init ==
    /\ seq = 0 /\ gen = [x \in Objects |-> 0]
    /\ outbox = [x \in Objects |-> NoEntry]
    /\ call = {} /\ late = {} /\ answer = FALSE
    /\ ver = [x \in Objects |-> NoEntry] /\ view = [x \in Objects |-> 0]
    /\ enabled = TRUE /\ edits = 0

-----------------------------------------------------------------------------
(* The node: triggers                                                       *)

Entry(g, d) == [gen |-> g, deleted |-> d]

\* management_message_insert and _update, management_delivery_*: a message that
\* is there, or a new one, gets the next generation.
ChangeMessage(m) ==
    /\ seq < MaxSeq /\ ~outbox[m].deleted /\ ~ver[m].deleted
    /\ gen[m] = 0 => outbox[m] = NoEntry /\ ver[m] = NoEntry
    /\ seq' = seq + 1
    /\ gen' = [gen EXCEPT ![m] = seq']
    /\ outbox' = [outbox EXCEPT ![m] = Entry(seq', FALSE)]
    /\ UNCHANGED <<network, central>>

\* management_message_delete: a tombstone; the entries of its transcripts go.
DeleteMessage(m) ==
    /\ seq < MaxSeq /\ gen[m] > 0
    /\ seq' = seq + 1
    /\ gen' = [x \in Objects |->
                 IF x = m \/ (x \in Logs /\ Owner[x] = m) THEN 0 ELSE gen[x]]
    /\ outbox' = [x \in Objects |->
                    IF x = m THEN Entry(seq', TRUE)
                    ELSE IF x \in Logs /\ Owner[x] = m THEN NoEntry ELSE outbox[x]]
    /\ UNCHANGED <<network, central>>

\* management_log_insert with management_delivery_attempts_insert: the attempt
\* changes its message too.  Identities of transcripts are never used again.
AddLog(l) ==
    /\ seq + 1 < MaxSeq /\ gen[Owner[l]] > 0
    /\ gen[l] = 0 /\ outbox[l] = NoEntry /\ ver[l] = NoEntry
    /\ \A b \in late \cup call : \A e \in b : e.id # l
    /\ seq' = seq + 2
    /\ gen' = [gen EXCEPT ![l] = seq + 1, ![Owner[l]] = seq']
    /\ outbox' = [outbox EXCEPT ![l] = Entry(seq + 1, FALSE), ![Owner[l]] = Entry(seq', FALSE)]
    /\ UNCHANGED <<network, central>>

\* Mutant: a transcript that is trimmed leaves no tombstone.
DropLogSilent(l) ==
    /\ seq + 1 < MaxSeq /\ gen[l] > 0
    /\ seq' = seq + 2
    /\ gen' = [gen EXCEPT ![l] = 0, ![Owner[l]] = seq']
    /\ outbox' = [outbox EXCEPT ![l] = NoEntry, ![Owner[l]] = Entry(seq', FALSE)]
    /\ UNCHANGED <<network, central>>

\* management_log_delete: only the last transcripts of a recipient are kept.
DropLog(l) ==
    /\ seq + 1 < MaxSeq /\ gen[l] > 0
    /\ seq' = seq + 2
    /\ gen' = [gen EXCEPT ![l] = 0, ![Owner[l]] = seq']
    /\ outbox' = [outbox EXCEPT ![l] = Entry(seq + 1, TRUE), ![Owner[l]] = Entry(seq', FALSE)]
    /\ UNCHANGED <<network, central>>

-----------------------------------------------------------------------------
(* The node: one batch at a time                                            *)

Pending(S) == {x \in S : outbox[x] # NoEntry}

Oldest(S) ==
    {x \in Pending(S) : Cardinality({y \in Pending(S) : outbox[y].gen < outbox[x].gen}) < BatchSize}

Batch(S) == {[id |-> x, gen |-> outbox[x].gen, deleted |-> outbox[x].deleted] : x \in Oldest(S)}

Send(S) ==
    /\ call = {} /\ Pending(S) # {} /\ Cardinality(late) < MaxLate
    /\ call' = {Batch(S)} /\ late' = late \cup {Batch(S)} /\ answer' = FALSE
    /\ UNCHANGED <<node, central>>

\* history::export.
ExportMessages == Send(Messages)

\* Mutant: a transcript is sent although its message was not.
ExportLogsEarly == Send(Logs)

\* logs::export: a transcript waits until its message is synchronized.
ExportLogs == Send({l \in Logs : outbox[Owner[l]] = NoEntry})

\* Mutant: a receipt that was on its way is kept for the next batch.
GiveUpKeep ==
    /\ call # {}
    /\ call' = {}
    /\ UNCHANGED <<node, late, answer, central>>

\* The request times out or the node restarts.
GiveUp ==
    /\ call # {}
    /\ call' = {} /\ answer' = FALSE
    /\ UNCHANGED <<node, late, central>>

\* Mutant: the receipt removes the entry whatever its generation.
AcknowledgeAny ==
    /\ answer
    /\ outbox' = [x \in Objects |->
                    IF \E b \in call : \E e \in b : e.id = x THEN NoEntry ELSE outbox[x]]
    /\ call' = {} /\ answer' = FALSE
    /\ UNCHANGED <<seq, gen, late, central>>

\* Mutant: receipts of tombstones are not recognised.
AcknowledgeLive ==
    /\ answer
    /\ outbox' = [x \in Objects |->
                    IF \E b \in call : [id |-> x, gen |-> outbox[x].gen, deleted |-> FALSE] \in b
                    THEN NoEntry ELSE outbox[x]]
    /\ call' = {} /\ answer' = FALSE
    /\ UNCHANGED <<seq, gen, late, central>>

\* outbox::acknowledge and logs::acknowledge.
Acknowledge ==
    /\ answer
    /\ outbox' = [x \in Objects |->
                    IF \E b \in call : [id |-> x, gen |-> outbox[x].gen,
                                        deleted |-> outbox[x].deleted] \in b
                    THEN NoEntry ELSE outbox[x]]
    /\ call' = {} /\ answer' = FALSE
    /\ UNCHANGED <<seq, gen, late, central>>

-----------------------------------------------------------------------------
(* Central management                                                       *)

\* A transcript of a deleted message is confirmed and dropped.
Ignored(e) == e.id \in Logs /\ ver[Owner[e.id]].deleted

\* Mutant: transcripts do not look at the tombstone of their message.
NewAnyway(e) == e.gen > ver[e.id].gen

\* An entry that changes something; an older or equal generation is confirmed.
New(e) == e.gen > ver[e.id].gen /\ ~Ignored(e)

\* What makes the transaction fail: a message not known yet, a resurrection.
Refused(e) ==
    \/ e.id \in Logs /\ ver[Owner[e.id]] = NoEntry
    \/ New(e) /\ ver[e.id].deleted /\ ~e.deleted

Applied(b, x) == {e \in b : e.id = x /\ New(e)}
Erased(b, x)  == x \in Logs /\ \E e \in Applied(b, Owner[x]) : e.deleted

\* ingest_batch, ingest_log_batch: one transaction; deleting a message deletes
\* its transcripts.  The sender of a refused batch gets an error.
Ingest(b) ==
    /\ b \in late
    /\ late' = late \ {b}
    /\ LET ok == enabled /\ ~ \E e \in b : Refused(e)
       IN  /\ answer' = (answer \/ (ok /\ b \in call))
           /\ call' = IF ok THEN call ELSE call \ {b}
           /\ ver' = IF ~ok THEN ver ELSE
                [x \in Objects |-> IF Applied(b, x) = {} THEN ver[x] ELSE
                     LET e == CHOOSE e \in Applied(b, x) : TRUE IN Entry(e.gen, e.deleted)]
           /\ view' = IF ~ok THEN view ELSE
                [x \in Objects |-> IF Erased(b, x) THEN 0
                     ELSE IF Applied(b, x) = {} THEN view[x] ELSE
                     LET e == CHOOSE e \in Applied(b, x) : TRUE
                     IN  IF e.deleted THEN 0 ELSE e.gen]
    /\ UNCHANGED <<node, enabled, edits>>

\* The connection breaks before central management reads the batch.
Lose(b) ==
    /\ b \in late
    /\ late' = late \ {b}
    /\ UNCHANGED <<node, call, answer, central>>

\* Central::edit_node: an administrator revokes the node or admits it again.
EditNode ==
    /\ edits < MaxEdits
    /\ enabled' = ~enabled /\ edits' = edits + 1
    /\ UNCHANGED <<node, network, ver, view>>

Next ==
    \/ \E m \in Messages : ChangeMessage(m) \/ DeleteMessage(m)
    \/ \E l \in Logs : AddLog(l) \/ DropLog(l)
    \/ ExportMessages \/ ExportLogs \/ GiveUp \/ Acknowledge
    \/ \E b \in late : Ingest(b) \/ Lose(b)
    \/ EditNode

Spec == Init /\ [][Next]_vars

\* run_remote never stops exporting; the network answers a batch again and again
\* unless the node stays revoked.
Fairness ==
    /\ WF_vars(ExportMessages) /\ WF_vars(ExportLogs)
    /\ SF_vars(\E b \in late \cap call : Ingest(b)) /\ WF_vars(\E b \in late : Ingest(b))
    /\ WF_vars(GiveUp) /\ SF_vars(Acknowledge)

FairSpec == Spec /\ Fairness

-----------------------------------------------------------------------------
(* Properties                                                               *)

\* Every variable keeps its shape; a receipt answers the batch the node waits for.
TypeOK ==
    /\ seq \in 0..MaxSeq /\ gen \in [Objects -> 0..MaxSeq]
    /\ outbox \in [Objects -> [gen : 0..MaxSeq, deleted : BOOLEAN]]
    /\ ver \in [Objects -> [gen : 0..MaxSeq, deleted : BOOLEAN]]
    /\ view \in [Objects -> 0..MaxSeq]
    /\ Cardinality(call) <= 1 /\ (answer => call # {})

\* When the outbox no longer holds a message, central management shows exactly
\* its latest state: no receipt, lost, late or repeated, hides a change.
NoChangeLost ==
    \A m \in Messages : outbox[m] = NoEntry => view[m] = gen[m]

\* The same for the transcripts of messages the node still has.
NoTranscriptLost ==
    \A l \in Logs :
        (outbox[l] = NoEntry /\ outbox[Owner[l]] = NoEntry) => view[l] = gen[l]

\* Nothing of a deleted message is ever shown again, whatever batch arrives late.
DeletedStaysDeleted ==
    \A x \in Objects :
        (ver[x].deleted \/ (x \in Logs /\ ver[Owner[x]].deleted)) => view[x] = 0

\* A batch is refused only by a revocation: no legal order of changes, exports
\* and late commits makes central management reject the node's entries forever.
NeverRefused == \A b \in late : \A e \in b : ~Refused(e)

\* Once changes stop and the node is admitted, everything is synchronized.
Converges ==
    []<>(~enabled \/ \A x \in Objects : outbox[x] = NoEntry /\ view[x] = gen[x])
=============================================================================
