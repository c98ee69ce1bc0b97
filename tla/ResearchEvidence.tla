-------------------------- MODULE ResearchEvidence --------------------------
(***************************************************************************)
(* Human labels and frozen samples (src/central/quality.rs), what of them  *)
(* periodic training may use (central/schema.sql, central/adaptive.rs,     *)
(* quality/reservations.rs), their retirement (central/retention.rs), and  *)
(* the account of what was exported before (quality/exposure.rs).          *)
(* Exports run at repeatable read: what one sees is fixed before it waits  *)
(* for the management lock.                                                *)
(***************************************************************************)
EXTENDS Integers, FiniteSets, Sequences

CONSTANTS
    Msgs,
    Hashes,              \* of every message: the similarity hashes it may have, sets of bits 0..7
    Samples,             \* of every sample: its purpose
    Exporters,           \* exports that may overlap
    Keep,                \* how long labels, samples and exposures count
    Labels,              \* whether messages are labelled and corrected
    MaxTime, MaxExports  \* bounds

VARIABLES
    now,
    hash,
    msg,         \* of every message: when it was received
    batch,       \* of every sample: when it was drawn, and its members
    label,       \* of every message: when it was last labelled
    corrected,   \* messages with ordinary feedback and an adaptive label
    reserved,    \* quality_reserved
    judged,      \* history: messages ever labelled or drawn to evaluate
    generation, exposed,   \* the account: counter; when samples and messages were last exported
    export,      \* of every exporter: its snapshot
    out          \* history: what was exported

vars == <<now, hash, msg, batch, label, corrected, reserved, judged, generation, exposed, export, out>>
account == <<generation, exposed, export, out>>

None  == [none |-> TRUE]
Never == -1
Gone  == -2
Retired == [none |-> FALSE]

Stored == {m \in Msgs : msg[m] >= 0}
Recent(t) == t >= now - Keep
Drawn(b) == batch[b] \notin {None, Retired}

Init ==
    /\ now = 0 /\ hash \in {h \in [Msgs -> UNION {Hashes[m] : m \in Msgs}] : \A m \in Msgs : h[m] \in Hashes[m]}
    /\ msg = [m \in Msgs |-> Never]
    /\ batch = [b \in DOMAIN Samples |-> None]
    /\ label = [m \in Msgs |-> Never]
    /\ corrected = {} /\ reserved = {} /\ judged = {}
    /\ generation = 0 /\ exposed = [batch |-> [b \in DOMAIN Samples |-> Never], msg |-> [m \in Msgs |-> Never]]
    /\ export = [e \in Exporters |-> None] /\ out = << >>

-----------------------------------------------------------------------------
(* Similarity of campaigns                                                  *)

Distance(a, b) == Cardinality((a \ b) \cup (b \ a))
Block(h, i) == h \cap {2 * i, 2 * i + 1}

\* Mutant: the last block is left out of the index.
NearInThree(a, b) == \E i \in 0..2 : Block(a, i) = Block(b, i) /\ Distance(a, b) <= 3

\* Index: hashes are found by any of four blocks, then compared.
Near(a, b) == \E i \in 0..3 : Block(a, i) = Block(b, i) /\ Distance(a, b) <= 3

-----------------------------------------------------------------------------
(* Messages, labels and samples                                             *)

Receive(m) ==
    /\ msg[m] = Never /\ msg' = [msg EXCEPT ![m] = now]
    /\ UNCHANGED <<now, hash, batch, label, corrected, reserved, judged, account>>

\* The owner's deletion reaches the database: all that refers to it goes along.
Remove(m) ==
    /\ m \in Stored /\ msg' = [msg EXCEPT ![m] = Gone]
    /\ batch' = [b \in DOMAIN batch |-> IF Drawn(b) THEN [batch[b] EXCEPT !.members = @ \ {m}] ELSE batch[b]]
    /\ label' = [label EXCEPT ![m] = Never]
    /\ corrected' = corrected \ {m} /\ reserved' = reserved \ {m}
    /\ UNCHANGED <<now, hash, judged, account>>

\* quality_label, quality_label_bulk.
Label(m) ==
    /\ Labels /\ m \in Stored /\ Recent(msg[m])
    /\ label' = [label EXCEPT ![m] = now] /\ judged' = judged \cup {m}
    /\ UNCHANGED <<now, hash, msg, batch, corrected, reserved, account>>

\* adaptive_label, and the ordinary correction with it.  (Withdrawing one only
\* takes messages out of training.)
Correct(m) ==
    /\ Labels /\ m \in Stored \ corrected /\ Recent(msg[m]) /\ corrected' = corrected \cup {m}
    /\ UNCHANGED <<now, hash, msg, batch, label, reserved, judged, account>>

\* quality_sample: some of the recent messages, frozen.
Sample(b) ==
    /\ batch[b] = None
    /\ \E S \in SUBSET {m \in Stored : Recent(msg[m])} \ {{}} :
         /\ batch' = [batch EXCEPT ![b] = [created |-> now, members |-> S]]
         /\ judged' = IF Samples[b] = "development" THEN judged ELSE judged \cup S
    /\ UNCHANGED <<now, hash, msg, label, corrected, reserved, account>>

-----------------------------------------------------------------------------
(* Training                                                                 *)

\* The view quality_protected_messages.
Protected ==
    reserved \cup UNION {batch[b].members : b \in {b \in DOMAIN Samples : Drawn(b) /\ Samples[b] # "development"}}

\* The view training_feedback.
Training == {m \in corrected : label[m] = Never /\ m \notin Protected}

\* reservations and Reserved::contains: campaigns of protected messages stay out.
Reserves(m) == \E p \in Protected : Recent(msg[p]) /\ (p = m \/ Distance(hash[p], hash[m]) <= 3)

\* What an adaptive export takes.
Exportable == {m \in Training : Recent(msg[m]) /\ ~Reserves(m)}

-----------------------------------------------------------------------------
(* Retirement                                                               *)

OldLabels == {m \in Msgs : label[m] >= 0 /\ ~Recent(label[m])}
OldSamples == {b \in DOMAIN Samples : Drawn(b) /\ ~Recent(batch[b].created)}

\* Mutant: a label that expires leaves nothing.
ReservedSample(b) == IF Samples[b] = "development" THEN {} ELSE batch[b].members
ReservedWithSample(bs) == UNION {ReservedSample(b) : b \in bs}

\* Expiring a label or an evaluation sample must not make its messages eligible
\* for training again.
ReservedOnExpiry(bs) == OldLabels \cup UNION {ReservedSample(b) : b \in bs}

Dropped(t) == IF t >= 0 /\ ~Recent(t) THEN Never ELSE t
Pruned == [batch |-> [b \in DOMAIN Samples |-> Dropped(exposed.batch[b])],
           msg |-> [m \in Msgs |-> Dropped(exposed.msg[m])]]

\* One transaction: labels, the oldest sample, and exposures past their time.
Cleanup ==
    \E bs \in IF OldSamples = {} THEN {{}}
              ELSE {{b} : b \in {b \in OldSamples : \A a \in OldSamples : batch[b].created <= batch[a].created}} :
      /\ OldLabels # {} \/ bs # {} \/ Pruned # exposed
      /\ reserved' = reserved \cup ReservedOnExpiry(bs)
      /\ label' = [m \in Msgs |-> IF m \in OldLabels THEN Never ELSE label[m]]
      /\ batch' = [b \in DOMAIN batch |-> IF b \in bs THEN Retired ELSE batch[b]]
      /\ exposed' = Pruned /\ generation' = generation + IF Pruned = exposed THEN 0 ELSE 1
      /\ UNCHANGED <<now, hash, msg, corrected, judged, export, out>>

-----------------------------------------------------------------------------
(* Export                                                                   *)

\* The snapshot, taken by the statement that waits for the lock.
BeginExport(e, b) ==
    /\ export[e] = None /\ Len(out) < MaxExports /\ Drawn(b) /\ Recent(batch[b].created)
    /\ export' = [export EXCEPT ![e] = [b |-> b, generation |-> generation, exposed |-> exposed,
                                        rows |-> {m \in batch[b].members : Recent(msg[m])}]]
    /\ UNCHANGED <<now, hash, msg, batch, label, corrected, reserved, judged, generation, exposed, out>>

\* Mutant: whoever gets the lock goes on.
SerializedByLock(x) == TRUE

\* The counter was written since: the update fails, and the export with it.
Serialized(x) == x.generation = generation

\* record_exposure, on the snapshot: the sample was exported before, or a message
\* of one of its campaigns was, within the time exposures count.
Known(x) ==
    \/ x.exposed.batch[x.b] >= 0
    \/ \E m \in x.rows, p \in Msgs :
         x.exposed.msg[p] >= 0 /\ Recent(x.exposed.msg[p]) /\ (p = m \/ Near(hash[p], hash[m]))

CommitExport(e) ==
    LET x == export[e] IN
    /\ x # None /\ Len(out) < MaxExports /\ Serialized(x)
    /\ generation' = generation + 1
    /\ exposed' = [batch |-> [Pruned.batch EXCEPT ![x.b] = now],
                   msg |-> [m \in Msgs |-> IF m \in x.rows THEN now ELSE Pruned.msg[m]]]
    /\ out' = Append(out, [b |-> x.b, rows |-> x.rows, at |-> now, clear |-> ~Known(x)])
    /\ export' = [export EXCEPT ![e] = None]
    /\ UNCHANGED <<now, hash, msg, batch, label, corrected, reserved, judged>>
ExportFails(e) ==
    /\ export[e] # None /\ export' = [export EXCEPT ![e] = None]
    /\ UNCHANGED <<now, hash, msg, batch, label, corrected, reserved, judged, generation, exposed, out>>

Tick ==
    /\ now < MaxTime /\ now' = now + 1
    /\ UNCHANGED <<hash, msg, batch, label, corrected, reserved, judged, account>>

Next ==
    \/ \E m \in Msgs : Receive(m) \/ Remove(m) \/ Label(m) \/ Correct(m)
    \/ \E b \in DOMAIN Samples : Sample(b) \/ \E e \in Exporters : BeginExport(e, b)
    \/ \E e \in Exporters : CommitExport(e) \/ ExportFails(e)
    \/ Cleanup \/ Tick

Spec == Init /\ [][Next]_vars

-----------------------------------------------------------------------------
(* Properties                                                               *)

\* A message that was ever labelled, or drawn into a sample to evaluate, is never
\* training feedback while it is stored - however labels and samples expire - and
\* so never in an adaptive export.
NeverRelapses == judged \cap (Training \cup Exportable) = {}

\* An export that claims its sample was not examined before is the first of that
\* sample and of its campaigns for as long as exposures count, also when two
\* exports overlap.
ClearMeansFirst ==
    \A i, k \in DOMAIN out :
        i < k /\ out[k].clear /\ out[i].at >= out[k].at - Keep =>
            /\ out[i].b # out[k].b
            /\ \A m \in out[k].rows, p \in out[i].rows : Distance(hash[m], hash[p]) > 3
=============================================================================
