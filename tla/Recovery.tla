------------------------------ MODULE Recovery ------------------------------
(***************************************************************************)
(* Fenced recovery of a coordinator's queue (src/ha/recovery.rs).          *)
(*                                                                         *)
(* A queue works and copies its messages to a peer's journal; checkpoints  *)
(* of its database are taken from time to time.  When it is lost and       *)
(* fenced, the journal is laid over a staged checkpoint, one message at a  *)
(* time, and the result is started.  A restore may be interrupted and run  *)
(* again, and the restored queue may be lost in its turn.                  *)
(* Mail has one recipient.  Identities are numbers in the order of the     *)
(* text they stand for: mail (a UUID below "dsn-"), then dsn-1, dsn-2...   *)
(***************************************************************************)
EXTENDS Naturals, FiniteSets, FiniteSetsExt

CONSTANTS
    Mails,        \* number of messages
    MaxRow,       \* bound: delivery rows
    MaxGen,       \* bound: generations of a message
    MaxRestores   \* bound: restores

Mail   == 1..Mails
Dsn(r) == Mails + r
Ids    == 1..(Mails + MaxRow)

\* "held" is a quarantined delivery without held_until.
Statuses == {"pending", "sending", "delivered", "failed", "notified", "quarantined", "held", "discarded"}
Resolved == {"delivered", "notified", "discarded"}

VARIABLES
    db,         \* the queue's database: messages, ha_recoveries, the operation's marker
    saved,      \* the last checkpoint of it
    journal,    \* the peer's ha_remote
    phase,      \* up, lost or restoring
    operation,  \* the fence receipt's operation
    attempt,    \* upstream's answer to the running attempt
    taken,      \* history: messages an upstream accepted
    accepted    \* history: messages answered 250

vars == <<db, saved, journal, phase, operation, attempt, taken, accepted>>

Absent     == [status |-> "absent"]
Missing(f) == {i \in Ids : f[i] = Absent}
Known(f)   == Ids \ Missing(f)

\* A message of the database and a manifest of the journal.
Message(row, status, gen, dsn) == [row |-> row, status |-> status, gen |-> gen, dsn |-> dsn]
Manifest(m, confirmed) == [status |-> m.status, gen |-> m.gen, dsn |-> m.dsn, confirmed |-> confirmed]

Empty == [msgs |-> [i \in Ids |-> Absent], done |-> {}, op |-> 0]

Init ==
    /\ db = Empty /\ saved = Empty
    /\ journal = [i \in Ids |-> Absent]
    /\ phase = "up" /\ operation = 0
    /\ attempt = [i \in Ids |-> "none"] /\ taken = {} /\ accepted = {}

-----------------------------------------------------------------------------
(* The queue at work                                                        *)

Msgs       == db.msgs
Synced(i)  == journal[i] # Absent /\ journal[i].gen = Msgs[i].gen
NextRow(d) == 1 + Max({0} \cup {d.msgs[i].row : i \in Known(d.msgs)})

Set(i, s) ==
    /\ Msgs[i].gen < MaxGen
    /\ db' = [db EXCEPT !.msgs[i] = [@ EXCEPT !.status = s, !.gen = @ + 1]]

\* replica::prepare: a candidate reaches the peer before the queue commits.
Prepare(m) ==
    /\ phase = "up" /\ Msgs[m] = Absent /\ journal[m] = Absent
    /\ journal' = [journal EXCEPT ![m] = Manifest(Message(0, "pending", 0, 0), FALSE)]
    /\ UNCHANGED <<db, saved, phase, operation, attempt, taken, accepted>>

Commit(m) ==
    /\ phase = "up" /\ Msgs[m] = Absent /\ journal[m] # Absent /\ ~journal[m].confirmed
    /\ NextRow(db) <= MaxRow
    /\ \E s \in {"pending", "quarantined"} :
         db' = [db EXCEPT !.msgs[m] = Message(NextRow(db), s, 1, 0)]
    /\ accepted' = accepted \cup {m}
    /\ UNCHANGED <<saved, journal, phase, operation, attempt, taken>>

\* synchronize_message: the journal takes the current generation.
Synchronize(i) ==
    /\ phase = "up" /\ Msgs[i] # Absent
    /\ journal[i] # Manifest(Msgs[i], TRUE)
    /\ journal' = [journal EXCEPT ![i] = Manifest(Msgs[i], TRUE)]
    /\ UNCHANGED <<db, saved, phase, operation, attempt, taken, accepted>>

Claim(i) ==
    /\ phase = "up" /\ Msgs[i].status = "pending" /\ Set(i, "sending")
    /\ UNCHANGED <<saved, journal, phase, operation, attempt, taken, accepted>>

\* The upstream connection, once the peer knows of the intent.
Contact(i) ==
    /\ phase = "up" /\ Msgs[i].status = "sending" /\ Synced(i) /\ attempt[i] = "none"
    /\ \E answer \in {"taken", "refused"} :
         /\ attempt' = [attempt EXCEPT ![i] = answer]
         /\ taken' = IF answer = "taken" THEN taken \cup {i} ELSE taken
    /\ UNCHANGED <<db, saved, journal, phase, operation, accepted>>

Finish(i) ==
    /\ phase = "up" /\ attempt[i] # "none"
    /\ \E s \in IF attempt[i] = "taken" THEN {"delivered"} ELSE {"pending", "failed"} : Set(i, s)
    /\ attempt' = [attempt EXCEPT ![i] = "none"]
    /\ UNCHANGED <<saved, journal, phase, operation, taken, accepted>>

\* enqueue_dsn on a coordinator: the report is named after the failure's row.
Notify(m) ==
    /\ phase = "up" /\ m \in Mail /\ Msgs[m].status = "failed"
    /\ NextRow(db) <= MaxRow /\ Msgs[m].gen < MaxGen
    /\ LET dsn == Dsn(Msgs[m].row)
       IN  /\ Msgs[dsn] = Absent
           /\ db' = [db EXCEPT !.msgs[dsn] = Message(NextRow(db), "pending", 1, 0),
                               !.msgs[m] = Message(@.row, "notified", @.gen + 1, dsn)]
    /\ UNCHANGED <<saved, journal, phase, operation, attempt, taken, accepted>>

\* quarantine_action, and cluster commands alike: a release or a delete wants a
\* deadline that has not passed.
MayDecide(i) == Msgs[i].status = "quarantined"
Decide(i) ==
    /\ phase = "up" /\ MayDecide(i)
    /\ Set(i, "pending") \/ Set(i, "discarded")
    /\ UNCHANGED <<saved, journal, phase, operation, attempt, taken, accepted>>

\* snapshot_database: one committed view.
Checkpoint ==
    /\ phase = "up" /\ saved # db
    /\ saved' = db
    /\ UNCHANGED <<db, journal, phase, operation, attempt, taken, accepted>>

\* The owner is lost and fenced; only its checkpoint and the journal are left.
Lose ==
    /\ phase = "up" /\ operation < MaxRestores
    /\ phase' = "lost" /\ db' = saved
    /\ attempt' = [i \in Ids |-> "none"]
    /\ UNCHANGED <<saved, journal, operation, taken, accepted>>

-----------------------------------------------------------------------------
(* The restore                                                              *)

\* Receipts of messages already restored count only for their own operation.
Begun(op) == [db EXCEPT !.done = IF db.op = op THEN @ ELSE {}, !.op = op]

\* restore_queue_mode up to its first commit; a new fence receipt, or the same
\* one after an interruption.
Begin ==
    /\ phase \in {"lost", "restoring"}
    /\ \E op \in {operation, operation + 1} :
         /\ op <= MaxRestores /\ (phase = "lost" => op = operation + 1)
         /\ operation' = op /\ db' = Begun(op)
    /\ Known(Msgs) \subseteq Known(journal)
    /\ phase' = "restoring"
    /\ UNCHANGED <<saved, journal, attempt, taken, accepted>>

\* Mutant: the checkpoint wins over the journal whatever their generations.
FreshestAlways(i) ==
    IF Msgs[i] # Absent THEN Manifest(Msgs[i], TRUE) ELSE journal[i]

\* The checkpoint is used when it is at least as new as the journal.
Freshest(i) ==
    IF Msgs[i] # Absent /\ Msgs[i].gen >= journal[i].gen THEN Manifest(Msgs[i], TRUE)
    ELSE journal[i]

\* Mutant: an attempt whose outcome is unknown goes back to the queue.
RestoredRetry(m) ==
    IF (~m.confirmed /\ m.status \notin Resolved)
       \/ (m.status = "notified" /\ journal[m.dsn] = Absent) THEN "held"
    ELSE IF m.status = "sending" THEN "pending" ELSE m.status

\* Mutant: a report that is missing is not looked for.
RestoredUnreported(m) ==
    IF (~m.confirmed /\ m.status \notin Resolved) \/ m.status = "sending" THEN "held" ELSE m.status

\* What becomes of a recipient: an unconfirmed acceptance, an attempt whose
\* outcome is unknown, and a report that is missing are held.
Restored(m) ==
    IF \/ ~m.confirmed /\ m.status \notin Resolved
       \/ m.status = "sending"
       \/ m.status = "notified" /\ journal[m.dsn] = Absent
    THEN "held" ELSE m.status

\* Mutant: the restored message keeps the generation of its copy.
RestoreOneAcked ==
    /\ phase = "restoring" /\ Known(journal) \ db.done # {}
    /\ LET i == Min(Known(journal) \ db.done)
           m == Freshest(i)
       IN  db' = [db EXCEPT
                    !.msgs[i] = Message(IF Msgs[i] = Absent THEN NextRow(db) ELSE @.row,
                                        Restored(m), m.gen, m.dsn),
                    !.done = @ \cup {i}]
    /\ UNCHANGED <<saved, journal, phase, operation, attempt, taken, accepted>>

\* One message, in the order of identities: body, row, receipt, generation.
RestoreOne ==
    /\ phase = "restoring" /\ Known(journal) \ db.done # {}
    /\ LET i == Min(Known(journal) \ db.done)
           m == Freshest(i)
           g == IF Msgs[i] = Absent THEN 0 ELSE Msgs[i].gen
       IN  db' = [db EXCEPT
                    !.msgs[i] = Message(IF Msgs[i] = Absent THEN NextRow(db) ELSE @.row,
                                        Restored(m), Max({g, m.gen + 1}), m.dsn),
                    !.done = @ \cup {i}]
    /\ UNCHANGED <<saved, journal, phase, operation, attempt, taken, accepted>>

\* Everything is restored and the operator starts the queue.
Start ==
    /\ phase = "restoring" /\ Known(journal) \subseteq db.done
    /\ phase' = "up"
    /\ UNCHANGED <<db, saved, journal, operation, attempt, taken, accepted>>

Next ==
    \/ \E m \in Mail : Prepare(m) \/ Commit(m) \/ Notify(m)
    \/ \E i \in Ids : Synchronize(i) \/ Claim(i) \/ Decide(i) \/ Contact(i) \/ Finish(i)
    \/ Checkpoint \/ Lose \/ Begin \/ RestoreOne \/ Start

Spec == Init /\ [][Next]_vars

-----------------------------------------------------------------------------
(* Properties                                                               *)

\* Messages whose state in the database is final for this phase.
Settled(i) == phase = "up" \/ (phase = "restoring" /\ i \in db.done)

\* What an upstream accepted is never queued again, nor reported as failed, by
\* any restore, interrupted, repeated or followed by another one.
NeverSentAgain ==
    \A i \in taken : Settled(i) => Msgs[i].status \in {"sending", "delivered", "held"}

\* Mail that was answered 250 is in every queue that is started afterwards, and
\* a failure that was reported keeps its report or is held.
NothingLost ==
    phase = "up" =>
        /\ accepted \subseteq Known(Msgs)
        /\ \A m \in Known(Msgs) : Msgs[m].status = "notified" => Msgs[Msgs[m].dsn] # Absent

RestoredStep ==
    \A i \in Ids : (phase = "restoring" /\ i \in db'.done \ db.done)
                      => db'.msgs[i].gen > journal[i].gen

\* A restored message is known to the peer under a lower generation only: its
\* next attempt waits for a new acknowledgement.
RestoredUnacknowledged == [][RestoredStep]_vars

\* enqueue_dsn's assertion "DSN identity already belongs to a stored message"
\* never fails: a failure that needs a report finds its name free.
FreshDsnIdentity ==
    phase = "up" =>
        \A m \in Mail \cap Known(Msgs) : Msgs[m].status = "failed" => Msgs[Dsn(Msgs[m].row)] = Absent

\* A held message can be released or deleted once its fate upstream is known, as
\* the operator is told to do.
HeldCanBeReleased ==
    phase = "up" => \A i \in Known(Msgs) : Msgs[i].status \in {"held", "quarantined"} => MayDecide(i)
=============================================================================
