------------------------------- MODULE Cutover -------------------------------
(***************************************************************************)
(* The move of a cluster's management data from the SQLite files of its    *)
(* nodes to one PostgreSQL database (src/central/import, selection.rs,     *)
(* binding.rs, bootstrap.rs, driven by deploy/postgresql).  Every source   *)
(* is fenced and frozen in a session that holds its locks and its write    *)
(* reservation; the exports are copied to a fresh inactive destination;    *)
(* inside one activation transaction of the destination every original is  *)
(* bound to it, in turn and for good, and only then is it activated.       *)
(* Sessions, the database transaction and the controller can end at any    *)
(* step; a later run continues from what is durable.                       *)
(***************************************************************************)
EXTENDS Naturals, Sequences, FiniteSets

CONSTANTS
    Sources,                       \* the nodes
    None,
    MaxDest, MaxWrites, MaxSeeds, MaxEnds  \* bounds

VARIABLES
    data, gen,  \* of every source: its writes, and the generation of its seeds
    sel,        \* its durable selection: the destination it is bound to
    svc,        \* its service: "legacy", "stopped" or "central"
    ses,        \* its session: the journal of the receipt and the prior selection
    agent,      \* the supervisor's durable record at the source
    dest,       \* the import receipts of the destinations used so far
    ctl,        \* the controller: what it saved, and what it only remembers
    ends        \* number of failures so far

vars == <<data, gen, sel, svc, ses, agent, dest, ctl, ends>>
sourceVars == <<data, gen, sel, svc>>

Closed == [open |-> FALSE, journal |-> [data |-> 0, gen |-> 0], prior |-> None]
NewAgent == [phase |-> "new", hold |-> FALSE, proposal |-> None, receipt |-> None]
Phases == <<"claimed", "accounts", "metadata", "recipient_ids", "smtp_logs", "quality",
            "copied_not_activated">>
Forgotten == [ready |-> << >>, tx |-> FALSE, barrier |-> FALSE]

Init ==
    /\ data = [n \in Sources |-> 0] /\ gen = [n \in Sources |-> 0]
    /\ sel = [n \in Sources |-> None] /\ svc = [n \in Sources |-> "legacy"]
    /\ ses = [n \in Sources |-> Closed] /\ agent = [n \in Sources |-> NewAgent]
    /\ dest = << >> /\ ends = 0
    /\ ctl = [phase |-> "new", binding |-> None, mem |-> Forgotten]

-----------------------------------------------------------------------------
(* The sources                                                              *)

\* Mutant: the journal does not cover what the exporter left out.
JournalOfSeeds(n) == [data |-> 0, gen |-> gen[n]]

\* status of the outbox journal: it covers every write and every seed.
Journal(n) == [data |-> data[n], gen |-> gen[n]]

\* A service, or a command of an administrator, writes a source of the old format
\* that no session reserves; a selected source is refused by that code.
Write(n) ==
    /\ sel[n] = None /\ ~ses[n].open /\ data[n] < MaxWrites
    /\ data' = [data EXCEPT ![n] = @ + 1]
    /\ UNCHANGED <<gen, sel, svc, ses, agent, dest, ctl, ends>>

\* Mutant: every session seeds again.
SeedAlways(n, preserve) == sel[n] = None

\* with_source seeds the journal; with_seeded_source and with_selected_source
\* leave its generations alone.
Seed(n, preserve) == sel[n] = None /\ ~preserve

\* open_source: an original in the old format, or the selection a recovery expects.
Openable(n) == sel[n] # None => sel[n] = agent[n].proposal

\* fence: a first one needs a running service and an original; it is in force, and
\* the service stopped, before anything is read.
Fenceable(n) ==
    /\ agent[n].phase \notin {"cancelled", "started"}
    /\ agent[n].phase = "new" => svc[n] = "legacy" /\ sel[n] = None
Fenced(n) == [agent[n] EXCEPT !.hold = TRUE, !.phase = "stopped"]

\* freeze: the service is fenced and stopped, the locks are taken, the journal is
\* seeded or read, the write reservation held, and the export receipt saved.  It
\* may end after the seeds, and it is refused when the journal of a receipt that is
\* still needed has changed: the fence stays, and the run of the controller is over.
Freeze(n, done) ==
    LET preserve == ctl.binding # None
        seeded == IF Seed(n, preserve) THEN gen[n] + 1 ELSE gen[n]
        journal == [Journal(n) EXCEPT !.gen = seeded] IN
    /\ ctl.phase = "freezing" /\ n \notin DOMAIN ctl.mem.ready
    /\ preserve => agent[n].receipt # None
    /\ Fenceable(n) /\ Openable(n)
    /\ seeded <= MaxSeeds
    /\ gen' = [gen EXCEPT ![n] = seeded]
    /\ svc' = [svc EXCEPT ![n] = "stopped"]
    /\ done \/ ends < MaxEnds
    /\ ends' = IF done THEN ends ELSE ends + 1
    /\ IF ~done \/ (preserve /\ journal # agent[n].receipt)
       THEN /\ agent' = [agent EXCEPT ![n] = Fenced(n)]
            /\ ses' = [m \in Sources |-> Closed]
            /\ ctl' = [ctl EXCEPT !.mem = Forgotten]
       ELSE /\ agent' = [agent EXCEPT ![n] = [Fenced(n) EXCEPT !.phase = "frozen", !.receipt = journal]]
            /\ ses' = [ses EXCEPT ![n] = [open |-> TRUE, journal |-> journal, prior |-> sel[n]]]
            /\ ctl' = [ctl EXCEPT !.mem.ready =
                        [x \in DOMAIN @ \cup {n} |-> IF x = n THEN journal ELSE @[x]]]
    /\ UNCHANGED <<data, sel, dest>>

\* The lease ends or the process dies: nothing of an open transaction remains.
SessionEnds(n) ==
    /\ ses[n].open /\ ends < MaxEnds
    /\ ses' = [ses EXCEPT ![n] = Closed] /\ ends' = ends + 1
    /\ UNCHANGED <<sourceVars, agent, dest, ctl>>

-----------------------------------------------------------------------------
(* The destination                                                          *)

\* The destination in use is the last one claimed.
d == Len(dest)

\* PreparedImport: the parts of every source, whose digest stands for them all.
Captured == DOMAIN ctl.mem.ready = Sources

\* stage_import: a fresh destination is claimed under a new instance; what it was
\* captured from is its digest.  Exports keep the generations of the originals.
Stage ==
    /\ ctl.phase = "freezing" /\ ctl.binding = None /\ Captured
    /\ d < MaxDest
    /\ dest' = Append(dest, [phase |-> 1, digest |-> ctl.mem.ready, active |-> FALSE, sels |-> << >>])
    /\ ctl' = [ctl EXCEPT !.phase = "importing"]
    /\ UNCHANGED <<sourceVars, ses, agent, ends>>

\* import_phase: every copied part is recorded; the last phase follows the
\* comparison of the whole destination with the capture.
Copy ==
    /\ ctl.phase = "importing" /\ dest[d].phase \in 1..(Len(Phases) - 1)
    /\ dest' = [dest EXCEPT ![d].phase = @ + 1]
    /\ UNCHANGED <<sourceVars, ses, agent, ctl, ends>>

\* A failed import is marked and never used again.
CopyFails ==
    /\ ctl.phase = "importing" /\ ends < MaxEnds /\ ends' = ends + 1
    /\ dest[d].phase \in 1..(Len(Phases) - 1)
    /\ dest' = [dest EXCEPT ![d].phase = 0]
    /\ UNCHANGED <<sourceVars, ses, agent, ctl>>

\* The receipt of the completed copy is saved; after a crash recover_staging
\* does it, from the destination's status.
Imported ==
    /\ ctl.phase = "importing" /\ dest[d].phase = Len(Phases)
    /\ ctl' = [ctl EXCEPT !.phase = "freezing", !.binding = d]
    /\ UNCHANGED <<sourceVars, ses, agent, dest, ends>>

\* The installation of a source fits the binding: not selected yet, or selected by
\* an earlier run with the same one.
Candidate(n, b) == sel[n] \in {None, b}

\* installation_capture: a selection is proposed for every source or for none.
Proposed(b) == \A n \in Sources : Candidate(n, b)

\* verify_import_sources and activate_import up to the call of commit_sources:
\* the captured sources are those of the receipt, which is complete and inactive.
BeginActivation ==
    /\ ctl.phase = "freezing" /\ ctl.binding # None /\ Captured
    /\ ctl.mem.ready = dest[ctl.binding].digest /\ Proposed(ctl.binding)
    /\ dest[ctl.binding].phase = Len(Phases) /\ ~dest[ctl.binding].active
    /\ ctl' = [ctl EXCEPT !.mem.tx = TRUE, !.mem.barrier = TRUE]
    /\ UNCHANGED <<sourceVars, ses, agent, dest, ends>>

\* install: an unselected source, or the same selection again.
Installable(n, b) == sel[n] \in {None, b}

\* native: a persisted proposal is never replaced.
Proposable(n, b) == agent[n].proposal \in {None, b}

\* The barrier sends select for a source: the proposal is saved before it is
\* forwarded, the session acknowledges its own export, the selection commits.
Select(n) ==
    LET b == ctl.binding IN
    /\ ctl.mem.barrier
    /\ Proposable(n, b)
    /\ agent' = [agent EXCEPT ![n].proposal = b,
            ![n].phase = IF ses[n].open /\ Installable(n, b) THEN "selected" ELSE @]
    /\ IF ses[n].open /\ Installable(n, b)
       THEN /\ ctl.mem.ready[n] = ses[n].journal /\ Journal(n) = ses[n].journal
            /\ ses[n].prior \in {None, b}
            /\ sel' = [sel EXCEPT ![n] = b]
       ELSE UNCHANGED sel
    /\ UNCHANGED <<data, gen, svc, ses, dest, ctl, ends>>

\* The database transaction ends at its deadline; the barrier may not know yet.
TransactionEnds ==
    /\ ctl.mem.tx /\ ends < MaxEnds /\ ends' = ends + 1
    /\ ctl' = [ctl EXCEPT !.mem.tx = FALSE]
    /\ UNCHANGED <<sourceVars, ses, agent, dest>>

\* Every source confirmed its durable selection.
Covered(b) == \A n \in Sources : sel[n] = b

\* activate_import commits; the reply may still be lost.
Activate ==
    LET b == ctl.binding IN
    /\ ctl.mem.tx /\ Covered(b)
    /\ dest' = [dest EXCEPT ![b].active = TRUE, ![b].sels = sel]
    /\ ctl' = [ctl EXCEPT !.mem.tx = FALSE, !.mem.barrier = FALSE]
    /\ UNCHANGED <<sourceVars, ses, agent, ends>>

-----------------------------------------------------------------------------
(* The controller                                                           *)

\* run: a new run of the controller, after none or a crashed one.
Run ==
    /\ ctl.phase = "new" /\ ctl' = [ctl EXCEPT !.phase = "freezing"]
    /\ UNCHANGED <<sourceVars, ses, agent, dest, ends>>

\* The controller dies, and with it every session and transaction it holds.
Crash ==
    /\ ends < MaxEnds /\ ends' = ends + 1
    /\ ctl' = [ctl EXCEPT !.mem = Forgotten]
    /\ ses' = [n \in Sources |-> Closed]
    /\ UNCHANGED <<sourceVars, agent, dest>>

\* finish: the active receipt names the source's selection; its configuration is
\* published, its session released, its fence removed and its service started.
Finish(n) ==
    LET b == ctl.binding IN
    /\ b # None /\ dest[b].active /\ dest[b].sels[n] = sel[n]
    /\ sel[n] = agent[n].proposal /\ agent[n].hold
    /\ agent' = [agent EXCEPT ![n].phase = "started", ![n].hold = FALSE]
    /\ ses' = [ses EXCEPT ![n] = Closed]
    /\ UNCHANGED <<sourceVars, dest, ctl, ends>>

\* A unit starts when no fence holds it: open_selected needs the activated
\* database it is bound to, open refuses a selected source.
Start(n) ==
    /\ svc[n] = "stopped" /\ ~agent[n].hold /\ ~ses[n].open
    /\ IF sel[n] = None THEN svc' = [svc EXCEPT ![n] = "legacy"]
       ELSE dest[sel[n]].active /\ svc' = [svc EXCEPT ![n] = "central"]
    /\ UNCHANGED <<data, gen, sel, ses, agent, dest, ctl, ends>>

\* Mutant: only the source itself is asked.
CancellableAlone(n) == sel[n] = None

\* run with --cancel: no source may be selected, the destination not active.
Cancellable(n) ==
    /\ \A m \in Sources : sel[m] = None
    /\ ctl.binding # None => ~dest[ctl.binding].active

\* cancel of one source, in a run that holds no session: the fence goes and its
\* service is started; only then is it recorded, which a failure prevents.  The
\* run is over when every source is cancelled.
Cancel(n, done) ==
    /\ ctl.mem = Forgotten /\ \A m \in Sources : ~ses[m].open
    /\ Cancellable(n) /\ agent[n].phase \in {"stopped", "frozen"} /\ agent[n].hold
    /\ done \/ ends < MaxEnds
    /\ ends' = IF done THEN ends ELSE ends + 1
    /\ agent' = [agent EXCEPT ![n].hold = FALSE, ![n].phase = IF done THEN "cancelled" ELSE @]
    /\ ctl' = IF done /\ \A m \in Sources \ {n} : agent[m].phase = "cancelled"
              THEN [ctl EXCEPT !.phase = "cancelled"] ELSE ctl
    /\ UNCHANGED <<sourceVars, ses, dest>>

\* A cancelled run is never taken up again; the operator plans another one, with
\* records of its own and an empty destination.
NewRun ==
    /\ ctl.phase = "cancelled" /\ d < MaxDest
    /\ ctl' = [phase |-> "new", binding |-> None, mem |-> Forgotten]
    /\ agent' = [n \in Sources |-> NewAgent]
    /\ UNCHANGED <<sourceVars, ses, dest, ends>>

Next ==
    \/ \E n \in Sources : Write(n) \/ SessionEnds(n) \/ Select(n) \/ Finish(n) \/ Start(n)
    \/ \E n \in Sources, done \in BOOLEAN : Freeze(n, done) \/ Cancel(n, done)
    \/ Run \/ NewRun \/ Stage \/ Copy \/ CopyFails \/ Imported
    \/ BeginActivation \/ TransactionEnds \/ Activate \/ Crash

Spec == Init /\ [][Next]_vars

-----------------------------------------------------------------------------
(* Properties                                                               *)

\* What is active holds everything the sources held: no write of a service or of
\* an administrator, before, between or after the sessions, is missing from the
\* copy that every source was bound to.
NothingLeftBehind ==
    \A b \in DOMAIN dest : dest[b].active =>
        \A n \in Sources : sel[n] = b /\ dest[b].digest[n].data = data[n]

\* All selections name one destination.  Once a source is bound, no service runs on
\* the old files any more, and a service runs on the new database only when it is
\* active.
OneManagementAuthority ==
    /\ \A n, m \in Sources : sel[n] # None /\ sel[m] # None => sel[n] = sel[m]
    /\ (\E n \in Sources : sel[n] # None) => \A n \in Sources : svc[n] # "legacy"
    /\ \A n \in Sources : svc[n] = "central" => dest[sel[n]].active

\* A partly selected cutover can be taken up again: the destination the sources
\* are bound to holds its complete copy, is the one the controller saved, and the
\* seeds of every other source are still those the copy was made from.
CutoverResumable ==
    \A n \in Sources : sel[n] # None =>
        /\ sel[n] = ctl.binding /\ dest[sel[n]].phase = Len(Phases)
        /\ \A m \in Sources : /\ agent[m].proposal \in {None, sel[n]}
                              /\ gen[m] = dest[sel[n]].digest[m].gen
=============================================================================
