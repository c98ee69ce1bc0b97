--------------------------- MODULE CentralRecovery ---------------------------
(***************************************************************************)
(* Recovery of central management after a disaster (src/central/recovery). *)
(*                                                                         *)
(* The console's PostgreSQL database and its local SQLite store are        *)
(* restored from copies of different ages; the workers keep their stores.  *)
(* An operator then runs offline commands that may be killed between any   *)
(* two commits and run again: attach the workers, prepare (revoke access,  *)
(* replay every source, reconcile the policy, replace the workers' keys,   *)
(* verify their installation, authorize the console), release the workers, *)
(* and renew their keys after a later rotation.                            *)
(* A disaster is an era.  Whatever lets someone in (account, session, open *)
(* command, invitation) is a grant <<era, n>>, the recovery account n = 0. *)
(***************************************************************************)
EXTENDS Naturals, FiniteSets, FiniteSetsExt

CONSTANTS
    Console,    \* the coordinator
    Workers,
    MaxEra,     \* bound: disasters
    MaxText,    \* bound: versions of a source's content
    MaxToken    \* bound: worker keys ever made

Sources == {Console} \cup Workers
Ops     == 1..MaxEra

VARIABLES
    db,         \* PostgreSQL
    saved,      \* the last dump of it
    src,        \* each source's SQLite store and credential file
    kept,       \* the last checkpoint of the console's store
    lost,       \* the console's store is gone
    creds,      \* operations whose recovery credentials are on disk
    keyfile,    \* worker keys prepared for an operation, 0 when none
    up,         \* sources whose daemon runs
    run,        \* the operator's command: operation and next step
    era,        \* disasters so far
    mark,       \* keys up to this one may have been used before the last disaster
    made,       \* keys made so far
    completed   \* operations whose console was authorized

vars == <<db, saved, src, kept, lost, creds, keyfile, up, run, era, mark, made, completed>>

\* What a console receipt is bound to: contents of all sources, policy, keys.
None  == [hist |-> [s \in Sources |-> 0], pol |-> 0, key |-> [w \in Workers |-> 0]]
Idle  == [op |-> 0, pc |-> "idle"]
Local == [req |-> 0, replay |-> 0, past |-> {}, act |-> 0, att |-> 0, rel |-> 0,
          auth |-> 0, key |-> 0, seq |-> 1, log |-> 0, text |-> 1, pol |-> 1]

Init ==
    /\ db = [grants |-> {<<0, 1>>}, token |-> [w \in Workers |-> 0],
             gen |-> [s \in Sources |-> 1], text |-> [s \in Sources |-> 1],
             log |-> [s \in Sources |-> 0], pol |-> 1,
             receipts |-> [o \in Ops |-> {}], console |-> [o \in Ops |-> None],
             floor |-> [o \in Ops |-> [s \in Sources |-> <<0, 0>>]]]
    /\ saved = db
    /\ src = [s \in Sources |-> Local] /\ kept = Local /\ lost = FALSE
    /\ creds = {} /\ keyfile = [o \in Ops |-> 0]
    /\ up = Sources /\ run = Idle
    /\ era = 0 /\ mark = 0 /\ made = 0 /\ completed = {}

Has(o, receipt) == receipt \in db.receipts[o]
With(d, o, receipt) == [d EXCEPT !.receipts[o] = @ \cup {receipt}]

-----------------------------------------------------------------------------
(* The cluster at work                                                      *)

\* Mail changes a source's history; a recovered console keeps its SMTP fence.
Work(s) ==
    /\ s \in up /\ src[s].text < MaxText /\ (s = Console => src[s].req = 0)
    /\ src' = [src EXCEPT ![s].text = @ + 1, ![s].seq = @ + 1, ![s].log = @ + 1]
    /\ UNCHANGED <<db, saved, kept, lost, creds, keyfile, up, run, era, mark, made, completed>>

\* Central::ingest takes what is newer than what it knows.
Ingested(s) ==
    IF src[s].seq > db.gen[s]
    THEN [db EXCEPT !.gen[s] = src[s].seq, !.text[s] = src[s].text, !.log[s] = Max({@, src[s].log})]
    ELSE db

Project(s) ==
    /\ {s, Console} \subseteq up /\ db.gen[s] # src[s].seq
    /\ s \in Workers => src[s].key = db.token[s]
    /\ db' = Ingested(s)
    /\ UNCHANGED <<saved, src, kept, lost, creds, keyfile, up, run, era, mark, made, completed>>

Login ==
    /\ Console \in up /\ \E g \in db.grants : g[1] = era
    /\ <<era, 1>> \notin db.grants
    /\ db' = [db EXCEPT !.grants = @ \cup {<<era, 1>>}]
    /\ UNCHANGED <<saved, src, kept, lost, creds, keyfile, up, run, era, mark, made, completed>>

\* A finished rollout (see Activation).
Rollout ==
    /\ up = Sources /\ db.pol < 2 /\ \A w \in Workers : src[w].key = db.token[w]
    /\ db' = [db EXCEPT !.pol = 2]
    /\ src' = [s \in Sources |-> [src[s] EXCEPT !.pol = 2]]
    /\ UNCHANGED <<saved, kept, lost, creds, keyfile, up, run, era, mark, made, completed>>

RotateKey(w) ==
    /\ Console \in up /\ made < MaxToken
    /\ made' = made + 1
    /\ db' = [db EXCEPT !.token[w] = made']
    /\ UNCHANGED <<saved, src, kept, lost, creds, keyfile, up, run, era, mark, completed>>

Dump ==
    /\ Console \in up /\ saved # db /\ era < MaxEra
    /\ saved' = db
    /\ UNCHANGED <<db, src, kept, lost, creds, keyfile, up, run, era, mark, made, completed>>

KeepConsole ==
    /\ Console \in up /\ kept # src[Console] /\ era < MaxEra
    /\ kept' = src[Console]
    /\ UNCHANGED <<db, saved, src, lost, creds, keyfile, up, run, era, mark, made, completed>>

\* The console's machine is lost; every service is fenced, any command killed.
Disaster ==
    /\ era < MaxEra
    /\ era' = era + 1
    /\ mark' = IF era = 0 \/ (~lost /\ src[Console].act # 0) THEN made ELSE mark
    /\ db' = saved /\ lost' = TRUE /\ up' = {} /\ run' = Idle
    /\ UNCHANGED <<saved, src, kept, creds, keyfile, made, completed>>

Stop(s) ==
    /\ s \in up
    /\ up' = up \ {s}
    /\ UNCHANGED <<db, saved, src, kept, lost, creds, keyfile, run, era, mark, made, completed>>

-----------------------------------------------------------------------------
(* Fencing the stores                                                       *)

\* begin_queue_recovery: an authorized console's operation is archived, an
\* unfinished one must be resumed.
MayBegin(l, o) ==
    /\ o \notin l.past
    /\ l.req \in {0, o} \/ (l.act = l.req /\ l.replay = l.req)

Begun(l, o) ==
    IF l.req = o THEN l
    ELSE [l EXCEPT !.req = o, !.act = 0, !.replay = 0,
                   !.past = IF l.req = 0 THEN @ ELSE @ \cup {l.req}]

\* A recovery has an operation of its own; one whose console was never
\* authorized may be taken up again.
BeginQueue(o) ==
    /\ lost /\ o <= era /\ o \notin completed /\ MayBegin(kept, o)
    /\ src' = [src EXCEPT ![Console] = Begun(kept, o)]
    /\ lost' = FALSE
    /\ UNCHANGED <<db, saved, kept, creds, keyfile, up, run, era, mark, made, completed>>

\* check_markers.
Fresh(w)       == src[w].req = 0 /\ src[w].att = 0
Pending(w, o)  == src[w].req = o /\ src[w].att = o
Released(w)    == src[w].req = 0 /\ src[w].att # 0 /\ src[w].rel = src[w].att
Attachable(w, o) ==
    /\ o \notin src[w].past
    /\ \/ Fresh(w) \/ Pending(w, o)
       \/ Released(w) /\ src[w].att # o /\ src[w].replay = src[w].att

\* attach: every source is checked before one is changed, then each worker in
\* its own transaction.
Attach(w, o) ==
    /\ ~lost /\ run = Idle /\ up = {} /\ src[Console].req = o
    /\ \A v \in Workers : Attachable(v, o)
    /\ ~Pending(w, o)
    /\ src' = [src EXCEPT ![w] = [@ EXCEPT !.req = o, !.att = o, !.rel = 0, !.auth = 0, !.replay = 0,
                                           !.past = IF Fresh(w) THEN @ ELSE @ \cup {src[w].att}]]
    /\ UNCHANGED <<db, saved, kept, lost, creds, keyfile, up, run, era, mark, made, completed>>

-----------------------------------------------------------------------------
(* prepare_recovered_management                                             *)

At(pc)    == run.pc = pc
Goto(pc)  == run' = IF pc = "idle" THEN Idle ELSE [run EXCEPT !.pc = pc]
Policies  == {src[s].pol : s \in Sources}

\* Locks on every source, markers and policies.
Prepare(o) ==
    /\ run = Idle /\ up = {} /\ ~lost
    /\ \A s \in Sources : src[s].req = o
    /\ Cardinality(Policies) = 1
    /\ run' = [op |-> o, pc |-> "publish"]
    /\ UNCHANGED <<db, saved, src, kept, lost, creds, keyfile, up, era, mark, made, completed>>

\* credentials::prepare: published by a hard link before anything changes.
Publish ==
    /\ At("publish")
    /\ creds' = creds \cup {run.op}
    /\ Goto("access")
    /\ UNCHANGED <<db, saved, src, kept, lost, keyfile, up, era, mark, made, completed>>

\* Mutant: a repeated command revokes again.
AccessAgain ==
    /\ At("access")
    /\ db' = With([db EXCEPT !.grants = {<<era, 0>>},
                      !.floor[run.op] = IF Has(run.op, "access") THEN @
                                        ELSE [s \in Sources |-> <<db.gen[s], db.log[s]>>]], run.op, "access")
    /\ Goto("replay")
    /\ UNCHANGED <<saved, src, kept, lost, creds, keyfile, up, era, mark, made, completed>>

\* Mutant: old access is kept beside the recovery account.
AccessKept ==
    /\ At("access")
    /\ db' = IF Has(run.op, "access") THEN db
             ELSE With([db EXCEPT !.grants = @ \cup {<<era, 0>>},
                           !.floor[run.op] = [s \in Sources |-> <<db.gen[s], db.log[s]>>]], run.op, "access")
    /\ Goto("replay")
    /\ UNCHANGED <<saved, src, kept, lost, creds, keyfile, up, era, mark, made, completed>>

\* recover_access: once per operation, all earlier access is revoked, the
\* recovery account made and the replay floors recorded.
Access ==
    /\ At("access")
    /\ db' = IF Has(run.op, "access") THEN db
             ELSE With([db EXCEPT !.grants = {<<era, 0>>},
                           !.floor[run.op] = [s \in Sources |-> <<db.gen[s], db.log[s]>>]], run.op, "access")
    /\ Goto("replay")
    /\ UNCHANGED <<saved, src, kept, lost, creds, keyfile, up, era, mark, made, completed>>

\* Mutant: transcript identities are not reserved.
RequeuedLog(s) == src[s].log

\* reserve_log_ids.
ReservedLog(s) == Max({src[s].log, db.floor[run.op][s][2]})

\* New generations start above the local sequence and the recorded floor.
Base(s) == Max({src[s].seq, db.floor[run.op][s][1]})

\* outbox::requeue: everything is scheduled anew, once per operation.
Requeue(s) ==
    /\ At("replay") /\ src[s].replay = 0
    /\ src' = [src EXCEPT ![s].replay = run.op, ![s].seq = Base(s) + 1, ![s].log = ReservedLog(s)]
    /\ UNCHANGED <<db, saved, kept, lost, creds, keyfile, up, run, era, mark, made, completed>>

\* replay_locked: the scheduled generation must be the one that is applied.
Replay(s) ==
    /\ At("replay") /\ src[s].replay = run.op /\ src[s].seq > db.gen[s]
    /\ db' = Ingested(s)
    /\ UNCHANGED <<saved, src, kept, lost, creds, keyfile, up, run, era, mark, made, completed>>

\* Mutant: only the console's own history is compared.
VerifiedConsole(s) == s # Console \/ (src[s].replay = run.op /\ db.gen[s] = src[s].seq)

\* payload::verify.
SameHistory(s) == db.text[s] = src[s].text

\* recovered_inventory.
Verified(s) == src[s].replay = run.op /\ db.gen[s] = src[s].seq /\ SameHistory(s)

Replayed ==
    /\ At("replay") /\ \A s \in Sources : Verified(s)
    /\ Goto("policy")
    /\ UNCHANGED <<db, saved, src, kept, lost, creds, keyfile, up, era, mark, made, completed>>

\* Never a policy older than the restored one.
Reconcilable == \A p \in Policies : IF Has(run.op, "policy") THEN db.pol = p ELSE db.pol <= p

\* reconcile_recovered_policy.
ReconcilePolicy ==
    /\ At("policy") /\ Has(run.op, "access") /\ Reconcilable
    /\ db' = With([db EXCEPT !.pol = src[Console].pol], run.op, "policy")
    /\ Goto("keys")
    /\ UNCHANGED <<saved, src, kept, lost, creds, keyfile, up, era, mark, made, completed>>

\* node_credentials::prepare: keys are made once per operation.
PrepareKeys ==
    /\ At("keys") /\ keyfile[run.op] = 0 /\ made < MaxToken
    /\ made' = made + 1
    /\ keyfile' = [keyfile EXCEPT ![run.op] = made']
    /\ UNCHANGED <<db, saved, src, kept, lost, creds, up, run, era, mark, completed>>

\* recover_worker_access; an unattended command ends here.
RecoverWorkers ==
    /\ At("keys") /\ keyfile[run.op] # 0 /\ Has(run.op, "policy")
    /\ IF Has(run.op, "keys")
       THEN /\ \A w \in Workers : db.token[w] = keyfile[run.op]
            /\ db' = db
       ELSE /\ \A w \in Workers : db.token[w] # keyfile[run.op]
            /\ db' = With([db EXCEPT !.token = [w \in Workers |-> keyfile[run.op]]], run.op, "keys")
    /\ Goto("verify") \/ Goto("idle")
    /\ UNCHANGED <<saved, src, kept, lost, creds, keyfile, up, era, mark, made, completed>>

\* The operator copies a key, possibly an old one, to a stopped worker.
InstallKey(w, k) ==
    /\ w \notin up /\ src[w].key # k /\ k <= made
    /\ src' = [src EXCEPT ![w].key = k]
    /\ UNCHANGED <<db, saved, kept, lost, creds, keyfile, up, run, era, mark, made, completed>>

\* verify_recovered_worker_installation.
Installed(o) ==
    /\ Has(o, "keys")
    /\ \A w \in Workers : src[w].key = keyfile[o] /\ db.token[w] = keyfile[o]

VerifyInstallation ==
    /\ At("verify") /\ Installed(run.op)
    /\ db' = With(db, run.op, "installed")
    /\ Goto("console")
    /\ UNCHANGED <<saved, src, kept, lost, creds, keyfile, up, era, mark, made, completed>>

Evidence == [hist |-> [s \in Sources |-> src[s].text], pol |-> src[Console].pol,
             key |-> [w \in Workers |-> keyfile[run.op]]]

\* activate_recovered_console: the central receipt, ...
AuthorizeConsole ==
    /\ At("console")
    /\ \A r \in {"access", "policy", "installed"} : Has(run.op, r)
    /\ IF Has(run.op, "console")
       THEN db.console[run.op] = Evidence /\ db' = db
       ELSE db' = With([db EXCEPT !.console[run.op] = Evidence], run.op, "console")
    /\ Goto("local")
    /\ UNCHANGED <<saved, src, kept, lost, creds, keyfile, up, era, mark, made, completed>>

\* ... then the local one.
ActivateLocal ==
    /\ At("local") /\ src[Console].req = run.op
    /\ src' = [src EXCEPT ![Console].act = run.op]
    /\ completed' = completed \cup {run.op}
    /\ Goto("idle")
    /\ UNCHANGED <<db, saved, kept, lost, creds, keyfile, up, era, mark, made>>

\* The command is killed, or its plan's fences are too old to go on.
Kill ==
    /\ run # Idle
    /\ run' = Idle
    /\ UNCHANGED <<db, saved, src, kept, lost, creds, keyfile, up, era, mark, made, completed>>

-----------------------------------------------------------------------------
(* Starting the services                                                    *)

\* require_recovered_console_activation: both receipts.
Authorized(o) == src[Console].req = o /\ src[Console].act = o /\ Has(o, "console")

StartConsole ==
    /\ ~lost /\ Console \notin up /\ run = Idle
    /\ \E o \in Ops : Authorized(o)
    /\ up' = up \cup {Console}
    /\ UNCHANGED <<db, saved, src, kept, lost, creds, keyfile, run, era, mark, made, completed>>

\* The evidence the console was authorized on still holds.
Releasable(o) ==
    /\ Installed(o) /\ db.pol = db.console[o].pol /\ Policies = {db.pol}
    /\ \A w \in Workers : /\ db.gen[w] = src[w].seq /\ SameHistory(w)
                          /\ src[w].text = db.console[o].hist[w]

\* release_inner up to its central commit.
ReleaseCentral(o) ==
    /\ run = Idle /\ up = {} /\ ~lost /\ Authorized(o)
    /\ \A w \in Workers : Pending(w, o) \/ (Released(w) /\ src[w].att = o)
    /\ Releasable(o)
    /\ db' = With(db, o, "release")
    /\ run' = [op |-> o, pc |-> "release"]
    /\ UNCHANGED <<saved, src, kept, lost, creds, keyfile, up, era, mark, made, completed>>

\* Each worker's own transaction, which ends with require_local_route.
ReleaseLocal(w) ==
    /\ At("release") /\ Pending(w, run.op) /\ src[w].key = keyfile[run.op]
    /\ src' = [src EXCEPT ![w].rel = run.op, ![w].req = 0, ![w].auth = keyfile[run.op]]
    /\ UNCHANGED <<db, saved, kept, lost, creds, keyfile, up, run, era, mark, made, completed>>

\* renew_inner: the installed keys are the central ones.
RenewCentral(o) ==
    /\ run = Idle /\ up = {} /\ ~lost /\ Authorized(o) /\ Has(o, "release")
    /\ \A w \in Workers : Released(w) /\ src[w].rel = o /\ src[w].key = db.token[w]
    /\ run' = [op |-> o, pc |-> "renew"]
    /\ UNCHANGED <<db, saved, src, kept, lost, creds, keyfile, up, era, mark, made, completed>>

RenewLocal(w) ==
    /\ At("renew") /\ src[w].rel = run.op /\ src[w].auth # db.token[w] /\ src[w].key = db.token[w]
    /\ src' = [src EXCEPT ![w].auth = db.token[w]]
    /\ UNCHANGED <<db, saved, kept, lost, creds, keyfile, up, run, era, mark, made, completed>>

\* Mutant: the release is looked for, the key is not.
MayStartAnyKey(w) == src[w].req = 0 /\ (src[w].att # 0 => Released(w))

\* require_local_route.
MayStart(w) == src[w].req = 0 /\ (src[w].att # 0 => Released(w) /\ src[w].key = src[w].auth)

\* A worker that no recovery has seen stays fenced by the supervisor.
StartWorker(w) ==
    /\ w \notin up /\ run = Idle /\ ~lost /\ MayStart(w)
    /\ src[w].att = src[Console].req
    /\ up' = up \cup {w}
    /\ UNCHANGED <<db, saved, src, kept, lost, creds, keyfile, run, era, mark, made, completed>>

Next ==
    \/ \E s \in Sources : Work(s) \/ Project(s) \/ Stop(s) \/ Requeue(s) \/ Replay(s)
    \/ Login \/ Rollout \/ Dump \/ KeepConsole \/ Disaster
    \/ \E o \in Ops : BeginQueue(o) \/ Prepare(o) \/ ReleaseCentral(o) \/ RenewCentral(o)
    \/ \E w \in Workers : \/ RotateKey(w) \/ ReleaseLocal(w) \/ RenewLocal(w) \/ StartWorker(w)
                          \/ \E o \in Ops : Attach(w, o)
                          \/ \E k \in 1..MaxToken : InstallKey(w, k)
    \/ Publish \/ Access \/ Replayed \/ ReconcilePolicy \/ PrepareKeys \/ RecoverWorkers
    \/ VerifyInstallation \/ AuthorizeConsole \/ ActivateLocal \/ Kill \/ StartConsole

Spec == Init /\ [][Next]_vars

-----------------------------------------------------------------------------
(* Properties                                                               *)

Recovering == src[Console].req # 0

\* Once the recovered console runs, nothing that let anyone in before the
\* disaster does so any more: no account, session, command, invitation, no
\* worker key; and the operator has the credentials of the recovery account.
OldAccessIsGone ==
    (Console \in up /\ era > 0) =>
        /\ \A g \in db.grants : g[1] = era
        /\ \A w \in Workers : db.token[w] > mark
        /\ src[Console].req \in creds

AccessStep == era' = era => {g \in db.grants : g[1] = era} \subseteq db'.grants

\* No command of a recovery, however often it is repeated, takes away what was
\* granted since.
NewAccessSurvives == [][AccessStep]_vars

\* The recovered console shows every fenced source as it is, under the policy
\* that source runs.
ConsoleShowsSources ==
    (Console \in up /\ Recovering) =>
        \A s \in Sources : (src[s].req = src[Console].req) => db.text[s] = src[s].text /\ db.pol = src[s].pol

\* No running source, and no recovered console, would number its next change or
\* transcript with something central management has already seen and will ignore.
SourcesAhead ==
    \A s \in up : src[s].seq >= db.gen[s] /\ src[s].log >= db.log[s]

\* A worker of a recovery runs only with a key that was not in use before the
\* disaster and with
\* a release its recovered console has on record.
WorkersReleasedByConsole ==
    \A w \in up \cap Workers : era > 0 => src[w].key > mark /\ Has(src[w].att, "release")
=============================================================================
