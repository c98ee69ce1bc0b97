---------------------------- MODULE MCManagement ----------------------------
(***************************************************************************)
(* Management, each part in an instance of its own: accounts, policies,    *)
(* recovery, cutover and import, directories, provisioning and research. A *)
(* behaviour chooses one of them; a variable of the same name serves       *)
(* whichever is chosen.                                                    *)
(***************************************************************************)
EXTENDS Integers, Sequences, FiniteSets, TLC

CONSTANTS
    u1, u2, q1, q2, i1, i2, code, n1, n2, p1, p2, console, w1, unbound, s1, s2, none,
    deleted, rq1, rq2, m1, m2, o1, o2, j1, j2, w2, h1, h2, e1, e2

VARIABLES
    component,
    user, session, factor, codes, limiter, invite, request, clock, sessions, used,
    replayed, checked, blind, journal, head, rows, approval, account, enabled, report,
    incident, captured, receipts, effective, tainted, db, saved, src, kept, lost, creds,
    keyfile, up, run, era, mark, made, completed, data, gen, sel, svc, ses, agent, dest,
    ctl, ends, now, revision, catalog, owner, conn, jobs, task, runs, revoked, stage,
    counts, sequence, rate, reqs, review, candidate, own, aged, dirty, seq, mirror, pub,
    labels, policy, pending, reply, sent, tombs, seeded, seen, provider, person, mail,
    group, member, scope, changes, export, job, prepared, installed, held, crashes,
    recovered, key, keys, disk, row, io, pass, scan, reader, slips, faults, admins,
    batch, worker, dir, revisions, selecting, hash, msg, label, corrected, reserved,
    judged, generation, exposed, out

vars ==
    <<component, user, session, factor, codes, limiter, invite, request, clock,
      sessions, used, replayed, checked, blind, journal, head, rows, approval, account,
      enabled, report, incident, captured, receipts, effective, tainted, db, saved, src,
      kept, lost, creds, keyfile, up, run, era, mark, made, completed, data, gen, sel,
      svc, ses, agent, dest, ctl, ends, now, revision, catalog, owner, conn, jobs, task,
      runs, revoked, stage, counts, sequence, rate, reqs, review, candidate, own, aged,
      dirty, seq, mirror, pub, labels, policy, pending, reply, sent, tombs, seeded,
      seen, provider, person, mail, group, member, scope, changes, export, job,
      prepared, installed, held, crashes, recovered, key, keys, disk, row, io, pass,
      scan, reader, slips, faults, admins, batch, worker, dir, revisions, selecting,
      hash, msg, label, corrected, reserved, judged, generation, exposed, out>>

Logins ==
    INSTANCE Accounts
    WITH Users <- {u1}, Founder <- u1, Requests <- {q1, q2}, Invites <- {}, Recovery <-
         {code}, Attempts <- 3, MaxVersion <- 2, MaxSessions <- 2, MaxStep <- 1,
         MaxWindow <- 2
Passwords ==
    INSTANCE Accounts
    WITH Users <- {u1}, Founder <- u1, Requests <- {q1, q2}, Invites <- {}, Recovery <-
         {}, Attempts <- 3, MaxVersion <- 3, MaxSessions <- 1, MaxStep <- 1, MaxWindow <-
         1
TimeSteps ==
    INSTANCE Accounts
    WITH Users <- {u1}, Founder <- u1, Requests <- {q1, q2}, Invites <- {}, Recovery <-
         {}, Attempts <- 3, MaxVersion <- 2, MaxSessions <- 2, MaxStep <- 3, MaxWindow <-
         1
Administration ==
    INSTANCE Accounts
    WITH Users <- {u1, u2}, Founder <- u1, Requests <- {q1}, Invites <- {i1, i2},
         Recovery <- {}, Attempts <- 1, MaxVersion <- 2, MaxSessions <- 1, MaxStep <- 1,
         MaxWindow <- 1

Policies ==
    INSTANCE Policies
    WITH Nodes <- {n1, n2}, Admins <- {u1}, Contents <- {p1, p2}, MaxSeq <- 2, MaxAccount
         <- 3

Disasters ==
    INSTANCE CentralRecovery
    WITH Console <- console, Workers <- {w1}, MaxEra <- 2, MaxText <- 1, MaxToken <- 2
Replaying ==
    INSTANCE CentralRecovery
    WITH Console <- console, Workers <- {w1}, MaxEra <- 1, MaxText <- 2, MaxToken <- 1

Move ==
    INSTANCE Cutover
    WITH Sources <- {n1, n2}, None <- unbound, MaxDest <- 2, MaxWrites <- 1, MaxSeeds <-
         2, MaxEnds <- 3

Collections ==
    INSTANCE DirectorySync
    WITH Sources <- {s1}, None <- 0, Jobs <- 1..2, Active <- 2, Hourly <- 2, Lease <- 1,
         Interval <- 2, MaxTime <- 2, MaxConn <- 1, MaxOwner <- 1, MaxRevision <- 1
Catalogs ==
    INSTANCE DirectorySync
    WITH Sources <- {s1, s2}, None <- 0, Jobs <- 1..3, Active <- 2, Hourly <- 3, Lease <-
         1, Interval <- 3, MaxTime <- 1, MaxConn <- 0, MaxOwner <- 0, MaxRevision <- 3
Credentials ==
    INSTANCE DirectorySync
    WITH Sources <- {s1}, None <- 0, Jobs <- 1..2, Active <- 2, Hourly <- 2, Lease <- 1,
         Interval <- 1, MaxTime <- 1, MaxConn <- 2, MaxOwner <- 0, MaxRevision <- 0

Provisioning ==
    INSTANCE Scim
    WITH Ids <- 1..2, Names <- {"a"}, None <- none, Gone <- deleted, Requests <- {rq1,
         rq2}, MaxMembers <- 1, MaxResources <- 2, MaxRate <- 1, MaxVersion <- 4, MaxGen
         <- 1, Reviewing <- FALSE
Attesting ==
    INSTANCE Scim
    WITH Ids <- 1..3, Names <- {"a"}, None <- none, Gone <- deleted, Requests <- {rq1},
         MaxMembers <- 1, MaxResources <- 2, MaxRate <- 1, MaxVersion <- 3, MaxGen <- 2,
         Reviewing <- TRUE

Importing ==
    INSTANCE Import
    WITH Workers <- {n1}, Coordinator <- n2, Msgs <- {m1, m2}, None <- unbound, Keep <-
         1, Retain <- 1, MaxLogs <- 2, MaxChanges <- 3, MaxSends <- 2, MaxGap <- 1
CopyingOne ==
    INSTANCE Import
    WITH Workers <- {n1}, Coordinator <- n2, Msgs <- {m1}, None <- unbound, Keep <- 1,
         Retain <- 1, MaxLogs <- 2, MaxChanges <- 4, MaxSends <- 2, MaxGap <- 1

Reading ==
    INSTANCE Connectors
    WITH Users <- {1, 2}, Groups <- {11}, Mails <- {1}, Providers <- {"google", "entra",
         "okta", "aws"}, Crossing <- FALSE, MaxRequests <- 5, Timeout <- 1, Stale <- 1,
         MaxAge <- 1, MaxChanges <- 1, MaxTime <- 1, MaxGen <- 1
Nesting ==
    INSTANCE Connectors
    WITH Users <- {1}, Groups <- {11, 12}, Mails <- {1}, Providers <- {"entra"}, Crossing
         <- FALSE, MaxRequests <- 5, Timeout <- 1, Stale <- 1, MaxAge <- 1, MaxChanges <-
         1, MaxTime <- 1, MaxGen <- 1
Renewing ==
    INSTANCE Connectors
    WITH Users <- {1}, Groups <- {}, Mails <- {1}, Providers <- {"ad", "okta"}, Crossing
         <- FALSE, MaxRequests <- 3, Timeout <- 1, Stale <- 1, MaxAge <- 1, MaxChanges <-
         1, MaxTime <- 4, MaxGen <- 2

Originals ==
    INSTANCE ResearchArchive
    WITH Msgs <- {o1, o2}, Compared <- {}, Settings <- {[until |-> 2, life |-> 1, quota
         |-> 5], [until |-> 0, life |-> 1, quota |-> 3]}, Permits <- 1, Exports <- FALSE,
         MaxTime <- 1, MaxCrashes <- 1, MaxChanges <- 1
OriginalsOut ==
    INSTANCE ResearchArchive
    WITH Msgs <- {o1}, Compared <- {o1}, Settings <- {[until |-> 2, life |-> 2, quota |->
         5], [until |-> 0, life |-> 1, quota |-> 3]}, Permits <- 1, Exports <- TRUE,
         MaxTime <- 2, MaxCrashes <- 1, MaxChanges <- 1

ResearchQueue ==
    INSTANCE ResearchJobs
    WITH Users <- {u1}, Batches <- [dev |-> [user |-> u1, purpose |-> "development"],
         test |-> [user |-> u1, purpose |-> "holdout"]], Jobs <- {j1, j2}, Home <- w1,
         MaxOutstanding <- 2, MaxJobs <- 3, Workers <- {w1}, Keep <- 1, MaxTime <- 3,
         MaxFaults <- 0
ResearchSessions ==
    INSTANCE ResearchJobs
    WITH Users <- {u1}, Batches <- [dev |-> [user |-> u1, purpose |-> "development"],
         test |-> [user |-> u1, purpose |-> "holdout"]], Jobs <- {j1, j2}, Home <- w1,
         MaxOutstanding <- 2, MaxJobs <- 3, Workers <- {w1, w2}, Keep <- 0, MaxTime <- 1,
         MaxFaults <- 1

LabelData ==
    INSTANCE ResearchEvidence
    WITH Msgs <- {h1, h2}, Hashes <- [m \in {h1, h2} |-> IF m = h1 THEN {{}} ELSE {{0, 2,
         4}, {0, 2, 4, 6}}], Samples <- [dev |-> "development", test |-> "holdout"],
         Exporters <- {}, Keep <- 1, Labels <- TRUE, MaxTime <- 2, MaxExports <- 0
ExportedData ==
    INSTANCE ResearchEvidence
    WITH Msgs <- {h1, h2}, Hashes <- [m \in {h1, h2} |-> IF m = h1 THEN {{}} ELSE {{0, 2,
         4}}], Samples <- [dev |-> "development", test |-> "holdout"], Exporters <- {e1,
         e2}, Keep <- 0, Labels <- FALSE, MaxTime <- 1, MaxExports <- 2

Components == {"sessions", "passwords", "timesteps", "administration", "policies", "disaster",
      "replaying", "cutover", "collections", "catalogs", "credentials", "provisioning",
      "attesting", "importing", "copying", "reading", "nesting", "renewing",
      "originals", "export", "research", "runners", "labels", "exports"}

\* The chosen component is in its initial state; the variables it does not use
\* hold nothing.
Init ==
    /\ component \in Components
    /\ IF component = "sessions" THEN Logins!Init ELSE TRUE
    /\ IF component = "passwords" THEN Passwords!Init ELSE TRUE
    /\ IF component = "timesteps" THEN TimeSteps!Init ELSE TRUE
    /\ IF component = "administration" THEN Administration!Init ELSE TRUE
    /\ IF component = "policies" THEN Policies!Init ELSE TRUE
    /\ IF component = "disaster" THEN Disasters!Init ELSE TRUE
    /\ IF component = "replaying" THEN Replaying!Init ELSE TRUE
    /\ IF component = "cutover" THEN Move!Init ELSE TRUE
    /\ IF component = "collections" THEN Collections!Init ELSE TRUE
    /\ IF component = "catalogs" THEN Catalogs!Init ELSE TRUE
    /\ IF component = "credentials" THEN Credentials!Init ELSE TRUE
    /\ IF component = "provisioning" THEN Provisioning!Init ELSE TRUE
    /\ IF component = "attesting" THEN Attesting!Init ELSE TRUE
    /\ IF component = "importing" THEN Importing!Init ELSE TRUE
    /\ IF component = "copying" THEN CopyingOne!Init ELSE TRUE
    /\ IF component = "reading" THEN Reading!Init ELSE TRUE
    /\ IF component = "nesting" THEN Nesting!Init ELSE TRUE
    /\ IF component = "renewing" THEN Renewing!Init ELSE TRUE
    /\ IF component = "originals" THEN Originals!Init ELSE TRUE
    /\ IF component = "export" THEN OriginalsOut!Init ELSE TRUE
    /\ IF component = "research" THEN ResearchQueue!Init ELSE TRUE
    /\ IF component = "runners" THEN ResearchSessions!Init ELSE TRUE
    /\ IF component = "labels" THEN LabelData!Init ELSE TRUE
    /\ IF component = "exports" THEN ExportedData!Init ELSE TRUE
    /\ IF component \in {"sessions", "passwords", "timesteps", "administration"} THEN
        TRUE
       ELSE user = "idle" /\ session = "idle" /\ factor = "idle" /\ codes = "idle" /\
            limiter = "idle" /\ invite = "idle" /\ request = "idle" /\ clock = "idle" /\
            sessions = "idle" /\ replayed = "idle" /\ checked = "idle" /\ blind = "idle"
    /\ IF component \in {"sessions", "passwords", "timesteps", "administration",
        "importing", "copying"} THEN TRUE
       ELSE used = "idle"
    /\ IF component \in {"policies"} THEN TRUE
       ELSE journal = "idle" /\ head = "idle" /\ rows = "idle" /\ approval = "idle" /\
            account = "idle" /\ report = "idle" /\ incident = "idle" /\ captured = "idle" /\
            receipts = "idle" /\ effective = "idle" /\ tainted = "idle"
    /\ IF component \in {"policies", "importing", "copying"} THEN TRUE
       ELSE enabled = "idle"
    /\ IF component \in {"disaster", "replaying"} THEN TRUE
       ELSE db = "idle" /\ saved = "idle" /\ src = "idle" /\ lost = "idle" /\ creds = "idle" /\
            keyfile = "idle" /\ run = "idle" /\ era = "idle" /\ mark = "idle" /\
            made = "idle" /\ completed = "idle"
    /\ IF component \in {"disaster", "replaying", "reading", "nesting", "renewing"} THEN
        TRUE
       ELSE kept = "idle"
    /\ IF component \in {"disaster", "replaying", "originals", "export"} THEN TRUE
       ELSE up = "idle"
    /\ IF component \in {"cutover"} THEN TRUE
       ELSE data = "idle" /\ sel = "idle" /\ svc = "idle" /\ ses = "idle" /\ agent = "idle" /\
            ctl = "idle" /\ ends = "idle"
    /\ IF component \in {"cutover", "provisioning", "attesting"} THEN TRUE
       ELSE gen = "idle"
    /\ IF component \in {"cutover", "importing", "copying"} THEN TRUE
       ELSE dest = "idle"
    /\ IF component \in {"collections", "catalogs", "credentials", "reading", "nesting",
        "renewing", "originals", "export", "research", "runners", "labels", "exports"}
        THEN TRUE
       ELSE now = "idle"
    /\ IF component \in {"collections", "catalogs", "credentials"} THEN TRUE
       ELSE revision = "idle" /\ catalog = "idle" /\ conn = "idle" /\ jobs = "idle" /\
            task = "idle" /\ runs = "idle"
    /\ IF component \in {"collections", "catalogs", "credentials", "research",
        "runners"} THEN TRUE
       ELSE owner = "idle"
    /\ IF component \in {"provisioning", "attesting"} THEN TRUE
       ELSE revoked = "idle" /\ stage = "idle" /\ counts = "idle" /\ sequence = "idle" /\
            rate = "idle" /\ review = "idle" /\ candidate = "idle"
    /\ IF component \in {"provisioning", "attesting", "importing", "copying"} THEN TRUE
       ELSE reqs = "idle"
    /\ IF component \in {"importing", "copying"} THEN TRUE
       ELSE own = "idle" /\ aged = "idle" /\ dirty = "idle" /\ seq = "idle" /\
            mirror = "idle" /\ pub = "idle" /\ labels = "idle" /\ pending = "idle" /\
            reply = "idle" /\ sent = "idle" /\ tombs = "idle" /\ seeded = "idle" /\
            seen = "idle"
    /\ IF component \in {"importing", "copying", "originals", "export"} THEN TRUE
       ELSE policy = "idle"
    /\ IF component \in {"reading", "nesting", "renewing"} THEN TRUE
       ELSE provider = "idle" /\ person = "idle" /\ mail = "idle" /\ group = "idle" /\
            member = "idle" /\ scope = "idle" /\ prepared = "idle" /\ installed = "idle" /\
            held = "idle"
    /\ IF component \in {"reading", "nesting", "renewing", "originals", "export"} THEN
        TRUE
       ELSE changes = "idle"
    /\ IF component \in {"reading", "nesting", "renewing", "labels", "exports"} THEN
        TRUE
       ELSE export = "idle"
    /\ IF component \in {"reading", "nesting", "renewing", "originals", "export",
        "research", "runners"} THEN TRUE
       ELSE job = "idle"
    /\ IF component \in {"originals", "export"} THEN TRUE
       ELSE crashes = "idle" /\ recovered = "idle" /\ key = "idle" /\ keys = "idle" /\
            disk = "idle" /\ row = "idle" /\ io = "idle" /\ pass = "idle" /\ scan = "idle" /\
            reader = "idle" /\ slips = "idle"
    /\ IF component \in {"research", "runners"} THEN TRUE
       ELSE faults = "idle" /\ admins = "idle" /\ worker = "idle" /\ dir = "idle" /\
            revisions = "idle" /\ selecting = "idle"
    /\ IF component \in {"research", "runners", "labels", "exports"} THEN TRUE
       ELSE batch = "idle"
    /\ IF component \in {"labels", "exports"} THEN TRUE
       ELSE hash = "idle" /\ msg = "idle" /\ label = "idle" /\ corrected = "idle" /\
            reserved = "idle" /\ judged = "idle" /\ generation = "idle" /\ exposed = "idle" /\
            out = "idle"

Next ==
    /\ UNCHANGED component
    /\ \/ component = "sessions" /\ Logins!Next
       \/ component = "passwords" /\ Passwords!Next
       \/ component = "timesteps" /\ TimeSteps!Next
       \/ component = "administration" /\ Administration!Next
       \/ component = "policies" /\ Policies!Next
       \/ component = "disaster" /\ Disasters!Next
       \/ component = "replaying" /\ Replaying!Next
       \/ component = "cutover" /\ Move!Next
       \/ component = "collections" /\ Collections!Next
       \/ component = "catalogs" /\ Catalogs!Next
       \/ component = "credentials" /\ Credentials!Next
       \/ component = "provisioning" /\ Provisioning!Next
       \/ component = "attesting" /\ Attesting!Next
       \/ component = "importing" /\ Importing!Next
       \/ component = "copying" /\ CopyingOne!Next
       \/ component = "reading" /\ Reading!Next
       \/ component = "nesting" /\ Nesting!Next
       \/ component = "renewing" /\ Renewing!Next
       \/ component = "originals" /\ Originals!Next
       \/ component = "export" /\ OriginalsOut!Next
       \/ component = "research" /\ ResearchQueue!Next
       \/ component = "runners" /\ ResearchSessions!Next
       \/ component = "labels" /\ LabelData!Next
       \/ component = "exports" /\ ExportedData!Next
    /\ IF component \in {"sessions", "passwords", "timesteps", "administration"} THEN
        TRUE
       ELSE UNCHANGED <<user, session, factor, codes, limiter, invite, request, clock, sessions,
            replayed, checked, blind>>
    /\ IF component \in {"sessions", "passwords", "timesteps", "administration",
        "importing", "copying"} THEN TRUE
       ELSE UNCHANGED <<used>>
    /\ IF component \in {"policies"} THEN TRUE
       ELSE UNCHANGED <<journal, head, rows, approval, account, report, incident, captured,
            receipts, effective, tainted>>
    /\ IF component \in {"policies", "importing", "copying"} THEN TRUE
       ELSE UNCHANGED <<enabled>>
    /\ IF component \in {"disaster", "replaying"} THEN TRUE
       ELSE UNCHANGED <<db, saved, src, lost, creds, keyfile, run, era, mark, made, completed>>
    /\ IF component \in {"disaster", "replaying", "reading", "nesting", "renewing"} THEN
        TRUE
       ELSE UNCHANGED <<kept>>
    /\ IF component \in {"disaster", "replaying", "originals", "export"} THEN TRUE
       ELSE UNCHANGED <<up>>
    /\ IF component \in {"cutover"} THEN TRUE
       ELSE UNCHANGED <<data, sel, svc, ses, agent, ctl, ends>>
    /\ IF component \in {"cutover", "provisioning", "attesting"} THEN TRUE
       ELSE UNCHANGED <<gen>>
    /\ IF component \in {"cutover", "importing", "copying"} THEN TRUE
       ELSE UNCHANGED <<dest>>
    /\ IF component \in {"collections", "catalogs", "credentials", "reading", "nesting",
        "renewing", "originals", "export", "research", "runners", "labels", "exports"}
        THEN TRUE
       ELSE UNCHANGED <<now>>
    /\ IF component \in {"collections", "catalogs", "credentials"} THEN TRUE
       ELSE UNCHANGED <<revision, catalog, conn, jobs, task, runs>>
    /\ IF component \in {"collections", "catalogs", "credentials", "research",
        "runners"} THEN TRUE
       ELSE UNCHANGED <<owner>>
    /\ IF component \in {"provisioning", "attesting"} THEN TRUE
       ELSE UNCHANGED <<revoked, stage, counts, sequence, rate, review, candidate>>
    /\ IF component \in {"provisioning", "attesting", "importing", "copying"} THEN TRUE
       ELSE UNCHANGED <<reqs>>
    /\ IF component \in {"importing", "copying"} THEN TRUE
       ELSE UNCHANGED <<own, aged, dirty, seq, mirror, pub, labels, pending, reply, sent, tombs,
            seeded, seen>>
    /\ IF component \in {"importing", "copying", "originals", "export"} THEN TRUE
       ELSE UNCHANGED <<policy>>
    /\ IF component \in {"reading", "nesting", "renewing"} THEN TRUE
       ELSE UNCHANGED <<provider, person, mail, group, member, scope, prepared, installed, held>>
    /\ IF component \in {"reading", "nesting", "renewing", "originals", "export"} THEN
        TRUE
       ELSE UNCHANGED <<changes>>
    /\ IF component \in {"reading", "nesting", "renewing", "labels", "exports"} THEN
        TRUE
       ELSE UNCHANGED <<export>>
    /\ IF component \in {"reading", "nesting", "renewing", "originals", "export",
        "research", "runners"} THEN TRUE
       ELSE UNCHANGED <<job>>
    /\ IF component \in {"originals", "export"} THEN TRUE
       ELSE UNCHANGED <<crashes, recovered, key, keys, disk, row, io, pass, scan, reader, slips>>
    /\ IF component \in {"research", "runners"} THEN TRUE
       ELSE UNCHANGED <<faults, admins, worker, dir, revisions, selecting>>
    /\ IF component \in {"research", "runners", "labels", "exports"} THEN TRUE
       ELSE UNCHANGED <<batch>>
    /\ IF component \in {"labels", "exports"} THEN TRUE
       ELSE UNCHANGED <<hash, msg, label, corrected, reserved, judged, generation, exposed, out>>

Spec == Init /\ [][Next]_vars

\* The two of every pair play the same part; a component has one such pair at most,
\* so that exchanging all of them at once is a symmetry of each.
Exchanged ==
    q1 :> q2 @@ q2 :> q1
    @@ rq1 :> rq2 @@ rq2 :> rq1
    @@ m1 :> m2 @@ m2 :> m1
    @@ j1 :> j2 @@ j2 :> j1
    @@ e1 :> e2 @@ e2 :> e1
Unmoved == [v \in DOMAIN Exchanged |-> v]
Symmetry == {p \in {Unmoved, Exchanged} : \A v \in DOMAIN p : p[p[v]] = v}

-----------------------------------------------------------------------------
\* A stored session was opened with the account's present password and has seen
\* no change of the account since: a reset, a disabling or a new role that runs
\* between the verification of a password and the session's transaction, or
\* afterwards, leaves no session behind.
\* A stored session of an account with a second factor has proved that very
\* factor, whether it was opened before, during or after its enrolment.
\* No code of a factor is accepted twice, by two logins, by a login after the
\* enrolment, or by the removal of the factor.
\* The codes compared on the account of one window never exceed its limit, over
\* logins, enrolments and removals together, whatever fails in between.
\* A password is changed by its owner only on the strength of the password it
\* replaces: a reset by an administrator is never overwritten by a request that
\* was on its way.
\* Someone administers at every moment, also when two administrators take each
\* other's rights at once.
\* At most one link can create an account of a given name.
AccountsSafe ==
    /\ component = "sessions" =>
        /\ Logins!SessionsAreCurrent
        /\ Logins!SessionsProveTheFactor
        /\ Logins!CodeAcceptedOnce
        /\ Logins!AttemptsBounded
        /\ Logins!ResetIsNotOverwritten
        /\ Logins!SomeoneAdministers
        /\ Logins!OneLinkPerName
    /\ component = "passwords" =>
        /\ Passwords!SessionsAreCurrent
        /\ Passwords!SessionsProveTheFactor
        /\ Passwords!CodeAcceptedOnce
        /\ Passwords!AttemptsBounded
        /\ Passwords!ResetIsNotOverwritten
        /\ Passwords!SomeoneAdministers
        /\ Passwords!OneLinkPerName
    /\ component = "timesteps" =>
        /\ TimeSteps!SessionsAreCurrent
        /\ TimeSteps!SessionsProveTheFactor
        /\ TimeSteps!CodeAcceptedOnce
        /\ TimeSteps!AttemptsBounded
        /\ TimeSteps!ResetIsNotOverwritten
        /\ TimeSteps!SomeoneAdministers
        /\ TimeSteps!OneLinkPerName
    /\ component = "administration" =>
        /\ Administration!SessionsAreCurrent
        /\ Administration!SessionsProveTheFactor
        /\ Administration!CodeAcceptedOnce
        /\ Administration!AttemptsBounded
        /\ Administration!ResetIsNotOverwritten
        /\ Administration!SomeoneAdministers
        /\ Administration!OneLinkPerName

PoliciesInv ==
    /\ component = "policies" =>
        /\ Policies!ActiveEverywhere
        /\ Policies!RevisionIsFree
        /\ Policies!IncidentIsCurrent

PoliciesStep ==
    /\ component = "policies" =>
        /\ Policies!RecoveredStep
        /\ Policies!WrittenStep

\* A policy that the console shows as active was applied by every node, and the
\* revision it shows has the settings of the journal's current policy.
\* The revision a rollout will write is free: no rollout, abort or recovery
\* leads to one that can never be committed.
\* An incident concerns the current rollout, also when the step that reports it
\* began under an earlier one.
\* A recovery ends with the policy that was active before the rollout it undoes.
\* No revision is written after its approver logged out, logged in again or was
\* changed, between the approval and the moment the last node is ready.
PoliciesSafe == []PoliciesInv /\ [][PoliciesStep]_vars

CentralRecoveryInv ==
    /\ component = "disaster" =>
        /\ Disasters!OldAccessIsGone
        /\ Disasters!ConsoleShowsSources
        /\ Disasters!SourcesAhead
        /\ Disasters!WorkersReleasedByConsole
    /\ component = "replaying" =>
        /\ Replaying!OldAccessIsGone
        /\ Replaying!ConsoleShowsSources
        /\ Replaying!SourcesAhead
        /\ Replaying!WorkersReleasedByConsole

CentralRecoveryStep ==
    /\ component = "disaster" => Disasters!AccessStep
    /\ component = "replaying" => Replaying!AccessStep

\* Once the recovered console runs, nothing that let anyone in before the
\* disaster does so any more: no account, session, command, invitation, no
\* worker key; and the operator has the credentials of the recovery account.
\* The recovered console shows every fenced source as it is, under the policy
\* that source runs.
\* No running source, and no recovered console, would number its next change or
\* transcript with something central management has already seen and will ignore.
\* A worker of a recovery runs only with a key that was not in use before the
\* disaster and with
\* a release its recovered console has on record.
\* No command of a recovery, however often it is repeated, takes away what was
\* granted since.
CentralRecoverySafe == []CentralRecoveryInv /\ [][CentralRecoveryStep]_vars

\* What is active holds everything the sources held: no write of a service or of
\* an administrator, before, between or after the sessions, is missing from the
\* copy that every source was bound to.
\* All selections name one destination.  Once a source is bound, no service runs on
\* the old files any more, and a service runs on the new database only when it is
\* active.
\* A partly selected cutover can be taken up again: the destination the sources
\* are bound to holds its complete copy, is the one the controller saved, and the
\* seeds of every other source are still those the copy was made from.
CutoverSafe ==
    /\ component = "cutover" =>
        /\ Move!NothingLeftBehind
        /\ Move!OneManagementAuthority
        /\ Move!CutoverResumable

DirectorySyncInv ==
    /\ component = "collections" =>
        /\ Collections!OneCollectionOfASource
        /\ Collections!RunsApart
    /\ component = "catalogs" =>
        /\ Catalogs!OneCollectionOfASource
        /\ Catalogs!RunsApart
    /\ component = "credentials" =>
        /\ Credentials!OneCollectionOfASource
        /\ Credentials!RunsApart

DirectorySyncStep ==
    /\ component = "collections" =>
        /\ Collections!ReadyStep
        /\ Collections!InstallStep
    /\ component = "catalogs" =>
        /\ Catalogs!ReadyStep
        /\ Catalogs!InstallStep
    /\ component = "credentials" =>
        /\ Credentials!ReadyStep
        /\ Credentials!InstallStep

\* However collections of a console, a credential and a scheduler interleave, and
\* whatever a restart interrupted, one directory is collected once at a time.
\* Two runs of one grant are at least an interval apart, also when the first never
\* reported and when the process restarted in between.
\* A result becomes ready for a review only while the credential it was collected
\* with is in force, its owner unchanged and its grant not stopped or replaced.
\* A source leaves the installed directory only when it is removed: a catalog that
\* was prepared before another source came in never takes it out again, and none
\* brings back an older generation.
DirectorySyncSafe == []DirectorySyncInv /\ [][DirectorySyncStep]_vars

ScimInv ==
    /\ component = "provisioning" => Provisioning!InventoryExact
    /\ component = "attesting" => Attesting!InventoryExact

ScimStep ==
    /\ component = "provisioning" =>
        /\ Provisioning!UpdateStep
        /\ Provisioning!RevocationStep
        /\ Provisioning!CandidateStep
    /\ component = "attesting" =>
        /\ Attesting!UpdateStep
        /\ Attesting!RevocationStep
        /\ Attesting!CandidateStep

\* inventory() refuses a stage whose counters and rows disagree: whatever was
\* created, changed and deleted, in whatever order, they agree, every member is
\* there and a login belongs to one user.  A stage that broke this could never be
\* reviewed again.
\* A conditional change never overwrites what its client had not read: also a
\* member that was taken out of a group by the deletion of that member counts.
\* A request whose body was still coming when its bearer was revoked or replaced
\* changes nothing.
\* A candidate becomes ready only with exactly the people, groups and members its
\* reviewer saw, and while those are what is stored.
ScimSafe == []ScimInv /\ [][ScimStep]_vars

ImportInv ==
    /\ component = "importing" =>
        /\ Importing!NoUpdateLost
        /\ Importing!OwnersCopied
        /\ Importing!NothingRevived
        /\ Importing!ConsoleKept
        /\ Importing!NumbersFree
    /\ component = "copying" =>
        /\ CopyingOne!NoUpdateLost
        /\ CopyingOne!OwnersCopied
        /\ CopyingOne!NothingRevived
        /\ CopyingOne!ConsoleKept
        /\ CopyingOne!NumbersFree

ImportStep ==
    /\ component = "importing" => Importing!MirrorStep
    /\ component = "copying" => CopyingOne!MirrorStep

\* No change of a worker's message is forgotten: as long as the owner has the
\* message, the console shows its present state or the change is still marked for
\* export, unless the record is beyond retention.
\* The copy is what the owners hold: every live message once, at its owner, with
\* all its transcripts.
\* A message whose deletion was recorded is not in the copy.
\* What the old console showed is found again: the message under the same number,
\* at least the transcripts it had, the judgements; a revoked node stays revoked
\* and the installed revision goes on.
\* No two recipients have one number, and the next one allocated is free.
\* An exchange that arrives late never takes the console back to an older state of
\* a message, and never renumbers its recipients.
ImportSafe == []ImportInv /\ [][ImportStep]_vars

ConnectorsInv ==
    /\ component = "reading" =>
        /\ Reading!Complete
        /\ Reading!RecentlyHeld
    /\ component = "nesting" =>
        /\ Nesting!Complete
        /\ Nesting!RecentlyHeld
    /\ component = "renewing" =>
        /\ Renewing!Complete
        /\ Renewing!RecentlyHeld

ConnectorsStep ==
    /\ component = "reading" =>
        /\ Reading!InstallStep
        /\ Reading!PreparedStep
    /\ component = "nesting" =>
        /\ Nesting!InstallStep
        /\ Nesting!PreparedStep
    /\ component = "renewing" =>
        /\ Renewing!InstallStep
        /\ Renewing!PreparedStep

\* A collection is whole or it is nothing: whoever was at the provider from its first
\* request on is in it, with every membership that stood all the time, whatever else
\* joined, left or failed to answer meanwhile.  Okta has two lists of people, and
\* okta.rs says that one who crosses them aborts the scan: so it is for who is met
\* twice, but with Crossing, one who is met in neither list is missed and the scan
\* does not abort.
\* A person found by an address was active with it at the provider not longer ago than
\* a directory may be stale and a collection may last, or an export may be old; changes
\* of protection and repeated uploads of an export do not renew it.
\* No collection changes who is protected, drops a protected identity or alters one
\* without the review having said so, also when the protection was edited between the
\* review and its installation.
\* An export that waits for its preparation until it is too old is never prepared.
ConnectorsSafe == []ConnectorsInv /\ [][ConnectorsStep]_vars

\* An entry the index shows and that has not expired can be read: both its files
\* are there, whole, under the key on disk - through crashes, clean-ups, purges
\* and the end of collection.
\* Once this process has reconciled, no original lies outside the index and the
\* index knows what each entry takes, except where a clean-up or an update failed.
\* The index calls observations final only when the context on disk does, so a
\* crash between the two repeats the refresh and never skips it.
\* No export leaves after the entry's own expiry.
\* Without a crash or a failed step, what the archive takes stays within the
\* largest quota in force; a crash between a context and its row lets the next
\* capture count the old size (repaired by Recover, which may then exceed it).
ResearchArchiveSafe ==
    /\ component = "originals" =>
        /\ Originals!Readable
        /\ Originals!Reconciles
        /\ Originals!FinalIsRecorded
        /\ Originals!ExportedInTime
        /\ Originals!WithinQuota
    /\ component = "export" =>
        /\ OriginalsOut!Readable
        /\ OriginalsOut!Reconciles
        /\ OriginalsOut!FinalIsRecorded
        /\ OriginalsOut!ExportedInTime
        /\ OriginalsOut!WithinQuota

\* An evaluation's row never outlives the candidate it is about.
\* While a session holds the lock, a job that is running is the one it claimed,
\* and never are two running: a host whose connection was lost, however long it
\* goes on training, neither keeps a job nor publishes one.
\* A candidate that a retained revision names can be restored: its row is
\* complete and its files are there, whatever was retired or swept since.
ResearchJobsSafe ==
    /\ component = "research" =>
        /\ ResearchQueue!EvaluationHasCandidate
        /\ ResearchQueue!RunningIsOwned
        /\ ResearchQueue!SelectedKept
    /\ component = "runners" =>
        /\ ResearchSessions!EvaluationHasCandidate
        /\ ResearchSessions!RunningIsOwned
        /\ ResearchSessions!SelectedKept

\* A message that was ever labelled, or drawn into a sample to evaluate, is never
\* training feedback while it is stored - however labels and samples expire - and
\* so never in an adaptive export.
\* An export that claims its sample was not examined before is the first of that
\* sample and of its campaigns for as long as exposures count, also when two
\* exports overlap.
ResearchEvidenceSafe ==
    /\ component = "labels" =>
        /\ LabelData!NeverRelapses
        /\ LabelData!ClearMeansFirst
    /\ component = "exports" =>
        /\ ExportedData!NeverRelapses
        /\ ExportedData!ClearMeansFirst

\* Reading a directory, and the collections that read it: both of the above.
DirectoriesSafe == DirectorySyncSafe /\ ConnectorsSafe

\* Originals kept for research, the jobs that use them, and what evaluation may
\* never lend to training: the three above.
ResearchSafe == ResearchArchiveSafe /\ ResearchJobsSafe /\ ResearchEvidenceSafe

=============================================================================
