---------------------------- MODULE DirectorySync ----------------------------
(***************************************************************************)
(* Directory collection (src/control/identity*.rs, src/identity/sync.rs,   *)
(* schedule*, connections*, management.rs, runtime.rs and their PostgreSQL *)
(* counterparts in src/central).  A collection of a directory source is    *)
(* admitted by a durable intent, runs detached from any request for        *)
(* minutes, and ends with a receipt; the catalog it prepares is installed  *)
(* by a later, reviewed change of the settings.  Stored credentials are    *)
(* replaced, revoked and tied to their owner; a grant lets the scheduler   *)
(* collect without a session.                                              *)
(***************************************************************************)
EXTENDS Naturals, FiniteSets

CONSTANTS
    Sources, None,
    Jobs,      \* 1..n: collections are numbered as they start
    Active,    \* collections at a time
    Hourly,    \* collections within the rate window
    Lease,     \* of a collection
    Interval,  \* of every grant
    MaxTime, MaxConn, MaxOwner, MaxRevision  \* bounds

VARIABLES
    now, revision,
    catalog,   \* the installed directory: the generation of every source
    owner,     \* version of the account that owns credentials and grants
    conn,      \* stored credential of every source, with its schedule
    jobs,      \* journal: request and outcome of every collection
    task,      \* of every job: where the detached work is
    runs       \* history: when the grant of a source was used

vars == <<now, revision, catalog, owner, conn, jobs, task, runs>>

NoGrant == [id |-> 0, stopped |-> FALSE, due |-> 0, failures |-> 0, last |-> None]
NoConn == [gen |-> 0, owner |-> 0, revoked |-> FALSE, grant |-> NoGrant]

Init ==
    /\ now = 0 /\ revision = 0 /\ owner = 0
    /\ catalog = [s \in Sources |-> 0]
    /\ conn = [s \in Sources |-> NoConn]
    /\ jobs = << >> /\ task = [j \in Jobs |-> "none"]
    /\ runs = [s \in Sources |-> {}]

Started == DOMAIN jobs

-----------------------------------------------------------------------------
(* Credentials and grants                                                   *)

\* live: the generation named, not revoked, of an owner who has not changed.
ConnLive(s, gen) ==
    conn[s].gen = gen /\ gen > 0 /\ ~conn[s].revoked /\ conn[s].owner = owner

\* replacement: a new generation supersedes the one the caller saw; the grant of
\* the old one goes with it.
SaveConnection(s) ==
    /\ conn[s].gen < MaxConn
    /\ conn' = [conn EXCEPT ![s] = [NoConn EXCEPT !.gen = conn[s].gen + 1, !.owner = owner,
                                                   !.grant.id = conn[s].grant.id]]
    /\ UNCHANGED <<now, revision, catalog, owner, jobs, task, runs>>

RevokeConnection(s) ==
    /\ conn[s].gen > 0 /\ ~conn[s].revoked
    /\ conn' = [conn EXCEPT ![s].revoked = TRUE]
    /\ UNCHANGED <<now, revision, catalog, owner, jobs, task, runs>>

\* A changed password, role or state of the owner ends sessions and credentials.
ChangeOwner ==
    /\ owner < MaxOwner /\ owner' = owner + 1
    /\ UNCHANGED <<now, revision, catalog, conn, jobs, task, runs>>

\* Times of a grant are kept one ahead, so that zero is no grant.
HasGrant(s) == conn[s].grant.last # None \/ conn[s].grant.due > 0

\* enable: the current owner grants background collection.
SaveSchedule(s) ==
    /\ ConnLive(s, conn[s].gen) /\ conn[s].grant.id < MaxConn
    /\ conn' = [conn EXCEPT ![s].grant =
                    [NoGrant EXCEPT !.id = conn[s].grant.id + 1, !.due = now + 1]]
    /\ UNCHANGED <<now, revision, catalog, owner, jobs, task, runs>>

StopSchedule(s) ==
    /\ HasGrant(s) /\ ~conn[s].grant.stopped
    /\ conn' = [conn EXCEPT ![s].grant.stopped = TRUE]
    /\ UNCHANGED <<now, revision, catalog, owner, jobs, task, runs>>

-----------------------------------------------------------------------------
(* Collections                                                              *)

\* Mutant: a collection of another kind is not counted.
AdmitKind(s, kind) ==
    ~\E j \in Started : jobs[j].kind = kind /\ jobs[j].source = s /\ jobs[j].state = "running"
                        /\ jobs[j].deadline >= now

\* admit: few collections an hour, few at a time, one of a source at a time.  An
\* intent without a receipt counts until its lease ends.
Admit(s, kind) ==
    LET busy == {j \in Started : jobs[j].state = "running" /\ jobs[j].deadline >= now} IN
    /\ Cardinality(Started) < Hourly
    /\ Cardinality(busy) < Active
    /\ \A j \in busy : jobs[j].source # s

Request(s, kind) ==
    [source |-> s, kind |-> kind, revision |-> revision, catalog |-> catalog, owner |-> owner,
     conn |-> IF kind = "session" THEN 0 ELSE conn[s].gen,
     grant |-> IF kind = "scheduled" THEN conn[s].grant.id ELSE 0,
     deadline |-> now + Lease, state |-> "running", doc |-> None]

Launch(j, s, kind) ==
    /\ j = Cardinality(Started) + 1 /\ Admit(s, kind)
    /\ jobs' = [x \in Started \cup {j} |-> IF x = j THEN Request(s, kind) ELSE jobs[x]]
    /\ task' = [task EXCEPT ![j] = "collecting"]

\* synchronize_*: the credential comes with the request and is not kept.
StartSession(j, s) ==
    /\ Launch(j, s, "session")
    /\ UNCHANGED <<now, revision, catalog, owner, conn, runs>>

\* collect_directory_connection and upload_ad_directory: a stored credential.
StartStored(j, s) ==
    /\ ConnLive(s, conn[s].gen)
    /\ Launch(j, s, "stored")
    /\ UNCHANGED <<now, revision, catalog, owner, conn, runs>>

\* due: never while a run is out, nor while its result awaits a review.
Due(s) ==
    LET g == conn[s].grant IN
    /\ HasGrant(s) /\ ~g.stopped /\ now + 1 >= g.due
    /\ g.last # None =>
        \/ jobs[g.last].state = "running" /\ now > jobs[g.last].deadline
        \/ jobs[g.last].state = "ready" /\ revision # jobs[g.last].revision
        \/ jobs[g.last].state = "failed"

\* Mutant: the next run is set when this one ends.
NextDueLater(s) == conn[s].grant.due

\* A claim moves the next run at once.
NextDue(s) == now + Interval + 1

\* claim: the grant's lease and the intent in one transaction.
Claim(j, s) ==
    /\ ConnLive(s, conn[s].gen) /\ Due(s)
    /\ Launch(j, s, "scheduled")
    /\ conn' = [conn EXCEPT ![s].grant.due = NextDue(s), ![s].grant.last = j]
    /\ runs' = [runs EXCEPT ![s] = @ \cup {<<conn[s].gen, conn[s].grant.id, now>>}]
    /\ UNCHANGED <<now, revision, catalog, owner>>

\* collection_authorize, by the session, the credential or the grant's lease.
Authorized(j) ==
    LET r == jobs[j] IN
    CASE r.kind = "session" -> r.owner = owner
      [] r.kind = "stored" -> r.owner = owner /\ ConnLive(r.source, r.conn)
      [] r.kind = "scheduled" ->
            /\ ConnLive(r.source, r.conn) /\ conn[r.source].grant.id = r.grant
            /\ ~conn[r.source].grant.stopped /\ conn[r.source].grant.last = j
            /\ r.state = "running" /\ now <= r.deadline

\* Outcome of the provider, of prepare_collected_directory, or of the watch.
Work(j) ==
    LET r == jobs[j]
        fresh == r.revision = revision /\ r.catalog = catalog IN
    /\ task[j] = "collecting"
    /\ task' = [task EXCEPT ![j] =
            IF Authorized(j) /\ fresh THEN "prepared" ELSE "failed"]
    /\ UNCHANGED <<now, revision, catalog, owner, conn, jobs, runs>>

CollectionFails(j) ==
    /\ task[j] = "collecting"
    /\ task' = [task EXCEPT ![j] = "failed"]
    /\ UNCHANGED <<now, revision, catalog, owner, conn, jobs, runs>>

\* Mutant: what was checked before the result was stored is enough.
ReadyUnchecked(j) == task[j] = "prepared" /\ now <= jobs[j].deadline

\* finish: a prepared result of a stored credential or a grant is ready only if
\* that is still good in the transaction that records it.
Ready(j) ==
    /\ task[j] = "prepared" /\ now <= jobs[j].deadline
    /\ jobs[j].kind # "session" => Authorized(j)

\* The catalog a collection prepared: its own source moves to a new generation.
Document(j) == [jobs[j].catalog EXCEPT ![jobs[j].source] = @ + 1]

\* completed: a failure delays the next run of the grant that is still the same.
Backoff(s, j, failed) ==
    LET g == conn[s].grant IN
    IF g.id # jobs[j].grant \/ conn[s].gen # jobs[j].conn \/ g.last # j THEN g
    ELSE IF ~failed THEN [g EXCEPT !.failures = 0]
    ELSE [g EXCEPT !.failures = IF @ < 2 THEN @ + 1 ELSE 2,
                   !.due = now + 1 + Interval * (IF g.failures = 0 THEN 2 ELSE 4)]

Finish(j) ==
    LET s == jobs[j].source
        \* a result that is good but late has no receipt at all
        lost == task[j] = "prepared" /\ now > jobs[j].deadline
                /\ (jobs[j].kind = "session" \/ Authorized(j)) IN
    /\ task[j] \in {"prepared", "failed"} /\ jobs[j].state = "running"
    /\ task' = [task EXCEPT ![j] = "over"]
    /\ IF lost THEN UNCHANGED <<jobs, conn>>
       ELSE /\ jobs' = [jobs EXCEPT ![j].state = IF Ready(j) THEN "ready" ELSE "failed",
                                    ![j].doc = IF Ready(j) THEN Document(j) ELSE None]
            /\ conn' = IF jobs[j].kind = "scheduled"
                       THEN [conn EXCEPT ![s].grant = Backoff(s, j, ~Ready(j))] ELSE conn
    /\ UNCHANGED <<now, revision, catalog, owner, runs>>

\* The process ends: its detached work is gone, its intents stay without a receipt.
Restart ==
    /\ \E j \in Jobs : task[j] \in {"collecting", "prepared", "failed"}
    /\ task' = [j \in Jobs |-> IF task[j] = "none" THEN "none" ELSE "over"]
    /\ UNCHANGED <<now, revision, catalog, owner, conn, jobs, runs>>

-----------------------------------------------------------------------------
(* Installation                                                             *)

\* Mutant: the result of a collection is taken as it is.
ReviewedAnyway(j) == TRUE

\* apply: the review was made from what is installed.
Reviewed(j) == jobs[j].catalog = catalog

\* validate_transition: no source that is in both goes back.
Forward(doc) == \A s \in Sources : catalog[s] > 0 /\ doc[s] > 0 => doc[s] >= catalog[s]

\* An administrator installs a prepared catalog, whenever it was made.
Install(j) ==
    /\ j \in Started /\ jobs[j].state = "ready" /\ revision < MaxRevision
    /\ Reviewed(j) /\ Forward(jobs[j].doc) /\ catalog # jobs[j].doc
    /\ catalog' = jobs[j].doc /\ revision' = revision + 1
    /\ UNCHANGED <<now, owner, conn, jobs, task, runs>>

\* Edit::Remove of a source, prepared and installed in one review.
Remove(s) ==
    /\ catalog[s] > 0 /\ revision < MaxRevision
    /\ catalog' = [catalog EXCEPT ![s] = 0] /\ revision' = revision + 1
    /\ UNCHANGED <<now, owner, conn, jobs, task, runs>>

\* The time limit of the detached work is shorter than its lease.
Tick ==
    /\ now < MaxTime /\ now' = now + 1
    /\ \A j \in Started : task[j] = "collecting" => now < jobs[j].deadline
    /\ UNCHANGED <<revision, catalog, owner, conn, jobs, task, runs>>

Next ==
    \/ \E s \in Sources : SaveConnection(s) \/ RevokeConnection(s) \/ SaveSchedule(s)
                          \/ StopSchedule(s) \/ Remove(s)
    \/ \E j \in Jobs, s \in Sources :
            Claim(j, s) \/ StartSession(j, s) \/ StartStored(j, s)
    \/ \E j \in Jobs : Work(j) \/ CollectionFails(j) \/ Finish(j) \/ Install(j)
    \/ ChangeOwner \/ Restart \/ Tick

Spec == Init /\ [][Next]_vars

-----------------------------------------------------------------------------
(* Properties                                                               *)

\* However collections of a console, a credential and a scheduler interleave, and
\* whatever a restart interrupted, one directory is collected once at a time.
OneCollectionOfASource ==
    \A i, j \in Started :
        i # j /\ jobs[i].source = jobs[j].source => ~(task[i] = "collecting" /\ task[j] = "collecting")

ReadyStep ==
    \A j \in Started :
        jobs[j].state = "running" /\ jobs'[j].state = "ready" /\ jobs[j].kind # "session" =>
            LET c == conn[jobs[j].source] IN
            /\ c.gen = jobs[j].conn /\ ~c.revoked /\ c.owner = owner
            /\ jobs[j].kind = "scheduled" => c.grant.id = jobs[j].grant /\ ~c.grant.stopped

\* A result becomes ready for a review only while the credential it was collected
\* with is in force, its owner unchanged and its grant not stopped or replaced.
NothingReadyAfterRevocation == [][ReadyStep]_vars

InstallStep ==
    \A s \in Sources :
        /\ catalog'[s] < catalog[s] => catalog'[s] = 0 /\ \A x \in Sources \ {s} : catalog'[x] = catalog[x]

\* A source leaves the installed directory only when it is removed: a catalog that
\* was prepared before another source came in never takes it out again, and none
\* brings back an older generation.
NoSilentRemoval == [][InstallStep]_vars

\* Two runs of one grant are at least an interval apart, also when the first never
\* reported and when the process restarted in between.
RunsApart ==
    \A s \in Sources : \A a, b \in runs[s] :
        a[1] = b[1] /\ a[2] = b[2] /\ a[3] < b[3] => b[3] - a[3] >= Interval
=============================================================================
