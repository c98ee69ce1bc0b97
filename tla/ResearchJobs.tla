---------------------------- MODULE ResearchJobs ----------------------------
(***************************************************************************)
(* Research jobs of the central database: administrators queue them        *)
(* (src/central/research.rs, quality/workflow.rs), a worker session claims *)
(* and finishes them (central/research_worker.rs), housekeeping retires    *)
(* them (central/retention.rs), and a trained candidate may be selected    *)
(* for observation (api/quality.rs).  The runner around the session, which *)
(* trains and sweeps old directories, is external.                         *)
(***************************************************************************)
EXTENDS Integers, FiniteSets

CONSTANTS
    Users,                      \* administrators at first
    Batches,                    \* of every sample: [user, purpose]
    Jobs,                       \* identifiers
    Workers, Home,              \* hosts that run a worker; the one whose files are selected
    Keep,                       \* how long samples, jobs and candidates are usable
    MaxOutstanding, MaxJobs,    \* limits of the queue
    MaxTime, MaxFaults          \* bounds

VARIABLES
    now, faults,
    admins,      \* accounts that are enabled administrators
    batch,       \* of every sample: when it was drawn
    job,         \* of every identifier: its row
    owner,       \* the host whose session holds the advisory lock
    worker,      \* of every host: its runner
    dir,         \* of every host and job: when the directory was written
    revisions,   \* candidates named by retained policy revisions
    selecting    \* a selection under way

vars == <<now, faults, admins, batch, job, owner, worker, dir, revisions, selecting>>
outside == <<now, faults, admins, batch>>

None  == [none |-> TRUE]
Never == -1
Gone  == -2
Free  == [status |-> "none"]
Retired == [status |-> "retired"]
Off   == [at |-> "off"]
Samples == DOMAIN Batches

Rows == {j \in Jobs : job[j].status \notin {"none", "retired"}}
InStatus(S) == {j \in Jobs : job[j].status \in S}
Recent(t) == t >= now - Keep

Init ==
    /\ now = 0 /\ faults = 0 /\ admins = Users
    /\ batch = [b \in Samples |-> Never]
    /\ job = [j \in Jobs |-> Free]
    /\ owner = None /\ worker = [w \in Workers |-> Off]
    /\ dir = [w \in Workers |-> [j \in Jobs |-> Never]]
    /\ revisions = {} /\ selecting = None

-----------------------------------------------------------------------------
(* Administrators                                                           *)

Sample(b) ==
    /\ batch[b] = Never /\ batch' = [batch EXCEPT ![b] = now]
    /\ UNCHANGED <<now, faults, admins, job, owner, worker, dir, revisions, selecting>>

\* A candidate an evaluation may use: trained by the same account, complete, recent.
Prepared(c, u) ==
    c \in InStatus({"complete"}) /\ job[c].user = u /\ job[c].op = "train" /\ job[c].model /\ Recent(job[c].created)

\* A sample of the account that may still be used, and fitted only if drawn for it.
Usable(b, u, op) ==
    batch[b] >= 0 /\ Recent(batch[b]) /\ Batches[b].user = u /\ (op = "train" => Batches[b].purpose = "development")

Enqueue(u, b, op, c) ==
    /\ u \in admins /\ Usable(b, u, op)
    /\ IF op = "evaluate" THEN c \in Jobs /\ Prepared(c, u) ELSE c = None
    /\ Cardinality(InStatus({"queued", "running"})) < MaxOutstanding /\ Cardinality(Rows) < MaxJobs
    /\ ~\E k \in InStatus({"queued", "running"}) : job[k].batch = b /\ job[k].op = op
    /\ \E j \in Jobs :
         /\ job[j] = Free
         /\ job' = [job EXCEPT ![j] = [status |-> "queued", user |-> u, batch |-> b, op |-> op, cand |-> c,
                                       created |-> now, finished |-> Never, model |-> FALSE]]
    /\ UNCHANGED <<outside, owner, worker, dir, revisions, selecting>>

Cancel(u, j) ==
    /\ u \in admins /\ j \in InStatus({"queued"}) /\ job[j].user = u
    /\ job' = [job EXCEPT ![j].status = "cancelled", ![j].finished = now]
    /\ UNCHANGED <<outside, owner, worker, dir, revisions, selecting>>

\* candidate: the row, then the file; the policy is staged later.
Select(u, j) ==
    /\ selecting = None /\ u \in admins /\ Prepared(j, u)
    /\ dir[Home][j] >= 0 /\ Recent(dir[Home][j])
    /\ selecting' = [user |-> u, job |-> j]
    /\ UNCHANGED <<outside, job, owner, worker, dir, revisions>>
StageSelected ==
    /\ selecting # None
    /\ revisions' = IF selecting.user \in admins /\ dir[Home][selecting.job] >= 0
                    THEN revisions \cup {selecting.job} ELSE revisions
    /\ selecting' = None
    /\ UNCHANGED <<outside, job, owner, worker, dir>>

\* A revision leaves the retained ones.
DropRevision(j) ==
    /\ j \in revisions /\ revisions' = revisions \ {j}
    /\ UNCHANGED <<outside, job, owner, worker, dir, selecting>>

ChangeAdmin(u) ==
    /\ faults < MaxFaults /\ faults' = faults + 1
    /\ admins' = IF u \in admins THEN admins \ {u} ELSE admins \cup {u}
    /\ UNCHANGED <<now, batch, job, owner, worker, dir, revisions, selecting>>

-----------------------------------------------------------------------------
(* A worker session                                                         *)

Live(w) == owner = w
Idle(w) == [worker EXCEPT ![w] = Off]

\* Mutant: whoever was running may still finish.
LeftRunning == job

\* What a new owner finds running was abandoned: interrupted, never retrained.
Interrupted ==
    [j \in Jobs |-> IF job[j].status = "running"
                    THEN [job[j] EXCEPT !.status = "interrupted", !.finished = now] ELSE job[j]]

\* research_worker: the advisory lock of the session, which no other holds.
Open(w) ==
    /\ worker[w] = Off /\ owner = None
    /\ owner' = w /\ job' = Interrupted
    /\ worker' = [worker EXCEPT ![w] = [at |-> "list"]]
    /\ UNCHANGED <<outside, dir, revisions, selecting>>

\* retained, for the runner's sweep of old directories.
Retained == Rows \cup revisions
ListRetained(w) ==
    /\ worker[w].at = "list" /\ Live(w)
    /\ worker' = [worker EXCEPT ![w] = [at |-> "sweep", keep |-> Retained]]
    /\ UNCHANGED <<outside, job, owner, dir, revisions, selecting>>
Sweep(w, j) ==
    /\ worker[w].at = "sweep" /\ j \notin worker[w].keep /\ dir[w][j] >= 0 /\ ~Recent(dir[w][j])
    /\ dir' = [dir EXCEPT ![w][j] = Gone]
    /\ UNCHANGED <<outside, job, owner, worker, revisions, selecting>>

\* Revalidated when executed, not just when queued.
StillValid(j) ==
    /\ Recent(job[j].created) /\ job[j].user \in admins
    /\ Usable(job[j].batch, job[j].user, job[j].op)
    /\ job[j].op = "evaluate" => Prepared(job[j].cand, job[j].user)
Revalidated ==
    [j \in Jobs |-> IF job[j].status = "queued" /\ ~StillValid(j)
                    THEN [job[j] EXCEPT !.status = "cancelled", !.finished = now] ELSE job[j]]

\* The oldest one left; a runner without work ends its session.
Claim(w) ==
    LET ready == {j \in Jobs : Revalidated[j].status = "queued"} IN
    /\ worker[w].at = "sweep" /\ Live(w)
    /\ IF ready = {}
       THEN job' = Revalidated /\ worker' = Idle(w) /\ owner' = None
       ELSE \E j \in ready :
              /\ \A k \in ready : job[j].created <= job[k].created
              /\ job' = [Revalidated EXCEPT ![j].status = "running"]
              /\ worker' = [worker EXCEPT ![w] = [at |-> "work", job |-> j]]
              /\ UNCHANGED owner
    /\ UNCHANGED <<outside, dir, revisions, selecting>>

\* The runner exports, runs the research program and checks its result; the
\* session may be long gone by then.
Work(w) ==
    /\ worker[w].at = "work"
    /\ \E outcome \in {"complete", "failed", "insufficient_labels"} :
         LET j == worker[w].job IN
         /\ outcome = "complete" /\ job[j].status # "retired" /\ job[j].op = "evaluate" => dir[w][job[j].cand] >= 0
         /\ worker' = [worker EXCEPT ![w] = [at |-> "report", job |-> j, outcome |-> outcome]]
         /\ dir' = IF outcome = "complete" THEN [dir EXCEPT ![w][j] = now] ELSE dir
    /\ UNCHANGED <<outside, job, owner, revisions, selecting>>

\* finish: on the connection that claimed it, for an administrator who still is one.
Finish(w) ==
    LET j == worker[w].job
        s == IF job[j].user \in admins THEN worker[w].outcome ELSE "cancelled"
    IN
    /\ worker[w].at = "report" /\ Live(w) /\ job[j].status = "running"
    /\ job' = [job EXCEPT ![j].status = s, ![j].finished = now,
                          ![j].model = s = "complete" /\ job[j].op = "train"]
    /\ worker' = Idle(w) /\ owner' = None
    /\ UNCHANGED <<outside, dir, revisions, selecting>>

\* The database drops the connection, or the runner stops.
LoseSession(w) ==
    /\ Live(w) /\ faults < MaxFaults /\ faults' = faults + 1
    /\ owner' = None
    /\ UNCHANGED <<now, admins, batch, job, worker, dir, revisions, selecting>>
Stop(w) ==
    /\ worker[w] # Off /\ faults < MaxFaults /\ faults' = faults + 1
    /\ worker' = Idle(w) /\ owner' = IF Live(w) THEN None ELSE owner
    /\ UNCHANGED <<now, admins, batch, job, dir, revisions, selecting>>

\* A request on a lost connection fails, and the runner with it.
RequestFails(w) ==
    /\ worker[w].at \in {"list", "sweep", "report"} /\ ~Live(w)
    /\ worker' = Idle(w)
    /\ UNCHANGED <<outside, job, owner, dir, revisions, selecting>>

-----------------------------------------------------------------------------
(* Housekeeping                                                             *)

Ended == {"complete", "insufficient_labels", "failed", "cancelled", "interrupted"}

\* Mutant: age alone decides.
RetirableByAge(j) == j \in InStatus(Ended) /\ ~Recent(job[j].finished)

\* Never an in-flight job, a candidate another job needs, or one a revision names.
Retirable(j) ==
    /\ j \in InStatus(Ended) /\ ~Recent(job[j].finished)
    /\ ~\E k \in Rows : job[k].cand = j
    /\ j \notin revisions

\* Mutant: a sample goes with its jobs.
UnusedByAge(b, rows) == batch[b] >= 0 /\ ~Recent(batch[b])

Unused(b, rows) == batch[b] >= 0 /\ ~Recent(batch[b]) /\ ~\E j \in rows : job[j].batch = b

\* One transaction: the jobs, then the oldest sample without any; rows of a
\* removed sample would go with it.
Cleanup ==
    LET gone == {j \in Jobs : Retirable(j)}
        old  == {b \in Samples : Unused(b, Rows \ gone)}
        first == {b \in old : \A a \in old : batch[b] <= batch[a]}
    IN
    /\ gone \cup first # {}
    /\ \E one \in IF first = {} THEN {{}} ELSE {{b} : b \in first} :
         /\ batch' = [b \in Samples |-> IF b \in one THEN Gone ELSE batch[b]]
         /\ job' = [j \in Jobs |-> IF j \in gone \/ (j \in Rows /\ job[j].batch \in one) THEN Retired ELSE job[j]]
    /\ UNCHANGED <<now, faults, admins, owner, worker, dir, revisions, selecting>>

\* A selection takes less than the unit of time.
Tick ==
    /\ now < MaxTime /\ selecting = None /\ now' = now + 1
    /\ UNCHANGED <<faults, admins, batch, job, owner, worker, dir, revisions, selecting>>

Next ==
    \/ \E b \in Samples : Sample(b)
    \/ \E u \in Users : \/ ChangeAdmin(u)
                        \/ \E b \in Samples, op \in {"train", "evaluate"}, c \in Jobs \cup {None} : Enqueue(u, b, op, c)
                        \/ \E j \in Jobs : Cancel(u, j) \/ Select(u, j)
    \/ StageSelected \/ \E j \in Jobs : DropRevision(j)
    \/ \E w \in Workers : \/ Open(w) \/ ListRetained(w) \/ Claim(w) \/ Work(w) \/ Finish(w)
                          \/ LoseSession(w) \/ Stop(w) \/ RequestFails(w)
                          \/ \E j \in Jobs : Sweep(w, j)
    \/ Cleanup \/ Tick

Spec == Init /\ [][Next]_vars

-----------------------------------------------------------------------------
(* Properties                                                               *)

\* While a session holds the lock, a job that is running is the one it claimed,
\* and never are two running: a host whose connection was lost, however long it
\* goes on training, neither keeps a job nor publishes one.
RunningIsOwned ==
    /\ Cardinality(InStatus({"running"})) <= 1
    /\ \A j \in InStatus({"running"}) :
         owner # None => worker[owner].at \in {"work", "report"} /\ worker[owner].job = j

\* An evaluation's row never outlives the candidate it is about.
EvaluationHasCandidate ==
    \A j \in Rows : job[j].op = "evaluate" =>
        job[j].cand \in InStatus({"complete"}) /\ job[job[j].cand].model

\* A candidate that a retained revision names can be restored: its row is
\* complete and its files are there, whatever was retired or swept since.
SelectedKept ==
    \A j \in revisions : j \in InStatus({"complete"}) /\ job[j].model /\ dir[Home][j] >= 0
=============================================================================
