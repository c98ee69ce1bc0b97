----------------------------- MODULE Activation -----------------------------
(***************************************************************************)
(* Coordinated activation of a policy on every MX of a cluster.            *)
(*                                                                         *)
(* The authority (the coordinator) keeps a durable journal of one rollout  *)
(* (src/cluster/activation.rs) that administrators stage, abort and        *)
(* recover, and that its own loop advances                                 *)
(* (src/control/activation_authority.rs).  Every node, the coordinator     *)
(* included, runs a participant driver (src/control/activation.rs) that    *)
(* takes a copy of the journal, closes the node's admission gate           *)
(* (src/cluster/activation/gate.rs), drains it, and keeps a durable view   *)
(* of the decision (src/cluster/activation/participant.rs).  Workers poll  *)
(* the authority (src/cluster/worker.rs, src/api/cluster.rs); polls and    *)
(* replies may be lost, delayed, repeated and reordered.                   *)
(*                                                                         *)
(* A policy bundle is named by its epoch; membership is fixed, as the      *)
(* authority refuses every step while it differs from the rollout's.       *)
(***************************************************************************)
EXTENDS Naturals

CONSTANTS
    Nodes,       \* the rollout's participants
    Owner,       \* the coordinator among them
    Sessions,    \* SMTP sessions, pairs of a node and a name
    Revocable,   \* TRUE if an approving account may change
    MaxSeq,      \* bound: rollouts
    MaxFaults,   \* bound: restarts of nodes and failed driver runs
    MaxEvents    \* bound: rollouts and faults together

ASSUME OwnerAssumption == Owner \in Nodes
ASSUME SessionAssumption == \A s \in Sessions : s[1] \in Nodes
ASSUME BoundAssumption ==
    MaxSeq \in Nat /\ MaxFaults \in Nat /\ MaxEvents \in Nat /\ Revocable \in BOOLEAN

WorkerNodes == Nodes \ {Owner}

\* An epoch orders bundles by rollout and by console revision.  The runtime of
\* a node that was never enrolled has none; its policy is the first base's.
Epoch  == [seq : 0..MaxSeq, rev : 0..(MaxSeq + 1)]
Legacy == [seq |-> 0, rev |-> 0]
First  == [seq |-> 0, rev |-> 1]
Policy(e) == IF e = Legacy THEN First ELSE e

Waiting  == 0
Prepared == 1
Applied  == 2
Nothing  == [epoch |-> Legacy, prog |-> Waiting]     \* no acknowledgement

Phases  == {"none", "preparing", "committed", "released", "aborted"}
Journal == [cur : Epoch, epoch : Epoch, base : Epoch, phase : Phases,
            prog : [Nodes -> Waiting..Applied], rec : BOOLEAN]
Local   == [auth : Journal, inst : Epoch, prep : BOOLEAN]
Stages  == {"idle", "drain", "fenced", "install", "advance"}

VARIABLES
    \* the authority
    journal,   \* the activation journal (durable)
    approved,  \* the approving account is unchanged since it approved (durable)
    \* messages
    past,      \* every journal so far: a reply carries the one of its poll's time
    polls,     \* what workers ever had to report: runtime and receipt.  They poll all
               \* the time, so a report is on its way as soon as it is true
    \* each node
    disk,      \* Local, phase "none" before enrolment (durable)
    active,    \* gate: the epoch admission is bound to
    fence,     \* gate: the last fence
    closed,    \* gate: admission is closed
    run,       \* the installed runtime's epoch
    step,      \* the driver's stage and the Local it works on
    sess,      \* SMTP sessions
    faults     \* history

authority == <<journal, approved>>
messages  == <<past, polls>>
gate      == <<active, fence, closed>>
node      == <<disk, gate, run, step>>
vars      == <<authority, messages, node, sess, faults>>

NoJournal == [cur |-> First, epoch |-> First, base |-> First, phase |-> "none",
              prog |-> [n \in Nodes |-> Waiting], rec |-> FALSE]
NoLocal   == [auth |-> NoJournal, inst |-> First, prep |-> FALSE]
Idle      == [at |-> "idle", loc |-> NoLocal]
NoSession == [st |-> "idle", ep |-> Legacy]

Init ==
    /\ journal = NoJournal /\ approved = TRUE
    /\ past = {}
    /\ polls = {[node |-> w, ack |-> Nothing, run |-> First] : w \in WorkerNodes}
    /\ disk = [n \in Nodes |-> NoLocal]
    /\ active = [n \in Nodes |-> Legacy]
    /\ fence = [n \in Nodes |-> Legacy]
    /\ closed = [n \in Nodes |-> FALSE]
    /\ run = [n \in Nodes |-> Legacy]
    /\ step = [n \in Nodes |-> Idle]
    /\ sess = [s \in Sessions |-> NoSession]
    /\ faults = 0

-----------------------------------------------------------------------------
(* The authority's journal                                                  *)

Save(j) == journal' = j /\ past' = past \cup {j}

Open(j) == j.phase \in {"none", "released", "aborted"}     \* Journal::released

\* Journal::start, for proposed and for recovered
Rollout(j, recovery) ==
    [cur   |-> j.cur,
     epoch |-> [seq |-> j.epoch.seq + 1, rev |-> j.cur.rev + 1],
     base  |-> j.cur, phase |-> "preparing",
     prog  |-> [n \in Nodes |-> Waiting], rec |-> recovery]

\* Mutant: a receipt of an earlier rollout counts for the current one.
AcknowledgeableStale(j, ack) ==
    /\ ack.epoch.seq <= j.epoch.seq /\ j.phase # "aborted"
    /\ ack.prog = Applied => j.phase \in {"committed", "released"}

\* Journal::acknowledged: late and repeated receipts never lower the progress.
Acknowledgeable(j, ack) ==
    /\ ack.epoch = j.epoch /\ j.phase # "aborted"
    /\ ack.prog = Applied => j.phase \in {"committed", "released"}
Acknowledged(j, n, ack) ==
    [j EXCEPT !.prog[n] = IF ack.prog > @ THEN ack.prog ELSE @]

MoreRollouts == journal.epoch.seq < MaxSeq /\ journal.epoch.seq + faults < MaxEvents

\* stage_authorized: nothing unresolved, the authority runs the current policy,
\* and the last poll handled of every worker reports it (any poll may be the
\* last one handled, as polls may be repeated).
Stage ==
    /\ step[Owner].at = "idle"
    /\ Open(journal) /\ MoreRollouts
    /\ Policy(run[Owner]) = journal.cur
    /\ \A w \in WorkerNodes : \E p \in polls : p.node = w /\ p.run = journal.cur
    /\ Save(Rollout(journal, FALSE))
    /\ approved' = TRUE
    /\ UNCHANGED <<polls, node, sess, faults>>

\* abort_activation_session
Abort ==
    /\ step[Owner].at = "idle"
    /\ journal.phase = "preparing" /\ ~journal.rec
    /\ Save([journal EXCEPT !.phase = "aborted"])
    /\ UNCHANGED <<approved, polls, node, sess, faults>>

\* recover_activation_session: another rollout, of the previous policy.
Recover ==
    /\ step[Owner].at = "idle"
    /\ journal.phase = "committed" /\ ~journal.rec /\ MoreRollouts
    /\ Save(Rollout(journal, TRUE))
    /\ approved' = TRUE
    /\ UNCHANGED <<polls, node, sess, faults>>

\* The approving account is edited or disabled: its version moves on.
AccountChanges ==
    /\ Revocable /\ approved /\ journal.phase = "preparing"
    /\ approved' = FALSE
    /\ UNCHANGED <<journal, messages, node, sess, faults>>

Commit(j) == [j EXCEPT !.phase = "committed", !.cur = j.epoch]
Release(j) == [j EXCEPT !.phase = "released"]

\* Local::acknowledgement
Acknowledgement(loc) ==
    IF loc.auth.phase = "aborted" THEN Nothing
    ELSE IF loc.inst = loc.auth.epoch THEN [epoch |-> loc.auth.epoch, prog |-> Applied]
    ELSE IF loc.prep THEN [epoch |-> loc.auth.epoch, prog |-> Prepared]
    ELSE Nothing

\* The transaction that ends advance_activation_step: record the owner's own
\* receipt, then commit or release if everybody is ready.  Without the approval
\* the commit is refused, and the receipt with it.
Advance ==
    /\ step[Owner].at = "advance"
    /\ LET ack == Acknowledgement(step[Owner].loc)
           j   == IF ack = Nothing THEN journal ELSE Acknowledged(journal, Owner, ack)
       IN  /\ ack # Nothing => Acknowledgeable(journal, ack)
           /\ IF j.phase = "preparing" /\ \A n \in Nodes : j.prog[n] >= Prepared
              THEN IF approved THEN Save(Commit(j)) ELSE UNCHANGED <<journal, past>>
              ELSE IF j.phase = "committed" /\ \A n \in Nodes : j.prog[n] = Applied
              THEN Save(Release(j))
              ELSE Save(j)
    /\ step' = [step EXCEPT ![Owner] = Idle]
    /\ UNCHANGED <<approved, polls, disk, gate, run, sess, faults>>

-----------------------------------------------------------------------------
(* The exchange between a worker and the authority                          *)

\* sync_exchange: one transaction records the receipt; the reply carries the
\* journal.  A receipt for an older or an aborted rollout is ignored.
Exchange(p) ==
    /\ p \in polls
    /\ Acknowledgeable(journal, p.ack)
    /\ Save(Acknowledged(journal, p.node, p.ack))
    /\ UNCHANGED <<approved, polls, node, sess, faults>>

-----------------------------------------------------------------------------
(* The participant driver: synchronize_activation, one run at a time        *)

Enrolled(loc) == loc.auth.phase # "none"

\* Local::validate
Valid(loc) ==
    LET j == loc.auth
    IN  /\ loc.inst.seq <= j.epoch.seq
        /\ j.phase = "preparing" => loc.inst.seq < j.epoch.seq
        /\ j.phase = "committed" => loc.prep
        /\ j.phase = "released"  => loc.prep /\ loc.inst = j.epoch
        /\ j.phase = "aborted"   => loc.inst = j.base

\* Local::observe, its result and its checks
Observed(loc, j) ==
    IF ~Enrolled(loc) THEN [auth |-> j, inst |-> j.base, prep |-> FALSE]
    ELSE [auth |-> j, inst |-> loc.inst, prep |-> loc.prep /\ loc.auth.epoch = j.epoch]

Continues(old, j) ==
    /\ j.epoch = old.epoch /\ j.base = old.base /\ j.rec = old.rec
    /\ \A n \in Nodes : j.prog[n] >= old.prog[n]
    /\ \/ j.phase = old.phase
       \/ old.phase = "preparing" /\ j.phase \in {"committed", "aborted"}
       \/ old.phase = "committed" /\ j.phase = "released"

\* Mutant: only a node that saw the commit may follow a recovery.
RecoversCommitted(old, j) ==
    /\ j.rec /\ j.base = old.epoch
    /\ old.phase = "committed" /\ j.phase = "preparing"

Recovers(old, j) ==
    /\ j.rec /\ j.base = old.epoch
    /\ old.phase \in {"preparing", "committed"} /\ j.phase = "preparing"

Observable(loc, j) ==
    /\ IF ~Enrolled(loc) THEN j.phase \in {"preparing", "aborted"} /\ ~j.rec
       ELSE \/ j.epoch.seq = loc.auth.epoch.seq /\ Continues(loc.auth, j)
            \/ j.epoch.seq > loc.auth.epoch.seq /\ Recovers(loc.auth, j)
            \/ /\ j.epoch.seq > loc.auth.epoch.seq /\ ~j.rec
               /\ j.phase \in {"preparing", "aborted"} /\ j.base = loc.inst
    /\ Valid(Observed(loc, j))

\* The driver returns loc's acknowledgement: a worker reports it in its polls,
\* the owner goes on to Advance.
Return(n, loc, epoch) ==
    /\ polls' = IF n = Owner THEN polls
                ELSE polls \cup {[node |-> n, ack |-> Acknowledgement(loc), run |-> epoch]}
    /\ step' = [step EXCEPT ![n] = IF n = Owner THEN [at |-> "advance", loc |-> loc]
                                   ELSE Idle]

\* observe, and the base a node enrols with is the policy it runs.  The owner
\* reads its own journal; a worker works from a reply of any age.
Takes(n, j) ==
    /\ step[n].at = "idle" /\ j \in past
    /\ n = Owner => j = journal
    /\ Observable(disk[n], j)
    /\ ~Enrolled(disk[n]) => Policy(run[n]) = j.base

\* Mutant: the right runtime is taken for an open gate.
SettledByRuntime(n, loc) == Open(loc.auth) /\ run[n] = loc.inst

Settled(n, loc) == Open(loc.auth) /\ ~closed[n] /\ run[n] = loc.inst

\* A release or an abort that changes nothing: only the view is saved.
Replay(n, j) ==
    /\ Takes(n, j)
    /\ LET loc == Observed(disk[n], j)
       IN  /\ Settled(n, loc)
           /\ disk' = [disk EXCEPT ![n] = loc]
           /\ Return(n, loc, run[n])
    /\ UNCHANGED <<authority, past, gate, run, sess, faults>>

\* Gate::drain closes admission; its waiter holds on until the leases are gone.
Fence(n, j) ==
    /\ Takes(n, j)
    /\ LET loc == Observed(disk[n], j)
       IN  /\ ~Settled(n, loc)
           /\ fence[n] # Legacy =>
                j.epoch.seq > fence[n].seq \/ (j.epoch = fence[n] /\ closed[n])
           /\ active[n] # Legacy =>
                \/ j.epoch = active[n]
                \/ j.epoch.seq > active[n].seq /\ j.epoch.rev > active[n].rev
           /\ step' = [step EXCEPT ![n] = [at |-> "drain", loc |-> loc]]
    /\ closed' = [closed EXCEPT ![n] = TRUE]
    /\ fence' = [fence EXCEPT ![n] = j.epoch]
    /\ UNCHANGED <<authority, messages, disk, active, run, sess, faults>>

Accepting(n) == {s \in Sessions : s[1] = n /\ sess[s].st = "accepting"}

\* Mutant: the fence does not wait for running acceptances.
DrainedAtOnce(n) ==
    /\ step[n].at = "drain"
    /\ disk' = [disk EXCEPT ![n] = step[n].loc]
    /\ step' = [step EXCEPT ![n].at = "fenced"]
    /\ UNCHANGED <<authority, messages, gate, run, sess, faults>>

\* Drained: persist_activation saves the fence before anything is prepared.
Drained(n) ==
    /\ step[n].at = "drain" /\ Accepting(n) = {}
    /\ disk' = [disk EXCEPT ![n] = step[n].loc]
    /\ step' = [step EXCEPT ![n].at = "fenced"]
    /\ UNCHANGED <<authority, messages, gate, run, sess, faults>>

\* bind_initial: a legacy runtime is reloaded as the base it enrolled with.
Bind(n) ==
    /\ step[n].at = "fenced" /\ active[n] = Legacy
    /\ run' = [run EXCEPT ![n] = step[n].loc.inst]
    /\ active' = [active EXCEPT ![n] = step[n].loc.inst]
    /\ UNCHANGED <<authority, messages, disk, fence, closed, step, sess, faults>>

Bound(n, phases) ==
    /\ step[n].at = "fenced" /\ active[n] # Legacy
    /\ step[n].loc.auth.phase \in phases

\* The candidate is loaded; prepared() is saved, then acknowledged.
Prepare(n) ==
    /\ Bound(n, {"preparing"})
    /\ LET loc == [step[n].loc EXCEPT !.prep = TRUE]
       IN  disk' = [disk EXCEPT ![n] = loc] /\ Return(n, loc, run[n])
    /\ UNCHANGED <<authority, past, gate, run, sess, faults>>

\* applied() is saved before the runtime is swapped.
Apply(n) ==
    /\ Bound(n, {"committed"})
    /\ LET loc == [step[n].loc EXCEPT !.inst = step[n].loc.auth.epoch]
       IN  /\ disk' = [disk EXCEPT ![n] = loc]
           /\ step' = [step EXCEPT ![n] = [at |-> "install", loc |-> loc]]
    /\ UNCHANGED <<authority, messages, gate, run, sess, faults>>

Install(n) ==
    /\ step[n].at = "install"
    /\ run' = [run EXCEPT ![n] = step[n].loc.inst]
    /\ Return(n, step[n].loc, step[n].loc.inst)
    /\ UNCHANGED <<authority, past, disk, gate, sess, faults>>

\* Gate::resume opens for the fence's epoch or the one admission is bound to.
MayResume(n) == step[n].loc.inst \in {fence[n], active[n]}

\* The installed runtime is verified and swapped in, then Gate::resume.
Resume(n) ==
    /\ Bound(n, {"released", "aborted"}) /\ MayResume(n)
    /\ run' = [run EXCEPT ![n] = step[n].loc.inst]
    /\ active' = [active EXCEPT ![n] = step[n].loc.inst]
    /\ closed' = [closed EXCEPT ![n] = FALSE]
    /\ Return(n, step[n].loc, step[n].loc.inst)
    /\ UNCHANGED <<authority, past, disk, fence, sess, faults>>

\* The runtime was swapped in, but the gate refuses: the driver ends in an error.
ResumeRefused(n) ==
    /\ Bound(n, {"released", "aborted"}) /\ ~MayResume(n)
    /\ run' = [run EXCEPT ![n] = step[n].loc.inst]
    /\ step' = [step EXCEPT ![n] = Idle]
    /\ UNCHANGED <<authority, messages, disk, gate, sess, faults>>

Fault == faults < MaxFaults /\ journal.epoch.seq + faults < MaxEvents /\ faults' = faults + 1

\* A model that does not load, a write that fails, a transaction refused: the
\* driver (or Advance) gives up, and the gate stays as it is.
Fail(n) ==
    /\ step[n].at \notin {"idle", "install"} /\ Fault
    /\ step' = [step EXCEPT ![n] = Idle]
    /\ UNCHANGED <<authority, messages, disk, gate, run, sess>>

-----------------------------------------------------------------------------
(* SMTP sessions                                                            *)

\* MAIL: the gate is open; then the runtime's snapshot is taken.
MailFrom(s) ==
    /\ sess[s].st = "idle" /\ ~closed[s[1]]
    /\ sess' = [sess EXCEPT ![s].st = "mail"]
    /\ UNCHANGED <<authority, messages, node, faults>>

Snapshot(s) ==
    /\ sess[s].st = "mail"
    /\ sess' = [sess EXCEPT ![s] = [st |-> "scanned", ep |-> run[s[1]]]]
    /\ UNCHANGED <<authority, messages, node, faults>>

\* Mutant: the gate is not asked which policy the message was scanned under.
EnterAnyEpoch(s) ==
    /\ sess[s].st = "scanned"
    /\ ~closed[s[1]]
    /\ sess' = [sess EXCEPT ![s].st = "accepting"]
    /\ UNCHANGED <<authority, messages, node, faults>>

\* Gate::enter, with the epoch the message was scanned under
Enter(s) ==
    /\ sess[s].st = "scanned"
    /\ ~closed[s[1]] /\ active[s[1]] = sess[s].ep
    /\ sess' = [sess EXCEPT ![s].st = "accepting"]
    /\ UNCHANGED <<authority, messages, node, faults>>

\* The queue write ends (Drop for Acceptance), or the session ends without one.
Leave(s) ==
    /\ sess[s].st # "idle"
    /\ sess' = [sess EXCEPT ![s] = NoSession]
    /\ UNCHANGED <<authority, messages, node, faults>>

-----------------------------------------------------------------------------
\* Mutant: a restarted node admits mail at once.
RestartOpen(n) ==
    /\ Fault
    /\ LET epoch == IF Enrolled(disk[n]) THEN disk[n].inst ELSE Legacy
       IN  active' = [active EXCEPT ![n] = epoch] /\ run' = [run EXCEPT ![n] = epoch]
    /\ closed' = [closed EXCEPT ![n] = FALSE]
    /\ fence' = [fence EXCEPT ![n] = Legacy]
    /\ step' = [step EXCEPT ![n] = Idle]
    /\ sess' = [s \in Sessions |-> IF s[1] = n THEN NoSession ELSE sess[s]]
    /\ UNCHANGED <<authority, messages, disk>>

\* A node dies and starts again: Gate::recovering, closed, once the storage is
\* enrolled; the runtime is the one last saved.
Restart(n) ==
    /\ Fault
    /\ LET enrolled == Enrolled(disk[n]) \/ (n = Owner /\ journal.phase # "none")
           epoch == IF Enrolled(disk[n]) THEN disk[n].inst
                    ELSE IF enrolled THEN journal.cur ELSE Legacy
       IN  /\ active' = [active EXCEPT ![n] = epoch]
           /\ run' = [run EXCEPT ![n] = epoch]
           /\ closed' = [closed EXCEPT ![n] = enrolled]
    /\ fence' = [fence EXCEPT ![n] = Legacy]
    /\ step' = [step EXCEPT ![n] = Idle]
    /\ sess' = [s \in Sessions |-> IF s[1] = n THEN NoSession ELSE sess[s]]
    /\ UNCHANGED <<authority, messages, disk>>

Work(n) ==
    \/ Drained(n) \/ Bind(n) \/ Prepare(n) \/ Apply(n) \/ Install(n)
    \/ Resume(n) \/ ResumeRefused(n)

Drive(n) ==
    \/ \E j \in past : Replay(n, j) \/ Fence(n, j)
    \/ Work(n) \/ Fail(n) \/ Restart(n)

Session(s) == MailFrom(s) \/ Snapshot(s) \/ Enter(s) \/ Leave(s)

Next ==
    \/ Stage \/ Abort \/ Recover \/ AccountChanges \/ Advance
    \/ \E p \in polls : Exchange(p)
    \/ \E n \in Nodes : Drive(n)
    \/ \E s \in Sessions : Session(s)

Spec == Init /\ [][Next]_vars
-----------------------------------------------------------------------------
(* Properties                                                               *)

\* The type of each variable; Acknowledged keeps progress within its three values
\* however often a receipt is repeated.
TypeOK ==
    /\ journal \in Journal /\ approved \in BOOLEAN
    /\ past \subseteq Journal
    /\ polls \subseteq [node : WorkerNodes, run : Epoch,
                       ack : [epoch : Epoch, prog : Waiting..Applied]]
    /\ disk \in [Nodes -> Local]
    /\ active \in [Nodes -> Epoch] /\ fence \in [Nodes -> Epoch]
    /\ closed \in [Nodes -> BOOLEAN] /\ run \in [Nodes -> Epoch]
    /\ step \in [Nodes -> [at : Stages, loc : Local]]
    /\ sess \in [Sessions -> [st : {"idle", "mail", "scanned", "accepting"}, ep : Epoch]]
    /\ faults \in 0..MaxFaults

\* A gate that is open admits mail under the committed policy only, so two nodes
\* are never open on different policies.
OneOpenPolicy == \A n \in Nodes : ~closed[n] => Policy(active[n]) = journal.cur

\* Once a node's readiness is recorded, and until the rollout ends, its gate is
\* closed, nobody is being accepted behind it and its storage says so.
ReadyMeansFenced ==
    \A n \in Nodes :
        journal.phase \in {"preparing", "committed"} /\ journal.prog[n] >= Prepared =>
            /\ closed[n] /\ Accepting(n) = {}
            /\ Enrolled(disk[n]) /\ disk[n].auth.epoch = journal.epoch

\* What was staged, committed and released is what every node runs.
ReleasedEverywhere ==
    journal.phase = "released" =>
        \A n \in Nodes : disk[n].inst = journal.epoch /\ run[n] = journal.epoch

\* What PolicySwitch sees of a state: the committed policy, and who accepts under
\* which.
Switched == INSTANCE PolicySwitch WITH
    Policies <- Epoch, Nobody <- Legacy,
    policy <- journal.cur,
    lease <- [s \in Sessions |-> IF sess[s].st = "accepting" THEN Policy(sess[s].ep)
                                 ELSE Legacy]

\* The abstract promise: the cluster accepts mail under one policy at a time, and
\* it is switched while nobody is accepting.
AtomicSwitch == Switched!Spec

\* docs/coordinated-activation.md: after an account change prevents a commit,
\* another administrator can abort before commit.
RevokedCanAbort == journal.phase = "preparing" /\ ~approved => ~journal.rec

-----------------------------------------------------------------------------
(* Liveness                                                                 *)

\* The loops poll for ever (every two seconds on the owner) and now and then a
\* reply is current; faults are finitely many; sessions have deadlines.
Fairness ==
    /\ WF_vars(\E p \in polls : Exchange(p)) /\ WF_vars(Advance)
    /\ \A n \in Nodes : WF_vars(Work(n)) /\ SF_vars(Replay(n, journal) \/ Fence(n, journal))
    /\ \A s \in Sessions : WF_vars(Leave(s))

FairSpec == Spec /\ Fairness

\* A gate that a rollout, a recovery or a restart closed opens again once the
\* rollout is released, or the rollout is aborted.
AdmissionResumes ==
    \A n \in Nodes : closed[n] ~> (~closed[n] \/ journal.phase = "aborted")

\* docs/coordinated-activation.md: before commit, abort restores admission on the
\* unchanged base epoch.
AbortRestoresAdmission ==
    \A n \in Nodes :
        (closed[n] /\ journal.phase = "aborted") ~> (~closed[n] \/ journal.phase # "aborted")
=============================================================================
