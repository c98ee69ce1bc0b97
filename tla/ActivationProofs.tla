-------------------------- MODULE ActivationProofs --------------------------
(***************************************************************************)
(* TLAPS proofs about Activation, for every set of nodes and of sessions   *)
(* and any bound on rollouts, restarts and failed driver runs.             *)
(***************************************************************************)
EXTENDS Activation, TLAPS

-----------------------------------------------------------------------------
(* The inductive invariant                                                  *)

\* A journal's epochs: revisions keep up with the rollouts, and only the first
\* policy belongs to no rollout.
Dated(e) == e.rev <= e.seq + 1 /\ (e.seq = 0 => e = First)

\* What the authority's code keeps of a journal: the current policy is the base
\* until the commit and the candidate from then on.
Shaped(j) ==
    /\ Dated(j.cur) /\ Dated(j.epoch) /\ Dated(j.base) /\ j.cur.seq <= j.epoch.seq
    /\ j.phase = "none" => j = NoJournal
    /\ j.phase # "none" => j.base.seq < j.epoch.seq
    /\ j.phase \in {"preparing", "aborted"} => j.cur = j.base
    /\ j.phase \in {"committed", "released"} => j.cur = j.epoch
    /\ j.phase = "released" => \A n \in Nodes : j.prog[n] = Applied

\* Any number of steps of one rollout.
Later(old, j) ==
    /\ j.epoch = old.epoch /\ j.base = old.base
    /\ \/ j.phase = old.phase
       \/ old.phase = "preparing"
       \/ old.phase = "committed" /\ j.phase = "released"

\* An outcome of an earlier rollout that still says which policy is current.
Stands(j) ==
    /\ j.phase = "aborted"  => journal.cur = j.base \/ journal.cur.seq > j.epoch.seq
    /\ j.phase = "released" => journal.cur = j.epoch \/ journal.cur.seq > j.epoch.seq

\* Every reply that may still arrive is of an older rollout, or an older state
\* of the current one, and an ended rollout's outcome stands until the next commit.
HistoryKept ==
    /\ Shaped(journal)
    /\ \A j \in past :
         /\ Shaped(j) /\ j.phase # "none" /\ Stands(j)
         /\ j.epoch.seq < journal.epoch.seq \/ Later(j, journal)

\* What node n stored, and what its driver works on, came from the authority.
ViewKept(n) ==
    /\ disk[n] = NoLocal \/ (disk[n].auth \in past /\ Valid(disk[n]))
    /\ step[n].at # "idle" => step[n].loc.auth \in past /\ Valid(step[n].loc)
    /\ step[n].at = "drain" =>
         /\ step[n].loc = Observed(disk[n], step[n].loc.auth)
         /\ Observable(disk[n], step[n].loc.auth)
    /\ step[n].at \in {"fenced", "install", "advance"} => disk[n] = step[n].loc
    /\ step[n].at = "install" => disk[n].inst = disk[n].auth.epoch
    /\ step[n].at = "advance" =>
         n = Owner /\ (disk[n].inst = disk[n].auth.epoch => run[n] = disk[n].inst)

\* Node n has seen the rollout that made the current policy current.
NotBehind(n) == disk[n].auth.epoch.seq >= journal.cur.seq

\* While the driver works past the fence, and while storage says the node
\* prepared an unfinished rollout, nothing is being accepted.
GateKept(n) ==
    /\ step[n].at \in {"drain", "fenced", "install"} => closed[n]
    /\ step[n].at \in {"fenced", "install"} => Accepting(n) = {}
    /\ disk[n].prep /\ disk[n].auth.phase \in {"preparing", "committed"} =>
         closed[n] /\ Accepting(n) = {}

\* Storage and runtime of node n bear out progress prog of rollout epoch.
BornOut(n, epoch, prog) ==
    /\ prog >= Prepared => disk[n].auth.epoch = epoch /\ disk[n].prep
    /\ prog = Applied => disk[n].inst = epoch /\ run[n] = epoch

\* A report says nothing, or what storage bears out unless it has moved on to a
\* later rollout.
ReportKept(p) ==
    \/ p.ack = Nothing
    \/ /\ p.ack.prog >= Prepared /\ p.ack.epoch.seq > 0
       /\ p.ack.epoch.seq <= disk[p.node].auth.epoch.seq
       /\ p.ack.epoch = disk[p.node].auth.epoch => BornOut(p.node, p.ack.epoch, p.ack.prog)

\* The inductive invariant of coordinated activation.
ActivationInv ==
    /\ TypeOK
    /\ HistoryKept
    /\ \A n \in Nodes :
         ViewKept(n) /\ NotBehind(n) /\ GateKept(n) /\ BornOut(n, journal.epoch, journal.prog[n])
    /\ \A p \in polls : ReportKept(p)
    /\ OneOpenPolicy
-----------------------------------------------------------------------------
(* Types                                                                    *)

\* The values that stand for nothing yet are well typed.
LEMMA Constants ==
    /\ Legacy \in Epoch /\ First \in Epoch /\ Legacy # First
    /\ NoJournal \in Journal /\ NoLocal \in Local
    /\ Nothing \in [epoch : Epoch, prog : Waiting..Applied]
    /\ Idle \in [at : Stages, loc : Local]
    /\ NoSession \in [st : {"idle", "mail", "scanned", "accepting"}, ep : Epoch]
<1>1. Legacy \in Epoch /\ First \in Epoch /\ Legacy # First
  BY BoundAssumption DEF Legacy, First, Epoch
<1>2. NoJournal \in Journal
  BY <1>1 DEF NoJournal, Journal, Phases, Waiting, Applied
<1>3. NoLocal \in Local
  BY <1>1, <1>2 DEF NoLocal, Local
<1> QED
  BY <1>1, <1>2, <1>3 DEF Nothing, Waiting, Applied, Idle, Stages, NoSession

\* A node's acknowledgement and the view it takes of a journal are well typed.
LEMMA ViewTypes ==
    /\ \A loc \in Local :
         Acknowledgement(loc) \in [epoch : Epoch, prog : Waiting..Applied]
    /\ \A loc \in Local, j \in Journal : Observed(loc, j) \in Local
<1>1. ASSUME NEW loc \in Local
      PROVE  Acknowledgement(loc) \in [epoch : Epoch, prog : Waiting..Applied]
  BY Constants DEF Acknowledgement, Local, Journal, Prepared, Applied, Waiting
<1>2. ASSUME NEW loc \in Local, NEW j \in Journal PROVE Observed(loc, j) \in Local
  BY DEF Observed, Local, Journal
<1> QED BY <1>1, <1>2

\* What the authority may write is a journal, whatever the receipt.
LEMMA JournalTypes ==
    /\ \A j \in Journal : Commit(j) \in Journal /\ Release(j) \in Journal
    /\ \A j \in Journal, n \in Nodes, ack \in [epoch : Epoch, prog : Waiting..Applied] :
         Acknowledged(j, n, ack) \in Journal
    /\ \A j \in Journal, r \in BOOLEAN :
         Shaped(j) /\ j.epoch.seq < MaxSeq => Rollout(j, r) \in Journal
<1>1. ASSUME NEW j \in Journal PROVE Commit(j) \in Journal /\ Release(j) \in Journal
  BY DEF Commit, Release, Journal, Phases
<1>2. ASSUME NEW j \in Journal, NEW n \in Nodes,
             NEW ack \in [epoch : Epoch, prog : Waiting..Applied]
      PROVE  Acknowledged(j, n, ack) \in Journal
  BY DEF Acknowledged, Journal
<1>3. ASSUME NEW j \in Journal, NEW r \in BOOLEAN, Shaped(j), j.epoch.seq < MaxSeq
      PROVE  Rollout(j, r) \in Journal
  <2>1. [seq |-> j.epoch.seq + 1, rev |-> j.cur.rev + 1] \in Epoch
    BY <1>3, BoundAssumption DEF Journal, Epoch, Shaped, Dated
  <2>2. [n \in Nodes |-> Waiting] \in [Nodes -> Waiting..Applied]
    BY DEF Waiting, Applied
  <2> QED BY <2>1, <2>2 DEF Rollout, Journal, Phases
<1> QED BY <1>1, <1>2, <1>3

\* Every step keeps the variables in their types; a rollout's epoch stays within
\* its bounds because the current policy's revision keeps up with the rollouts.
LEMMA TypeStep == TypeOK /\ HistoryKept /\ [Next]_vars => TypeOK'
<1> SUFFICES ASSUME TypeOK, HistoryKept, [Next]_vars PROVE TypeOK' OBVIOUS
<1> USE OwnerAssumption DEF TypeOK
<1>1. CASE Stage \/ Abort \/ Recover \/ AccountChanges
  <2>1. Shaped(journal) BY DEF HistoryKept
  <2>2. CASE Stage \/ Recover
    BY <2>1, <2>2, JournalTypes DEF Stage, Recover, Save, MoreRollouts, node, gate
  <2>3. CASE Abort
    <3>1. [journal EXCEPT !.phase = "aborted"] \in Journal BY DEF Journal, Phases
    <3> QED BY <2>3, <3>1 DEF Abort, Save, node, gate
  <2>4. CASE AccountChanges
    BY <2>4 DEF AccountChanges, messages, node, gate
  <2> QED BY <1>1, <2>2, <2>3, <2>4
<1>2. CASE Advance
  <2> DEFINE ack == Acknowledgement(step[Owner].loc)
             j == IF ack = Nothing THEN journal ELSE Acknowledged(journal, Owner, ack)
  <2>1. j \in Journal
    BY ViewTypes, JournalTypes
  <2>2. Commit(j) \in Journal /\ Release(j) \in Journal
    BY <2>1, JournalTypes
  <2>3. journal' \in Journal /\ past' \subseteq Journal
    BY <1>2, <2>1, <2>2 DEF Advance, Save
  <2>4. step' \in [Nodes -> [at : Stages, loc : Local]]
    BY <1>2, Constants DEF Advance
  <2> QED BY <1>2, <2>3, <2>4 DEF Advance, gate
<1>3. ASSUME NEW p \in polls, Exchange(p) PROVE TypeOK'
  <2>1. Acknowledged(journal, p.node, p.ack) \in Journal
    BY JournalTypes DEF WorkerNodes
  <2> QED BY <1>3, <2>1 DEF Exchange, Save, node, gate
<1>4. ASSUME NEW n \in Nodes, NEW loc \in Local, NEW e \in Epoch, Return(n, loc, e)
      PROVE  /\ polls' \subseteq [node : WorkerNodes, run : Epoch,
                                 ack : [epoch : Epoch, prog : Waiting..Applied]]
             /\ step' \in [Nodes -> [at : Stages, loc : Local]]
  <2>1. n # Owner => n \in WorkerNodes BY DEF WorkerNodes
  <2>2. step' \in [Nodes -> [at : Stages, loc : Local]]
    BY <1>4, Constants DEF Return, Stages
  <2>3. Acknowledgement(loc) \in [epoch : Epoch, prog : Waiting..Applied] BY ViewTypes
  <2> QED BY <1>4, <2>1, <2>2, <2>3 DEF Return
<1>5. ASSUME NEW n \in Nodes, NEW j \in past, Replay(n, j) \/ Fence(n, j) PROVE TypeOK'
  <2>1. Observed(disk[n], j) \in Local BY ViewTypes
  <2>2. CASE Replay(n, j)
    BY <1>4, <2>1, <2>2 DEF Replay, authority, gate
  <2>3. CASE Fence(n, j)
    BY <2>1, <2>3 DEF Fence, authority, messages, Stages, Journal
  <2> QED BY <1>5, <2>2, <2>3
<1>6. ASSUME NEW n \in Nodes, Work(n) PROVE TypeOK'
  <2>1. step[n].loc \in Local /\ step[n].loc.inst \in Epoch /\ step[n].loc.auth.epoch \in Epoch
    BY DEF Local, Journal
  <2>2. CASE Drained(n)
    BY <2>1, <2>2 DEF Drained, authority, messages, gate, Stages
  <2>3. CASE Bind(n)
    BY <2>1, <2>3 DEF Bind, authority, messages
  <2>4. CASE Prepare(n)
    <3>1. [step[n].loc EXCEPT !.prep = TRUE] \in Local BY <2>1 DEF Local
    <3> QED BY <1>4, <2>4, <3>1 DEF Prepare, authority, gate
  <2>5. CASE Apply(n)
    <3>1. [step[n].loc EXCEPT !.inst = step[n].loc.auth.epoch] \in Local BY <2>1 DEF Local
    <3> QED BY <2>5, <3>1 DEF Apply, authority, messages, gate, Stages
  <2>6. CASE Install(n)
    BY <1>4, <2>1, <2>6 DEF Install, authority, gate
  <2>7. CASE Resume(n)
    BY <1>4, <2>1, <2>7 DEF Resume, authority
  <2>8. CASE ResumeRefused(n)
    BY <2>1, <2>8, Constants DEF ResumeRefused, authority, messages, gate
  <2> QED BY <1>6, <2>2, <2>3, <2>4, <2>5, <2>6, <2>7, <2>8 DEF Work
<1>7. ASSUME NEW n \in Nodes, Fail(n) \/ Restart(n) PROVE TypeOK'
  <2>1. CASE Fail(n)
    BY <2>1, Constants, BoundAssumption DEF Fail, Fault, authority, messages, gate
  <2>2. CASE Restart(n)
    <3>1. disk[n].inst \in Epoch /\ journal.cur \in Epoch BY DEF Local, Journal
    <3>2. sess' \in [Sessions -> [st : {"idle", "mail", "scanned", "accepting"}, ep : Epoch]]
      BY <2>2, Constants DEF Restart
    <3>3. active' \in [Nodes -> Epoch] /\ run' \in [Nodes -> Epoch] /\ fence' \in [Nodes -> Epoch]
      BY <2>2, <3>1, Constants DEF Restart
    <3>4. closed' \in [Nodes -> BOOLEAN]
      BY <2>2 DEF Restart, Enrolled
    <3> QED BY <2>2, <3>2, <3>3, <3>4, Constants, BoundAssumption
            DEF Restart, Fault, authority, messages
  <2> QED BY <1>7, <2>1, <2>2
<1>8. ASSUME NEW s \in Sessions, Session(s) PROVE TypeOK'
  <2>1. run[s[1]] \in Epoch BY SessionAssumption
  <2> QED BY <1>8, <2>1, Constants DEF Session, MailFrom, Snapshot, Enter, Leave, authority, messages, node, gate
<1>9. CASE UNCHANGED vars
  BY <1>9 DEF vars, authority, messages, node, gate
<1> QED
  BY <1>1, <1>2, <1>3, <1>5, <1>6, <1>7, <1>8, <1>9 DEF Next, Drive
-----------------------------------------------------------------------------
(* The authority                                                            *)

\* A cluster that never staged anything satisfies the invariant.
LEMMA InvInit == Init => ActivationInv
<1> SUFFICES ASSUME Init PROVE ActivationInv OBVIOUS
<1>1. TypeOK
  BY Constants, BoundAssumption DEF Init, TypeOK, WorkerNodes
<1>2. HistoryKept
  BY DEF Init, HistoryKept, Shaped, Dated, NoJournal, First
<1>3. ASSUME NEW n \in Nodes
      PROVE  ViewKept(n) /\ NotBehind(n) /\ GateKept(n)
             /\ BornOut(n, journal.epoch, journal.prog[n])
  BY DEF Init, ViewKept, NotBehind, GateKept, BornOut, NoJournal, NoLocal, Idle, First,
     Prepared, Applied, Waiting
<1>4. \A p \in polls : ReportKept(p)
  BY DEF Init, ReportKept
<1>5. OneOpenPolicy
  BY DEF Init, OneOpenPolicy, Policy, NoJournal
<1> QED BY <1>1, <1>2, <1>3, <1>4, <1>5 DEF ActivationInv

\* Any journal a node may have seen belongs to a rollout not after the current one.
LEMMA Seen ==
    ASSUME TypeOK, HistoryKept, NEW j \in past
    PROVE  /\ j.epoch.seq > 0 /\ j.epoch.seq <= journal.epoch.seq
           /\ j.epoch.seq = journal.epoch.seq => Later(j, journal)
           /\ journal.phase # "none"
<1>1. j \in Journal /\ journal \in Journal BY DEF TypeOK
<1>2. /\ Shaped(j) /\ j.phase # "none" /\ Shaped(journal)
      /\ j.epoch.seq < journal.epoch.seq \/ Later(j, journal)
  BY DEF HistoryKept
<1>3. /\ j.epoch.seq \in Nat /\ j.base.seq \in Nat /\ journal.epoch.seq \in Nat
  BY <1>1 DEF Journal, Epoch
<1>4. j.epoch.seq > 0 BY <1>2, <1>3 DEF Shaped
<1>5. Later(j, journal) => j.epoch.seq = journal.epoch.seq BY DEF Later
<1>6. journal.phase # "none"
  BY <1>2, <1>3, <1>4, <1>5 DEF Shaped, NoJournal, First
<1> QED BY <1>2, <1>3, <1>4, <1>5, <1>6

\* The authority writes the next state of the same rollout.
LEMMA NextState ==
    ASSUME TypeOK, HistoryKept, NEW j \in Journal, Shaped(j), j.phase # "none",
           Later(journal, j), Save(j),
           j.cur = journal.cur \/ (journal.phase = "preparing" /\ j.cur = j.epoch)
    PROVE  HistoryKept'
<1>1. journal' = j /\ past' = past \cup {j} BY DEF Save
<1>2. ASSUME NEW k \in past
      PROVE  /\ Stands(k)'
             /\ k.epoch.seq < j.epoch.seq \/ Later(k, j)
  <2>1. j.epoch = journal.epoch BY DEF Later
  <2>2. k \in Journal /\ journal \in Journal BY DEF TypeOK
  <2>3. k.epoch.seq \in Nat /\ journal.epoch.seq \in Nat BY <2>2 DEF Journal, Epoch
  <2>4. k.epoch.seq < journal.epoch.seq \/ Later(k, journal) BY DEF HistoryKept
  <2>5. Later(k, journal) => Later(k, j) BY DEF Later
  <2>6. Stands(k) BY DEF HistoryKept
  <2>7. CASE j.cur = journal.cur
    BY <1>1, <2>1, <2>4, <2>5, <2>6, <2>7 DEF Stands
  <2>8. CASE journal.phase = "preparing" /\ j.cur = j.epoch
    <3>1. k.phase \in {"aborted", "released"} => k.epoch.seq < journal.epoch.seq
      BY <2>4, <2>8 DEF Later
    <3> QED BY <1>1, <2>1, <2>3, <2>4, <2>5, <2>8, <3>1 DEF Stands
  <2> QED BY <2>7, <2>8
<1>3. Stands(j)'
  BY <1>1 DEF Stands, Shaped
<1>4. Later(j, j) BY DEF Later
<1> QED BY <1>1, <1>2, <1>3, <1>4 DEF HistoryKept

\* The authority starts another rollout, staged or of a recovery.
LEMMA NextRollout ==
    ASSUME TypeOK, HistoryKept, NEW r \in BOOLEAN, Save(Rollout(journal, r))
    PROVE  HistoryKept'
<1>0. PICK j : j = Rollout(journal, r) OBVIOUS
<1>1. journal' = j /\ past' = past \cup {j} BY <1>0 DEF Save
<1>2. /\ journal.cur.seq \in Nat /\ journal.cur.rev \in Nat /\ journal.epoch.seq \in Nat
  BY DEF TypeOK, Journal, Epoch
<1>3. Shaped(journal) BY DEF HistoryKept
<1>4. /\ j.cur = journal.cur /\ j.base = journal.cur /\ j.phase = "preparing"
      /\ j.epoch = [seq |-> journal.epoch.seq + 1, rev |-> journal.cur.rev + 1]
  BY <1>0 DEF Rollout
<1>5. Shaped(j)
  <2>1. Dated(j.cur) /\ Dated(j.base) BY <1>3, <1>4 DEF Shaped
  <2>2. Dated(j.epoch) /\ j.cur.seq <= j.epoch.seq /\ j.base.seq < j.epoch.seq
    BY <1>2, <1>3, <1>4 DEF Shaped, Dated
  <2> QED BY <1>4, <2>1, <2>2 DEF Shaped
<1>6. ASSUME NEW k \in past PROVE Stands(k)' /\ k.epoch.seq < j.epoch.seq
  <2>1. k.epoch.seq <= journal.epoch.seq /\ k.epoch.seq \in Nat
    BY Seen DEF TypeOK, Journal, Epoch
  <2>2. Stands(k) BY DEF HistoryKept
  <2> QED BY <1>1, <1>2, <1>4, <2>1, <2>2 DEF Stands
<1>7. Stands(j)' /\ Later(j, j) BY <1>1, <1>4 DEF Stands, Later
<1> QED BY <1>1, <1>4, <1>5, <1>6, <1>7 DEF HistoryKept

\* What a step of the authority must not disturb in the nodes' state.
LEMMA NodesKept ==
    ASSUME ActivationInv, TypeOK', HistoryKept', past \subseteq past',
           UNCHANGED <<polls, disk, gate, run, sess>>,
           \A n \in Nodes : step'[n] = step[n] \/ step'[n] = Idle,
           \A n \in Nodes : BornOut(n, journal.epoch, journal.prog[n])',
           \/ journal'.cur = journal.cur
           \/ \A n \in Nodes : closed[n] /\ disk[n].auth.epoch.seq >= journal'.cur.seq
    PROVE  ActivationInv'
<1> USE DEF gate
<1>1. ASSUME NEW n \in Nodes PROVE ViewKept(n)'
  <2>1. ViewKept(n) BY DEF ActivationInv
  <2> QED BY <2>1 DEF ViewKept, Idle
<1>2. ASSUME NEW n \in Nodes PROVE NotBehind(n)'
  <2>1. NotBehind(n) BY DEF ActivationInv
  <2> QED BY <2>1 DEF NotBehind
<1>3. ASSUME NEW n \in Nodes PROVE GateKept(n)'
  <2>1. GateKept(n) BY DEF ActivationInv
  <2> QED BY <2>1 DEF GateKept, Accepting, Idle
<1>4. \A p \in polls' : ReportKept(p)'
  BY DEF ActivationInv, ReportKept, BornOut
<1>5. OneOpenPolicy'
  BY DEF ActivationInv, OneOpenPolicy
<1> QED BY <1>1, <1>2, <1>3, <1>4, <1>5 DEF ActivationInv

\* Nothing is recorded as done when a rollout starts.
LEMMA RolloutStep ==
    ASSUME ActivationInv, TypeOK', Stage \/ Recover
    PROVE  ActivationInv'
<1>1. PICK r \in BOOLEAN : Save(Rollout(journal, r)) BY DEF Stage, Recover
<1>2. TypeOK /\ HistoryKept BY DEF ActivationInv
<1>3. HistoryKept' BY <1>1, <1>2, NextRollout
<1>4. \A n \in Nodes : BornOut(n, journal.epoch, journal.prog[n])'
  BY <1>1 DEF Save, Rollout, BornOut, Waiting, Prepared, Applied
<1>5. journal'.cur = journal.cur /\ past \subseteq past' BY <1>1 DEF Save, Rollout
<1>6. UNCHANGED <<polls, disk, gate, run, sess, step>>
  BY DEF Stage, Recover, node
<1> QED BY <1>3, <1>4, <1>5, <1>6, NodesKept

\* An abort keeps the base; an account's change is only looked at by a commit.
LEMMA AbortStep ==
    ASSUME ActivationInv, TypeOK', Abort \/ AccountChanges
    PROVE  ActivationInv'
<1>0. TypeOK /\ HistoryKept BY DEF ActivationInv
<1>1. ASSUME NEW n \in Nodes PROVE BornOut(n, journal.epoch, journal.prog[n])
  BY DEF ActivationInv
<1>2. CASE Abort
  <2>1. PICK j : j = [journal EXCEPT !.phase = "aborted"] OBVIOUS
  <2>2. journal \in Journal /\ Shaped(journal) BY <1>0 DEF TypeOK, HistoryKept
  <2>3. /\ j \in Journal /\ j.phase = "aborted" /\ j.cur = journal.cur
        /\ j.epoch = journal.epoch /\ j.base = journal.base /\ j.prog = journal.prog
    BY <2>1, <2>2 DEF Journal, Phases
  <2>4. Save(j) /\ journal.phase = "preparing" BY <1>2, <2>1 DEF Abort
  <2>5. Shaped(j) /\ Later(journal, j) BY <2>2, <2>3, <2>4 DEF Shaped, Later
  <2>6. HistoryKept' BY <1>0, <2>3, <2>4, <2>5, NextState
  <2>7. journal' = j /\ past \subseteq past' BY <2>4 DEF Save
  <2>8. UNCHANGED <<polls, disk, gate, run, sess, step>> BY <1>2 DEF Abort, node
  <2>9. \A n \in Nodes : BornOut(n, journal.epoch, journal.prog[n])'
    BY <1>1, <2>3, <2>7, <2>8 DEF BornOut
  <2> QED BY <2>3, <2>6, <2>7, <2>8, <2>9, NodesKept
<1>3. CASE AccountChanges
  <2>1. UNCHANGED <<journal, past, polls, disk, gate, run, sess, step>>
    BY <1>3 DEF AccountChanges, messages, node
  <2>2. HistoryKept' BY <1>0, <2>1 DEF HistoryKept, Stands
  <2>3. \A n \in Nodes : BornOut(n, journal.epoch, journal.prog[n])'
    BY <1>1, <2>1 DEF BornOut
  <2> QED BY <2>1, <2>2, <2>3, NodesKept
<1> QED BY <1>2, <1>3

\* A receipt that is recorded is borne out by the node's storage, and recording
\* it is a step of the same rollout.
LEMMA Receipt ==
    ASSUME ActivationInv, NEW n \in Nodes,
           NEW ack \in [epoch : Epoch, prog : Waiting..Applied],
           journal.phase # "none", BornOut(n, journal.epoch, ack.prog),
           NEW j, j = Acknowledged(journal, n, ack)
    PROVE  /\ j \in Journal /\ Shaped(j) /\ Later(journal, j)
           /\ j.phase = journal.phase /\ j.cur = journal.cur /\ j.epoch = journal.epoch
           /\ j.base = journal.base
           /\ \A m \in Nodes : BornOut(m, journal.epoch, j.prog[m])
<1>1. journal \in Journal /\ Shaped(journal) BY DEF ActivationInv, TypeOK, HistoryKept
<1>2. j \in Journal BY <1>1, JournalTypes
<1>3. /\ j.phase = journal.phase /\ j.cur = journal.cur /\ j.epoch = journal.epoch
      /\ j.base = journal.base
      /\ \A m \in Nodes : j.prog[m] = IF m = n /\ ack.prog > journal.prog[n]
                                     THEN ack.prog ELSE journal.prog[m]
  BY <1>1 DEF Acknowledged, Journal
<1>4. ack.prog \in Waiting..Applied /\ \A m \in Nodes : journal.prog[m] \in Waiting..Applied
  BY <1>1 DEF Journal
<1>5. Shaped(j)
  <2>1. ASSUME j.phase = "released", NEW m \in Nodes PROVE j.prog[m] = Applied
    <3>1. journal.prog[m] = Applied /\ journal.prog[n] = Applied BY <1>1, <1>3, <2>1 DEF Shaped
    <3>2. ~(ack.prog > journal.prog[n]) BY <1>4, <3>1 DEF Waiting, Applied
    <3> QED BY <1>3, <3>1, <3>2
  <2> QED BY <1>1, <1>3, <2>1 DEF Shaped
<1>6. ASSUME NEW m \in Nodes PROVE BornOut(m, journal.epoch, j.prog[m])
  <2>1. BornOut(m, journal.epoch, journal.prog[m]) BY DEF ActivationInv
  <2> QED BY <1>3, <2>1
<1> QED BY <1>2, <1>3, <1>5, <1>6 DEF Later

\* A worker's receipt: its storage cannot be ahead of the journal, so a receipt
\* for the current rollout is as good as on the day it was written.
LEMMA ExchangeStep ==
    ASSUME ActivationInv, TypeOK', NEW p \in polls, Exchange(p)
    PROVE  ActivationInv'
<1>0. TypeOK /\ HistoryKept BY DEF ActivationInv
<1> DEFINE n == p.node
<1>1. n \in Nodes /\ p.ack \in [epoch : Epoch, prog : Waiting..Applied]
  BY <1>0 DEF TypeOK, WorkerNodes
<1>2. Acknowledgeable(journal, p.ack) /\ Save(Acknowledged(journal, n, p.ack))
      /\ UNCHANGED <<polls, disk, gate, run, sess, step>>
  BY DEF Exchange, node
<1>3. ReportKept(p) /\ ViewKept(n) BY <1>1 DEF ActivationInv
<1>4. Shaped(journal) BY <1>0 DEF HistoryKept
<1>5. p.ack # Nothing
  BY <1>2, <1>4 DEF Acknowledgeable, Nothing, Shaped, Dated, Legacy, First
<1>6. /\ p.ack.prog >= Prepared /\ p.ack.epoch.seq > 0
      /\ p.ack.epoch.seq <= disk[n].auth.epoch.seq
      /\ p.ack.epoch = disk[n].auth.epoch => BornOut(n, p.ack.epoch, p.ack.prog)
  BY <1>3, <1>5 DEF ReportKept
<1>7. p.ack.epoch = journal.epoch BY <1>2 DEF Acknowledgeable
<1>8. journal.phase # "none"
  BY <1>0, <1>4, <1>6, <1>7 DEF Shaped, NoJournal, First
<1>9. disk[n].auth.epoch = journal.epoch
  <2>1. disk[n].auth.epoch.seq \in Nat /\ journal.epoch.seq \in Nat
    BY <1>0, <1>1 DEF TypeOK, Local, Journal, Epoch
  <2>2. disk[n] # NoLocal BY <1>6, <2>1, <1>7 DEF NoLocal, NoJournal, First
  <2>3. disk[n].auth \in past BY <1>3, <2>2 DEF ViewKept
  <2>4. disk[n].auth.epoch.seq <= journal.epoch.seq BY <1>0, <2>3, Seen
  <2>5. Later(disk[n].auth, journal) BY <1>0, <1>6, <1>7, <2>1, <2>3, <2>4, Seen
  <2> QED BY <2>5 DEF Later
<1>10. BornOut(n, journal.epoch, p.ack.prog) BY <1>6, <1>7, <1>9
<1>11. PICK j : j = Acknowledged(journal, n, p.ack) OBVIOUS
<1>12. /\ j \in Journal /\ Shaped(j) /\ Later(journal, j)
       /\ j.phase = journal.phase /\ j.cur = journal.cur /\ j.epoch = journal.epoch
       /\ \A m \in Nodes : BornOut(m, journal.epoch, j.prog[m])
  BY <1>1, <1>8, <1>10, <1>11, Receipt
<1>13. journal' = j /\ past \subseteq past' /\ Save(j) BY <1>2, <1>11 DEF Save
<1>14. HistoryKept' BY <1>0, <1>8, <1>12, <1>13, NextState
<1>15. \A m \in Nodes : BornOut(m, journal.epoch, journal.prog[m])'
  BY <1>2, <1>12, <1>13 DEF BornOut
<1> QED BY <1>2, <1>12, <1>13, <1>14, <1>15, NodesKept

\* What the journal may count on once everybody is recorded as ready: every gate
\* is closed and drained, and every storage is at this rollout.
LEMMA AllReady ==
    ASSUME ActivationInv, journal.phase \in {"preparing", "committed"}, NEW n \in Nodes,
           NEW prog \in Waiting..Applied, prog >= Prepared, BornOut(n, journal.epoch, prog)
    PROVE  /\ closed[n] /\ Accepting(n) = {}
           /\ Enrolled(disk[n]) /\ disk[n].auth.epoch = journal.epoch
<1>0. TypeOK /\ HistoryKept BY DEF ActivationInv
<1>1. disk[n].auth.epoch = journal.epoch /\ disk[n].prep BY DEF BornOut
<1>2. ViewKept(n) /\ GateKept(n) BY DEF ActivationInv
<1>3. disk[n].auth \in past BY <1>1, <1>2 DEF ViewKept, NoLocal
<1>4. Later(disk[n].auth, journal) BY <1>0, <1>1, <1>3, Seen
<1>5. disk[n].auth.phase # "none" BY <1>0, <1>3 DEF HistoryKept
<1>6. disk[n].auth.phase \in {"preparing", "committed"} BY <1>4, <1>5 DEF Later
<1> QED BY <1>1, <1>2, <1>5, <1>6 DEF GateKept, Enrolled

\* An acknowledgement says of a valid view only what is in it.
LEMMA AckMeans ==
    ASSUME NEW loc \in Local, Valid(loc), loc.auth.phase # "none", loc.auth.epoch.seq > 0,
           Acknowledgement(loc) # Nothing
    PROVE  LET ack == Acknowledgement(loc)
           IN  /\ ack.epoch = loc.auth.epoch /\ ack.prog >= Prepared
               /\ loc.prep /\ (ack.prog = Applied => loc.inst = loc.auth.epoch)
<1>1. loc.auth \in Journal /\ loc.auth.epoch.seq \in Nat BY DEF Local, Journal, Epoch
<1>2. loc.auth.phase # "aborted" BY DEF Acknowledgement
<1>3. CASE loc.inst = loc.auth.epoch
  <2>1. loc.auth.phase \in {"committed", "released"}
    BY <1>1, <1>2, <1>3 DEF Valid, Journal, Phases
  <2>2. loc.prep BY <2>1 DEF Valid
  <2>3. Acknowledgement(loc) = [epoch |-> loc.auth.epoch, prog |-> Applied]
    BY <1>2, <1>3 DEF Acknowledgement
  <2> QED BY <1>3, <2>2, <2>3 DEF Applied, Prepared
<1>4. CASE loc.inst # loc.auth.epoch
  <2>1. loc.prep /\ Acknowledgement(loc) = [epoch |-> loc.auth.epoch, prog |-> Prepared]
    BY <1>2, <1>4 DEF Acknowledgement
  <2> QED BY <2>1 DEF Applied, Prepared
<1> QED BY <1>3, <1>4

\* The authority's own receipt, the commit and the release.  A commit finds every
\* gate closed, so it may change the current policy.
LEMMA AdvanceStep ==
    ASSUME ActivationInv, TypeOK', Advance
    PROVE  ActivationInv'
<1>0. TypeOK /\ HistoryKept BY DEF ActivationInv
<1>1. step[Owner].at = "advance" /\ ViewKept(Owner) BY OwnerAssumption DEF Advance, ActivationInv
<1>2. /\ disk[Owner] = step[Owner].loc /\ disk[Owner].auth \in past /\ Valid(disk[Owner])
      /\ disk[Owner].inst = disk[Owner].auth.epoch => run[Owner] = disk[Owner].inst
  BY <1>1 DEF ViewKept
<1>3. journal.phase # "none" BY <1>0, <1>2, Seen
<1>4. PICK ack : ack = Acknowledgement(disk[Owner]) OBVIOUS
<1>5. PICK j : j = IF ack = Nothing THEN journal ELSE Acknowledged(journal, Owner, ack) OBVIOUS
<1>6. /\ ack # Nothing => Acknowledgeable(journal, ack)
      /\ IF j.phase = "preparing" /\ \A n \in Nodes : j.prog[n] >= Prepared
         THEN IF approved THEN Save(Commit(j)) ELSE UNCHANGED <<journal, past>>
         ELSE IF j.phase = "committed" /\ \A n \in Nodes : j.prog[n] = Applied
         THEN Save(Release(j))
         ELSE Save(j)
  BY <1>2, <1>4, <1>5 DEF Advance
<1>7. UNCHANGED <<polls, disk, gate, run, sess>> BY DEF Advance
<1>8. \A n \in Nodes : step'[n] = step[n] \/ step'[n] = Idle
  BY <1>0 DEF Advance, TypeOK
<1>9. /\ j \in Journal /\ Shaped(j) /\ Later(journal, j)
      /\ j.phase = journal.phase /\ j.cur = journal.cur /\ j.epoch = journal.epoch
      /\ j.base = journal.base
      /\ \A m \in Nodes : BornOut(m, journal.epoch, j.prog[m])
  <2>1. CASE ack = Nothing
    BY <1>0, <1>5, <2>1 DEF ActivationInv, TypeOK, HistoryKept, Later
  <2>2. CASE ack # Nothing
    <3>1. ack \in [epoch : Epoch, prog : Waiting..Applied]
      BY <1>0, <1>4, ViewTypes, OwnerAssumption DEF TypeOK
    <3>2. ack.epoch = disk[Owner].auth.epoch /\ BornOut(Owner, disk[Owner].auth.epoch, ack.prog)
      <4>1. disk[Owner] \in Local BY <1>0, OwnerAssumption DEF TypeOK
      <4>2. disk[Owner].auth.phase # "none" /\ disk[Owner].auth.epoch.seq > 0
        BY <1>0, <1>2, Seen DEF HistoryKept
      <4> QED BY <1>2, <1>4, <2>2, <4>1, <4>2, AckMeans DEF BornOut
    <3>3. ack.epoch = journal.epoch BY <1>6, <2>2 DEF Acknowledgeable
    <3>4. j = Acknowledged(journal, Owner, ack) BY <1>5, <2>2
    <3> QED BY <1>3, <3>1, <3>2, <3>3, <3>4, Receipt, OwnerAssumption
  <2> QED BY <2>1, <2>2
<1>10. CASE UNCHANGED <<journal, past>>
  <2>1. HistoryKept' BY <1>0, <1>10 DEF HistoryKept, Stands
  <2>2. \A n \in Nodes : BornOut(n, journal.epoch, journal.prog[n])'
    BY <1>7, <1>10 DEF ActivationInv, BornOut
  <2> QED BY <1>7, <1>8, <1>10, <2>1, <2>2, NodesKept
<1>11. CASE Save(j)
  <2>1. journal' = j /\ past \subseteq past' BY <1>11 DEF Save
  <2>2. HistoryKept' BY <1>0, <1>3, <1>9, <1>11, NextState
  <2>3. \A n \in Nodes : BornOut(n, journal.epoch, journal.prog[n])'
    BY <1>7, <1>9, <2>1 DEF BornOut
  <2> QED BY <1>7, <1>8, <1>9, <2>1, <2>2, <2>3, NodesKept
<1>12. ASSUME j.phase = "committed", \A n \in Nodes : j.prog[n] = Applied, Save(Release(j))
       PROVE  ActivationInv'
  <2>1. PICK k : k = Release(j) OBVIOUS
  <2>2. /\ k \in Journal /\ k.phase = "released" /\ k.cur = j.cur /\ k.epoch = j.epoch
        /\ k.base = j.base /\ k.prog = j.prog
    BY <1>9, <2>1, JournalTypes DEF Release, Journal
  <2>3. Shaped(k) /\ Later(journal, k)
    BY <1>9, <1>12, <2>2 DEF Shaped, Later
  <2>4. journal' = k /\ past \subseteq past' /\ Save(k) BY <1>12, <2>1 DEF Save
  <2>5. HistoryKept' BY <1>0, <1>9, <2>2, <2>3, <2>4, NextState
  <2>6. \A n \in Nodes : BornOut(n, journal.epoch, journal.prog[n])'
    BY <1>7, <1>9, <2>2, <2>4 DEF BornOut
  <2> QED BY <1>7, <1>8, <1>9, <2>2, <2>4, <2>5, <2>6, NodesKept
<1>13. ASSUME j.phase = "preparing", \A n \in Nodes : j.prog[n] >= Prepared, Save(Commit(j))
       PROVE  ActivationInv'
  <2>1. PICK k : k = Commit(j) OBVIOUS
  <2>2. /\ k \in Journal /\ k.phase = "committed" /\ k.cur = j.epoch /\ k.epoch = j.epoch
        /\ k.base = j.base /\ k.prog = j.prog
    BY <1>9, <2>1, JournalTypes DEF Commit, Journal
  <2>3. k.epoch.seq \in Nat BY <2>2 DEF Journal, Epoch
  <2>4. Shaped(k) /\ Later(journal, k)
    BY <1>9, <1>13, <2>2, <2>3 DEF Shaped, Later
  <2>5. journal' = k /\ past \subseteq past' /\ Save(k) BY <1>13, <2>1 DEF Save
  <2>6. HistoryKept' BY <1>0, <1>9, <1>13, <2>2, <2>4, <2>5, NextState
  <2>7. \A n \in Nodes : BornOut(n, journal.epoch, journal.prog[n])'
    BY <1>7, <1>9, <2>2, <2>5 DEF BornOut
  <2>8. ASSUME NEW n \in Nodes
        PROVE  closed[n] /\ disk[n].auth.epoch.seq >= journal'.cur.seq
    <3>1. j.prog[n] \in Waiting..Applied BY <1>9 DEF Journal
    <3>2. closed[n] /\ disk[n].auth.epoch = journal.epoch
      BY <1>9, <1>13, <3>1, AllReady
    <3> QED BY <1>9, <2>2, <2>3, <2>5, <3>2
  <2> QED BY <1>7, <1>8, <2>5, <2>6, <2>7, <2>8, NodesKept
<1> QED BY <1>6, <1>10, <1>11, <1>12, <1>13
-----------------------------------------------------------------------------
(* The nodes                                                                *)

\* A step of one node: its stored rollout does not go back, and within a rollout
\* nothing it reported is undone.
LEMMA OneNode ==
    ASSUME ActivationInv, TypeOK', NEW n \in Nodes, UNCHANGED <<journal, past>>,
           \A m \in Nodes \ {n} :
              /\ disk'[m] = disk[m] /\ active'[m] = active[m] /\ closed'[m] = closed[m]
              /\ run'[m] = run[m] /\ step'[m] = step[m] /\ Accepting(m)' = Accepting(m),
           ViewKept(n)', GateKept(n)',
           ~closed'[n] => Policy(active'[n]) = journal.cur,
           \A p \in polls' : p \in polls \/ (p.node = n /\ ReportKept(p)'),
           \/ disk[n].auth.epoch.seq < disk'[n].auth.epoch.seq
           \/ /\ disk'[n].auth.epoch = disk[n].auth.epoch
              /\ disk[n].prep => disk'[n].prep
              /\ disk[n].auth.epoch.seq > 0 /\ disk[n].inst = disk[n].auth.epoch
                 /\ run[n] = disk[n].inst => disk'[n].inst = disk[n].inst /\ run'[n] = run[n]
    PROVE  ActivationInv'
<1>0. TypeOK /\ HistoryKept BY DEF ActivationInv
<1>1. HistoryKept' BY <1>0 DEF HistoryKept, Stands
<1>2. /\ disk[n].auth.epoch.seq \in Nat /\ disk'[n].auth.epoch.seq \in Nat
      /\ journal.epoch.seq \in Nat /\ journal.cur.seq \in Nat
  BY <1>0 DEF TypeOK, Local, Journal, Epoch
<1>3. disk'[n].auth.epoch.seq <= journal.epoch.seq
  <2>1. CASE disk'[n] = NoLocal
    BY <1>2, <2>1 DEF NoLocal, NoJournal, First
  <2>2. CASE disk'[n].auth \in past
    BY <1>0, <2>2, Seen
  <2> QED BY <2>1, <2>2 DEF ViewKept
<1>4. ASSUME NEW m \in Nodes, m # n
      PROVE  /\ ViewKept(m)' /\ NotBehind(m)' /\ GateKept(m)'
             /\ BornOut(m, journal.epoch, journal.prog[m])'
  <2>1. /\ ViewKept(m) /\ NotBehind(m) /\ GateKept(m)
        /\ BornOut(m, journal.epoch, journal.prog[m])
    BY DEF ActivationInv
  <2>2. ViewKept(m)' BY <1>4, <2>1 DEF ViewKept
  <2>3. GateKept(m)' BY <1>4, <2>1 DEF GateKept
  <2> QED BY <1>4, <2>1, <2>2, <2>3 DEF NotBehind, BornOut
<1>5. NotBehind(n)'
  <2>1. NotBehind(n) BY DEF ActivationInv
  <2> QED BY <1>2, <2>1 DEF NotBehind
<1>6. BornOut(n, journal.epoch, journal.prog[n])'
  <2>1. BornOut(n, journal.epoch, journal.prog[n]) BY DEF ActivationInv
  <2>2. journal.prog[n] \in Waiting..Applied BY <1>0 DEF TypeOK, Journal
  <2>3. CASE disk[n].auth.epoch.seq < disk'[n].auth.epoch.seq
    BY <1>2, <1>3, <2>1, <2>2, <2>3 DEF BornOut, Prepared, Applied, Waiting
  <2>4. CASE ~(disk[n].auth.epoch.seq < disk'[n].auth.epoch.seq)
    <3>1. journal.prog[n] >= Prepared => journal.epoch.seq > 0
      <4>1. Shaped(journal) /\ journal.base.seq \in Nat
        BY <1>0 DEF TypeOK, Journal, Epoch, HistoryKept
      <4>2. CASE journal.phase = "none"
        BY <4>1, <4>2 DEF Shaped, NoJournal, Waiting, Prepared
      <4>3. CASE journal.phase # "none"
        BY <1>2, <4>1, <4>3 DEF Shaped
      <4> QED BY <4>2, <4>3
    <3> QED BY <2>1, <2>2, <2>4, <3>1 DEF BornOut, Prepared, Applied, Waiting
  <2> QED BY <2>3, <2>4
<1>7. ASSUME NEW p \in polls' PROVE ReportKept(p)'
  <2>1. CASE p \notin polls BY <2>1
  <2>2. CASE p \in polls
    <3>1. ReportKept(p) /\ p.node \in Nodes /\ p.ack.epoch.seq \in Nat /\ p.ack.prog \in Waiting..Applied
      BY <1>0, <2>2 DEF ActivationInv, TypeOK, WorkerNodes, Epoch
    <3>2. CASE p.node # n
      BY <3>1, <3>2 DEF ReportKept, BornOut
    <3>3. CASE p.node = n
      BY <1>2, <3>1, <3>3 DEF ReportKept, BornOut, Prepared, Applied, Waiting
    <3> QED BY <3>2, <3>3
  <2> QED BY <2>1, <2>2
<1>8. OneOpenPolicy'
  BY DEF ActivationInv, OneOpenPolicy
<1> QED BY <1>1, <1>4, <1>5, <1>6, <1>7, <1>8 DEF ActivationInv

\* The view a node takes of a reply it may observe is valid and not an older one.
LEMMA Observes ==
    ASSUME TypeOK, HistoryKept, NEW n \in Nodes, ViewKept(n), NEW j \in past,
           Observable(disk[n], j)
    PROVE  LET loc == Observed(disk[n], j)
           IN  /\ loc \in Local /\ loc.auth = j /\ Valid(loc)
               /\ \/ disk[n].auth.epoch.seq < loc.auth.epoch.seq
                  \/ /\ loc.auth.epoch = disk[n].auth.epoch /\ loc.inst = disk[n].inst
                     /\ disk[n].prep => loc.prep
<1>1. disk[n] \in Local /\ j \in Journal BY DEF TypeOK
<1>2. Observed(disk[n], j) \in Local /\ Observed(disk[n], j).auth = j
  BY <1>1, ViewTypes DEF Observed
<1>3. Valid(Observed(disk[n], j)) BY DEF Observable
<1>4. CASE ~Enrolled(disk[n])
  <2>1. disk[n] = NoLocal BY <1>4 DEF ViewKept, Enrolled, HistoryKept
  <2>2. disk[n].auth.epoch.seq = 0 BY <2>1 DEF NoLocal, NoJournal, First
  <2>3. j.epoch.seq > 0 BY Seen
  <2> QED BY <1>2, <1>3, <2>2, <2>3
<1>5. CASE Enrolled(disk[n])
  <2>1. disk[n].auth.epoch.seq < j.epoch.seq \/ j.epoch = disk[n].auth.epoch
    <3>1. j.epoch.seq \in Nat /\ disk[n].auth.epoch.seq \in Nat
      BY <1>1 DEF Local, Journal, Epoch
    <3> QED BY <1>5, <3>1 DEF Observable, Continues
  <2>2. /\ Observed(disk[n], j).inst = disk[n].inst
        /\ j.epoch = disk[n].auth.epoch /\ disk[n].prep => Observed(disk[n], j).prep
    BY <1>5 DEF Observed
  <2> QED BY <1>2, <1>3, <2>1, <2>2
<1> QED BY <1>4, <1>5

\* A driver that returns with what it stored reports the truth, and the owner's
\* goes on to Advance with it.
LEMMA Returned ==
    ASSUME TypeOK, HistoryKept, TypeOK', UNCHANGED past, NEW n \in Nodes, NEW loc \in Local,
           NEW e, Return(n, loc, e), disk'[n] = loc, loc.auth \in past, Valid(loc),
           loc.inst = loc.auth.epoch => run'[n] = loc.inst
    PROVE  /\ \A p \in polls' : p \in polls \/ (p.node = n /\ ReportKept(p)')
           /\ ViewKept(n)'
           /\ step'[n].at \in {"idle", "advance"}
           /\ \A m \in Nodes \ {n} : step'[m] = step[m]
<1>1. /\ step'[n] = IF n = Owner THEN [at |-> "advance", loc |-> loc] ELSE Idle
      /\ \A m \in Nodes \ {n} : step'[m] = step[m]
  BY DEF Return, TypeOK
<1>2. ViewKept(n)'
  <2>1. disk'[n].auth \in past' /\ Valid(disk'[n]) OBVIOUS
  <2>2. CASE n = Owner
    <3>1. step'[n].at = "advance" /\ step'[n].loc = loc BY <1>1, <2>2
    <3> QED BY <2>1, <2>2, <3>1 DEF ViewKept
  <2>3. CASE n # Owner
    <3>1. step'[n].at = "idle" BY <1>1, <2>3 DEF Idle
    <3> QED BY <2>1, <3>1 DEF ViewKept
  <2> QED BY <2>2, <2>3
<1>3. loc.auth.phase # "none" /\ loc.auth.epoch.seq > 0 /\ loc.auth.epoch.seq \in Nat
  BY Seen DEF HistoryKept, Local, Journal, Epoch
<1>4. ASSUME NEW p \in polls', p \notin polls PROVE p.node = n /\ ReportKept(p)'
  <2>1. p = [node |-> n, ack |-> Acknowledgement(loc), run |-> e] BY <1>4 DEF Return
  <2>2. CASE Acknowledgement(loc) = Nothing BY <2>1, <2>2 DEF ReportKept
  <2>3. CASE Acknowledgement(loc) # Nothing
    <3>1. /\ p.node = n /\ p.ack.epoch = loc.auth.epoch /\ p.ack.prog >= Prepared
          /\ loc.prep /\ (p.ack.prog = Applied => loc.inst = loc.auth.epoch)
      BY <1>3, <2>1, <2>3, AckMeans
    <3> QED BY <1>3, <3>1 DEF ReportKept, BornOut
  <2> QED BY <2>1, <2>2, <2>3
<1> QED BY <1>1, <1>2, <1>4 DEF Idle

\* A driver run that finds nothing to change saves its view.
LEMMA ReplayStep ==
    ASSUME ActivationInv, TypeOK', NEW n \in Nodes, NEW j \in past, Replay(n, j)
    PROVE  ActivationInv'
<1>0. TypeOK /\ HistoryKept /\ ViewKept(n) /\ GateKept(n) BY DEF ActivationInv
<1> DEFINE loc == Observed(disk[n], j)
<1>1. Observable(disk[n], j) /\ Settled(n, loc) /\ Return(n, loc, run[n])
  BY DEF Replay, Takes
<1>2. /\ loc \in Local /\ loc.auth = j /\ Valid(loc)
      /\ \/ disk[n].auth.epoch.seq < loc.auth.epoch.seq
         \/ /\ loc.auth.epoch = disk[n].auth.epoch /\ loc.inst = disk[n].inst
            /\ disk[n].prep => loc.prep
  BY <1>0, <1>1, Observes
<1>3. UNCHANGED <<journal, past, active, closed, run, sess>>
  BY DEF Replay, authority, gate
<1>4. disk'[n] = loc /\ \A m \in Nodes \ {n} : disk'[m] = disk[m]
  BY <1>0 DEF Replay, TypeOK
<1>5. Open(loc.auth) /\ run[n] = loc.inst BY <1>1 DEF Settled
<1> HIDE DEF loc
<1>6. /\ \A p \in polls' : p \in polls \/ (p.node = n /\ ReportKept(p)')
      /\ ViewKept(n)' /\ step'[n].at \in {"idle", "advance"}
      /\ \A m \in Nodes \ {n} : step'[m] = step[m]
  BY <1>0, <1>1, <1>2, <1>3, <1>4, <1>5, Returned
<1>7. GateKept(n)' BY <1>4, <1>5, <1>6 DEF GateKept, Open
<1>8. \A m \in Nodes : Accepting(m)' = Accepting(m) BY <1>3 DEF Accepting
<1>9. ~closed'[n] => Policy(active'[n]) = journal.cur
  BY <1>3 DEF ActivationInv, OneOpenPolicy
<1> QED BY <1>2, <1>3, <1>4, <1>6, <1>7, <1>8, <1>9, OneNode

\* The fence: only the gate and the driver change.
LEMMA FenceStep ==
    ASSUME ActivationInv, TypeOK', NEW n \in Nodes, NEW j \in past, Fence(n, j)
    PROVE  ActivationInv'
<1>0. TypeOK /\ HistoryKept /\ ViewKept(n) /\ GateKept(n) BY DEF ActivationInv
<1> DEFINE loc == Observed(disk[n], j)
<1>1. Observable(disk[n], j) BY DEF Fence, Takes
<1>2. loc.auth = j /\ Valid(loc) BY <1>0, <1>1, Observes
<1>3. UNCHANGED <<journal, past, polls, disk, active, run, sess>>
  BY DEF Fence, authority, messages
<1>4. /\ step'[n] = [at |-> "drain", loc |-> loc] /\ closed'[n] = TRUE
      /\ \A m \in Nodes \ {n} : step'[m] = step[m] /\ closed'[m] = closed[m]
  BY <1>0 DEF Fence, TypeOK
<1>5. ViewKept(n)'
  <2>1. step'[n].at = "drain" /\ step'[n].loc = loc BY <1>4
  <2> QED BY <1>0, <1>1, <1>2, <1>3, <2>1 DEF ViewKept
<1>6. \A m \in Nodes : Accepting(m)' = Accepting(m) BY <1>3 DEF Accepting
<1>7. GateKept(n)'
  <2>1. step'[n].at = "drain" BY <1>4
  <2> QED BY <1>0, <1>3, <1>4, <1>6, <2>1 DEF GateKept
<1> HIDE DEF loc
<1> QED BY <1>3, <1>4, <1>5, <1>6, <1>7, OneNode

\* Drained: the view the fence was made for is stored, and nobody is accepting.
LEMMA DrainedStep ==
    ASSUME ActivationInv, TypeOK', NEW n \in Nodes, Drained(n)
    PROVE  ActivationInv'
<1>0. TypeOK /\ HistoryKept /\ ViewKept(n) /\ GateKept(n) BY DEF ActivationInv
<1> DEFINE loc == step[n].loc
<1>1. step[n].at = "drain" /\ Accepting(n) = {} BY DEF Drained
<1>2. loc.auth \in past /\ Observable(disk[n], loc.auth) /\ loc = Observed(disk[n], loc.auth)
  BY <1>0, <1>1 DEF ViewKept
<1>3. /\ loc.auth \in past /\ Valid(loc)
      /\ \/ disk[n].auth.epoch.seq < loc.auth.epoch.seq
         \/ /\ loc.auth.epoch = disk[n].auth.epoch /\ loc.inst = disk[n].inst
            /\ disk[n].prep => loc.prep
  BY <1>0, <1>2, Observes
<1>4. UNCHANGED <<journal, past, polls, active, closed, run, sess>>
  BY DEF Drained, authority, messages, gate
<1>5. /\ disk'[n] = loc /\ step'[n] = [step[n] EXCEPT !.at = "fenced"]
      /\ \A m \in Nodes \ {n} : disk'[m] = disk[m] /\ step'[m] = step[m]
  BY <1>0 DEF Drained, TypeOK
<1>6. step'[n].at = "fenced" /\ step'[n].loc = loc BY <1>0, <1>5 DEF TypeOK
<1>7. ViewKept(n)' BY <1>3, <1>4, <1>5, <1>6 DEF ViewKept
<1>8. \A m \in Nodes : Accepting(m)' = Accepting(m) BY <1>4 DEF Accepting
<1>9. GateKept(n)' BY <1>0, <1>1, <1>4, <1>6, <1>8 DEF GateKept
<1>10. ~closed'[n] => Policy(active'[n]) = journal.cur
  BY <1>4 DEF ActivationInv, OneOpenPolicy
<1> HIDE DEF loc
<1> QED BY <1>3, <1>4, <1>5, <1>7, <1>8, <1>9, <1>10, OneNode

\* Past the fence the driver works on what is stored, behind a closed gate.
LEMMA Fenced ==
    ASSUME ActivationInv, NEW n \in Nodes, step[n].at \in {"fenced", "install"}
    PROVE  /\ step[n].loc = disk[n] /\ disk[n] \in Local
           /\ disk[n].auth \in past /\ Valid(disk[n])
           /\ closed[n] /\ Accepting(n) = {}
<1>1. TypeOK /\ ViewKept(n) /\ GateKept(n) BY DEF ActivationInv
<1> QED BY <1>1 DEF ViewKept, GateKept, TypeOK

\* bind_initial and prepared: the runtime is the stored one, the candidate loaded.
LEMMA PrepareStep ==
    ASSUME ActivationInv, TypeOK', NEW n \in Nodes, Bind(n) \/ Prepare(n)
    PROVE  ActivationInv'
<1>0. TypeOK /\ HistoryKept /\ ViewKept(n) /\ GateKept(n) BY DEF ActivationInv
<1>1. step[n].at = "fenced" BY DEF Bind, Prepare, Bound
<1>2. /\ step[n].loc = disk[n] /\ disk[n] \in Local /\ disk[n].auth \in past
      /\ Valid(disk[n]) /\ closed[n] /\ Accepting(n) = {}
  BY <1>1, Fenced
<1>3. CASE Bind(n)
  <2>1. UNCHANGED <<journal, past, polls, disk, closed, step, sess>>
    BY <1>3 DEF Bind, authority, messages
  <2>2. /\ run'[n] = disk[n].inst
        /\ \A m \in Nodes \ {n} : run'[m] = run[m] /\ active'[m] = active[m]
    BY <1>0, <1>2, <1>3 DEF Bind, TypeOK
  <2>3. ViewKept(n)' BY <1>0, <1>1, <2>1 DEF ViewKept
  <2>4. \A m \in Nodes : Accepting(m)' = Accepting(m) BY <2>1 DEF Accepting
  <2>5. GateKept(n)' BY <1>0, <2>1, <2>4 DEF GateKept
  <2> QED BY <1>2, <2>1, <2>2, <2>3, <2>4, <2>5, OneNode
<1>4. CASE Prepare(n)
  <2> DEFINE loc == [disk[n] EXCEPT !.prep = TRUE]
  <2>1. UNCHANGED <<journal, past, active, closed, run, sess>>
    BY <1>4 DEF Prepare, authority, gate
  <2>2. disk[n].auth.phase = "preparing" /\ Return(n, loc, run[n])
    BY <1>2, <1>4 DEF Prepare, Bound
  <2>3. disk'[n] = loc /\ \A m \in Nodes \ {n} : disk'[m] = disk[m]
    BY <1>0, <1>2, <1>4 DEF Prepare, TypeOK
  <2>4. /\ loc \in Local /\ loc.auth = disk[n].auth /\ loc.inst = disk[n].inst /\ loc.prep
    BY <1>2 DEF Local
  <2> HIDE DEF loc
  <2>5. Valid(loc) BY <1>2, <2>2, <2>4 DEF Valid
  <2>6. loc.inst # loc.auth.epoch
    <3>1. loc.auth.epoch.seq \in Nat BY <2>4 DEF Local, Journal, Epoch
    <3> QED BY <2>2, <2>4, <2>5, <3>1 DEF Valid
  <2>7. /\ \A p \in polls' : p \in polls \/ (p.node = n /\ ReportKept(p)')
        /\ ViewKept(n)' /\ step'[n].at \in {"idle", "advance"}
        /\ \A m \in Nodes \ {n} : step'[m] = step[m]
    BY <1>0, <1>2, <2>1, <2>2, <2>3, <2>4, <2>5, <2>6, Returned
  <2>8. \A m \in Nodes : Accepting(m)' = Accepting(m) BY <2>1 DEF Accepting
  <2>9. GateKept(n)' BY <1>2, <2>1, <2>7, <2>8 DEF GateKept
  <2> QED BY <1>2, <2>1, <2>3, <2>4, <2>7, <2>8, <2>9, OneNode
<1> QED BY <1>3, <1>4

\* applied is stored before the runtime is swapped, and reported after.
LEMMA ApplyStep ==
    ASSUME ActivationInv, TypeOK', NEW n \in Nodes, Apply(n) \/ Install(n)
    PROVE  ActivationInv'
<1>0. TypeOK /\ HistoryKept /\ ViewKept(n) /\ GateKept(n) BY DEF ActivationInv
<1>1. step[n].at \in {"fenced", "install"} BY DEF Apply, Install, Bound
<1>2. /\ step[n].loc = disk[n] /\ disk[n] \in Local /\ disk[n].auth \in past
      /\ Valid(disk[n]) /\ closed[n] /\ Accepting(n) = {}
  BY <1>1, Fenced
<1>3. CASE Apply(n)
  <2> DEFINE loc == [disk[n] EXCEPT !.inst = disk[n].auth.epoch]
  <2>1. UNCHANGED <<journal, past, polls, active, closed, run, sess>>
    BY <1>3 DEF Apply, authority, messages, gate
  <2>2. /\ disk[n].auth.phase = "committed" /\ disk'[n] = loc
        /\ step'[n] = [at |-> "install", loc |-> loc]
        /\ \A m \in Nodes \ {n} : disk'[m] = disk[m] /\ step'[m] = step[m]
    BY <1>0, <1>2, <1>3 DEF Apply, Bound, TypeOK
  <2>3. /\ loc.auth = disk[n].auth /\ loc.inst = disk[n].auth.epoch /\ loc.prep = disk[n].prep
    BY <1>2 DEF Local
  <2>4. step'[n].at = "install" /\ step'[n].loc = loc BY <2>2
  <2> HIDE DEF loc
  <2>5. Valid(loc)
    <3>1. loc.auth.epoch.seq \in Nat BY <1>2, <2>3 DEF Local, Journal, Epoch
    <3> QED BY <1>2, <2>2, <2>3, <3>1 DEF Valid
  <2>6. ViewKept(n)' BY <1>2, <2>1, <2>2, <2>3, <2>4, <2>5 DEF ViewKept
  <2>7. \A m \in Nodes : Accepting(m)' = Accepting(m) BY <2>1 DEF Accepting
  <2>8. GateKept(n)' BY <1>2, <2>1, <2>4, <2>7 DEF GateKept
  <2> QED BY <1>2, <2>1, <2>2, <2>3, <2>6, <2>7, <2>8, OneNode
<1>4. CASE Install(n)
  <2>1. UNCHANGED <<journal, past, disk, active, closed, sess>>
    BY <1>4 DEF Install, authority, gate
  <2>2. Return(n, disk[n], disk[n].inst) BY <1>2, <1>4 DEF Install
  <2>3. run'[n] = disk[n].inst /\ \A m \in Nodes \ {n} : run'[m] = run[m]
    BY <1>0, <1>2, <1>4 DEF Install, TypeOK
  <2>4. /\ \A p \in polls' : p \in polls \/ (p.node = n /\ ReportKept(p)')
        /\ ViewKept(n)' /\ step'[n].at \in {"idle", "advance"}
        /\ \A m \in Nodes \ {n} : step'[m] = step[m]
    BY <1>0, <1>2, <2>1, <2>2, <2>3, Returned
  <2>5. \A m \in Nodes : Accepting(m)' = Accepting(m) BY <2>1 DEF Accepting
  <2>6. GateKept(n)' BY <1>2, <2>1, <2>4, <2>5 DEF GateKept
  <2> QED BY <1>2, <2>1, <2>3, <2>4, <2>5, <2>6, OneNode
<1> QED BY <1>3, <1>4

\* A node that resumes has seen the last commit, and what ended there is what it
\* installed: the gate opens on the current policy.
LEMMA ResumeStep ==
    ASSUME ActivationInv, TypeOK', NEW n \in Nodes, Resume(n) \/ ResumeRefused(n)
    PROVE  ActivationInv'
<1>0. TypeOK /\ HistoryKept /\ ViewKept(n) /\ GateKept(n) /\ NotBehind(n) BY DEF ActivationInv
<1>1. step[n].at = "fenced" /\ step[n].loc.auth.phase \in {"released", "aborted"}
  BY DEF Resume, ResumeRefused, Bound
<1>2. /\ step[n].loc = disk[n] /\ disk[n] \in Local /\ disk[n].auth \in past
      /\ Valid(disk[n]) /\ closed[n] /\ Accepting(n) = {}
  BY <1>1, Fenced
<1>3. /\ disk[n].auth.epoch.seq \in Nat /\ journal.cur.seq \in Nat
  BY <1>0, <1>2 DEF TypeOK, Local, Journal, Epoch
<1>4. disk[n].inst = journal.cur
  <2>1. Stands(disk[n].auth) BY <1>0, <1>2 DEF HistoryKept
  <2>2. ~(journal.cur.seq > disk[n].auth.epoch.seq) BY <1>0, <1>3 DEF NotBehind
  <2> QED BY <1>1, <1>2, <2>1, <2>2 DEF Stands, Valid
<1>5. Policy(disk[n].inst) = journal.cur
  <2>1. Dated(journal.cur) BY <1>0 DEF HistoryKept, Shaped
  <2> QED BY <1>4, <2>1 DEF Policy, Dated, Legacy, First
<1>6. UNCHANGED <<journal, past, disk, sess>>
  BY DEF Resume, ResumeRefused, authority, messages
<1>7. \A m \in Nodes : Accepting(m)' = Accepting(m) BY <1>6 DEF Accepting
<1>8. run'[n] = disk[n].inst /\ \A m \in Nodes \ {n} : run'[m] = run[m]
  BY <1>0, <1>2 DEF Resume, ResumeRefused, TypeOK
<1>9. CASE Resume(n)
  <2>1. Return(n, disk[n], disk[n].inst) BY <1>2, <1>9 DEF Resume
  <2>2. /\ active'[n] = disk[n].inst
        /\ \A m \in Nodes \ {n} : active'[m] = active[m] /\ closed'[m] = closed[m]
    BY <1>0, <1>2, <1>9 DEF Resume, TypeOK
  <2>3. /\ \A p \in polls' : p \in polls \/ (p.node = n /\ ReportKept(p)')
        /\ ViewKept(n)' /\ step'[n].at \in {"idle", "advance"}
        /\ \A m \in Nodes \ {n} : step'[m] = step[m]
    BY <1>0, <1>2, <1>6, <1>8, <2>1, Returned
  <2>4. GateKept(n)' BY <1>1, <1>2, <1>6, <2>3 DEF GateKept
  <2> QED BY <1>2, <1>5, <1>6, <1>7, <1>8, <2>2, <2>3, <2>4, OneNode
<1>10. CASE ResumeRefused(n)
  <2>1. UNCHANGED <<polls, active, closed>> BY <1>10 DEF ResumeRefused, messages, gate
  <2>2. step'[n] = Idle /\ \A m \in Nodes \ {n} : step'[m] = step[m]
    BY <1>0, <1>10 DEF ResumeRefused, TypeOK
  <2>3. ViewKept(n)' BY <1>0, <1>6, <2>2 DEF ViewKept, Idle
  <2>4. GateKept(n)' BY <1>0, <1>6, <1>7, <2>1, <2>2 DEF GateKept, Idle
  <2> QED BY <1>2, <1>6, <1>7, <1>8, <2>1, <2>2, <2>3, <2>4, OneNode
<1> QED BY <1>9, <1>10

\* A driver that gives up leaves gate and storage; a node that starts again is
\* closed unless it never stored anything, and then nothing was ever committed.
LEMMA FaultStep ==
    ASSUME ActivationInv, TypeOK', NEW n \in Nodes, Fail(n) \/ Restart(n)
    PROVE  ActivationInv'
<1>0. TypeOK /\ HistoryKept /\ ViewKept(n) /\ GateKept(n) /\ NotBehind(n) BY DEF ActivationInv
<1>1. UNCHANGED <<journal, past, polls, disk>>
  BY DEF Fail, Restart, authority, messages
<1>2. step'[n] = Idle /\ \A m \in Nodes \ {n} : step'[m] = step[m]
  BY <1>0 DEF Fail, Restart, TypeOK
<1>3. ViewKept(n)' BY <1>0, <1>1, <1>2 DEF ViewKept, Idle
<1>4. CASE Fail(n)
  <2>1. UNCHANGED <<active, closed, run, sess>> BY <1>4 DEF Fail, gate
  <2>2. \A m \in Nodes : Accepting(m)' = Accepting(m) BY <2>1 DEF Accepting
  <2>3. GateKept(n)' BY <1>0, <1>1, <1>2, <2>1, <2>2 DEF GateKept, Idle
  <2>4. ~closed'[n] => Policy(active'[n]) = journal.cur
    BY <2>1 DEF ActivationInv, OneOpenPolicy
  <2> QED BY <1>1, <1>2, <1>3, <2>1, <2>2, <2>3, <2>4, OneNode
<1>5. CASE Restart(n)
  <2>1. sess' = [s \in Sessions |-> IF s[1] = n THEN NoSession ELSE sess[s]]
    BY <1>5 DEF Restart
  <2>2. \A m \in Nodes \ {n} : Accepting(m)' = Accepting(m)
    BY <2>1 DEF Accepting
  <2>3. Accepting(n)' = {} BY <2>1 DEF Accepting, NoSession
  <2>4. \A m \in Nodes \ {n} :
          active'[m] = active[m] /\ closed'[m] = closed[m] /\ run'[m] = run[m]
    BY <1>0, <1>5 DEF Restart, TypeOK
  <2>5. CASE Enrolled(disk[n])
    <3>1. closed'[n] /\ run'[n] = disk[n].inst BY <1>0, <1>5, <2>5 DEF Restart, TypeOK
    <3>2. GateKept(n)' BY <1>2, <2>3, <3>1 DEF GateKept, Idle
    <3> QED BY <1>1, <1>2, <1>3, <2>2, <2>4, <3>1, <3>2, OneNode
  <2>6. CASE ~Enrolled(disk[n])
    <3>1. disk[n] = NoLocal BY <1>0, <2>6 DEF ViewKept, Enrolled, HistoryKept
    <3>2. ~disk[n].prep /\ disk[n].auth.epoch.seq = 0
      BY <3>1 DEF NoLocal, NoJournal, First
    <3>3. journal.cur = First
      <4>1. journal.cur.seq \in Nat /\ Dated(journal.cur)
        BY <1>0 DEF TypeOK, Journal, Epoch, HistoryKept, Shaped
      <4> QED BY <1>0, <3>2, <4>1 DEF NotBehind, Dated
    <3>4. ~closed'[n] => active'[n] = Legacy
      BY <1>0, <1>5, <2>6 DEF Restart, TypeOK
    <3>5. ~closed'[n] => Policy(active'[n]) = journal.cur
      BY <3>3, <3>4 DEF Policy
    <3>6. GateKept(n)' BY <1>1, <1>2, <3>2 DEF GateKept, Idle
    <3> QED BY <1>1, <1>2, <1>3, <2>2, <2>4, <3>2, <3>5, <3>6, OneNode
  <2> QED BY <2>5, <2>6
<1> QED BY <1>4, <1>5

\* Sessions: a message enters only through an open gate.
LEMMA SessionStep ==
    ASSUME ActivationInv, TypeOK', NEW s \in Sessions, Session(s)
    PROVE  ActivationInv'
<1>0. TypeOK /\ HistoryKept BY DEF ActivationInv
<1>1. UNCHANGED <<journal, past, polls, disk, active, closed, run, step>>
  BY DEF Session, MailFrom, Snapshot, Enter, Leave, authority, messages, node, gate
<1>2. HistoryKept' BY <1>0, <1>1 DEF HistoryKept, Stands
<1>3. ASSUME NEW n \in Nodes
      PROVE  ViewKept(n)' /\ NotBehind(n)' /\ BornOut(n, journal.epoch, journal.prog[n])'
  BY <1>1 DEF ActivationInv, ViewKept, NotBehind, BornOut
<1>4. ASSUME NEW n \in Nodes, closed[n] PROVE Accepting(n)' \subseteq Accepting(n)
  BY <1>0, <1>4 DEF Session, MailFrom, Snapshot, Enter, Leave, Accepting, NoSession, TypeOK
<1>5. ASSUME NEW n \in Nodes PROVE GateKept(n)'
  <2>1. GateKept(n) BY DEF ActivationInv
  <2> QED BY <1>1, <1>4, <2>1 DEF GateKept
<1>6. \A p \in polls' : ReportKept(p)'
  BY <1>1 DEF ActivationInv, ReportKept, BornOut
<1>7. OneOpenPolicy' BY <1>1 DEF ActivationInv, OneOpenPolicy
<1> QED BY <1>2, <1>3, <1>5, <1>6, <1>7 DEF ActivationInv

-----------------------------------------------------------------------------
(* The invariant and what follows from it                                   *)

\* Every step of the cluster keeps the inductive invariant.
LEMMA InvStep == ActivationInv /\ [Next]_vars => ActivationInv'
<1> SUFFICES ASSUME ActivationInv, [Next]_vars PROVE ActivationInv' OBVIOUS
<1>1. TypeOK' BY TypeStep DEF ActivationInv
<1>2. CASE Stage \/ Recover BY <1>1, <1>2, RolloutStep
<1>3. CASE Abort \/ AccountChanges BY <1>1, <1>3, AbortStep
<1>4. CASE Advance BY <1>1, <1>4, AdvanceStep
<1>5. ASSUME NEW p \in polls, Exchange(p) PROVE ActivationInv'
  BY <1>1, <1>5, ExchangeStep
<1>6. ASSUME NEW n \in Nodes, Drive(n) PROVE ActivationInv'
  <2>1. ASSUME NEW j \in past, Replay(n, j) \/ Fence(n, j) PROVE ActivationInv'
    BY <1>1, <2>1, ReplayStep, FenceStep
  <2>2. CASE Work(n)
    BY <1>1, <2>2, DrainedStep, PrepareStep, ApplyStep, ResumeStep DEF Work
  <2>3. CASE Fail(n) \/ Restart(n) BY <1>1, <2>3, FaultStep
  <2> QED BY <1>6, <2>1, <2>2, <2>3 DEF Drive
<1>7. ASSUME NEW s \in Sessions, Session(s) PROVE ActivationInv'
  BY <1>1, <1>7, SessionStep
<1>8. CASE UNCHANGED vars
  <2>1. UNCHANGED <<journal, past, polls, disk, gate, run, step, sess>>
    BY <1>8 DEF vars, authority, messages, node
  <2>2. TypeOK /\ HistoryKept BY DEF ActivationInv
  <2>3. HistoryKept' BY <2>1, <2>2 DEF HistoryKept, Stands
  <2>4. \A n \in Nodes : BornOut(n, journal.epoch, journal.prog[n])'
    BY <2>1 DEF ActivationInv, BornOut
  <2> QED BY <1>1, <2>1, <2>3, <2>4, NodesKept
<1> QED BY <1>2, <1>3, <1>4, <1>5, <1>6, <1>7, <1>8 DEF Next

\* The invariant holds in every behaviour, so the variables keep their types: a
\* repeated or late receipt never takes progress out of its three values.
THEOREM TypeCorrect == Spec => []TypeOK
<1>1. ActivationInv => TypeOK BY DEF ActivationInv
<1> QED BY <1>1, InvInit, InvStep, PTL DEF Spec

\* An open gate admits mail under the committed policy only, for any number of
\* nodes, rollouts, aborts, recoveries, lost or repeated exchanges and restarts.
THEOREM GatesAgree == Spec => []OneOpenPolicy
<1>1. ActivationInv => OneOpenPolicy BY DEF ActivationInv
<1> QED BY <1>1, InvInit, InvStep, PTL DEF Spec

\* A readiness on record means a closed, drained gate that storage knows of.
THEOREM ReadinessFenced == Spec => []ReadyMeansFenced
<1>1. ActivationInv => ReadyMeansFenced
  <2> SUFFICES ASSUME ActivationInv, NEW n \in Nodes,
                      journal.phase \in {"preparing", "committed"}, journal.prog[n] >= Prepared
               PROVE  /\ closed[n] /\ Accepting(n) = {}
                      /\ Enrolled(disk[n]) /\ disk[n].auth.epoch = journal.epoch
    BY DEF ReadyMeansFenced
  <2>1. BornOut(n, journal.epoch, journal.prog[n]) /\ journal.prog[n] \in Waiting..Applied
    BY DEF ActivationInv, TypeOK, Journal
  <2> QED BY <2>1, AllReady
<1> QED BY <1>1, InvInit, InvStep, PTL DEF Spec

\* A rollout is only released when every node stored and runs its policy, and
\* stays so until the next rollout.
THEOREM ReleaseEverywhere == Spec => []ReleasedEverywhere
<1>1. ActivationInv => ReleasedEverywhere
  <2> SUFFICES ASSUME ActivationInv, journal.phase = "released", NEW n \in Nodes
               PROVE  disk[n].inst = journal.epoch /\ run[n] = journal.epoch
    BY DEF ReleasedEverywhere
  <2>1. journal.prog[n] = Applied BY DEF ActivationInv, HistoryKept, Shaped
  <2>2. BornOut(n, journal.epoch, journal.prog[n]) BY DEF ActivationInv
  <2> QED BY <2>1, <2>2 DEF BornOut
<1> QED BY <1>1, InvInit, InvStep, PTL DEF Spec

-----------------------------------------------------------------------------
(* The refinement                                                           *)

\* The policy each session is accepting under, as PolicySwitch sees it.
Lease == [s \in Sessions |-> IF sess[s].st = "accepting" THEN Policy(sess[s].ep) ELSE Legacy]

\* Of the authority's steps only the commit changes the current policy, and it
\* finds nobody accepting.
LEMMA CommitSwitches ==
    ASSUME ActivationInv, ActivationInv', Advance, journal'.cur # journal.cur
    PROVE  journal'.cur \in Epoch /\ \A s \in Sessions : sess[s].st # "accepting"
<1>0. TypeOK /\ TypeOK' /\ HistoryKept BY DEF ActivationInv
<1>1. journal'.cur \in Epoch BY <1>0 DEF TypeOK, Journal
<1>2. PICK ack : ack = Acknowledgement(step[Owner].loc) OBVIOUS
<1>3. ack \in [epoch : Epoch, prog : Waiting..Applied]
  BY <1>0, <1>2, ViewTypes, OwnerAssumption DEF TypeOK
<1>4. PICK j : j = IF ack = Nothing THEN journal ELSE Acknowledged(journal, Owner, ack) OBVIOUS
<1>5. j \in Journal /\ j.cur = journal.cur /\ j.phase = journal.phase /\ j.epoch = journal.epoch
  <2>1. journal \in Journal BY <1>0 DEF TypeOK
  <2> QED BY <1>3, <1>4, <2>1, JournalTypes, OwnerAssumption DEF Acknowledged, Journal
<1>6. /\ journal.phase = "preparing" /\ \A n \in Nodes : j.prog[n] >= Prepared
      /\ journal' = Commit(j)
  BY <1>2, <1>4, <1>5 DEF Advance, Save, Release, Journal
<1>7. journal'.prog = j.prog /\ journal'.epoch = journal.epoch
  BY <1>5, <1>6 DEF Commit, Journal
<1>8. disk' = disk /\ run' = run BY DEF Advance
<1>9. ASSUME NEW n \in Nodes PROVE \A s \in Sessions : s[1] = n => sess[s].st # "accepting"
  <2>1. BornOut(n, journal.epoch, journal.prog[n])' BY DEF ActivationInv
  <2>2. BornOut(n, journal.epoch, j.prog[n]) BY <1>7, <1>8, <2>1 DEF BornOut
  <2>3. j.prog[n] \in Waiting..Applied BY <1>5 DEF Journal
  <2>4. Accepting(n) = {} BY <1>6, <2>2, <2>3, AllReady
  <2> QED BY <2>4 DEF Accepting
<1> QED BY <1>1, <1>9, SessionAssumption

\* A step that changes neither the current policy nor who accepts under what is
\* none of PolicySwitch.
LEMMA Unseen ==
    ASSUME UNCHANGED <<journal, sess>> PROVE UNCHANGED <<journal.cur, Lease>>
  BY DEF Lease

\* Every step of the protocol is a step of the atomic switch, or none.
LEMMA RefinementStep ==
    ASSUME ActivationInv, ActivationInv', [Next]_vars
    PROVE  [Switched!Next]_<<journal.cur, Lease>>
<1>0. TypeOK /\ HistoryKept BY DEF ActivationInv
<1>1. CASE Stage \/ Abort \/ Recover \/ AccountChanges
  BY <1>0, <1>1 DEF Stage, Abort, Recover, AccountChanges, Save, Rollout, Lease, TypeOK, Journal
<1>2. CASE Advance
  <2>1. CASE journal'.cur = journal.cur
    BY <1>2, <2>1 DEF Advance, Lease
  <2>2. CASE journal'.cur # journal.cur
    <3>1. journal'.cur \in Epoch /\ \A s \in Sessions : Lease[s] = Legacy
      BY <1>2, <2>2, CommitSwitches DEF Lease
    <3>2. Lease' = Lease BY <1>2 DEF Advance, Lease
    <3>3. Switched!Switch(journal'.cur) BY <3>1, <3>2 DEF Switched!Switch, Lease
    <3> QED BY <3>1, <3>3 DEF Switched!Next
  <2> QED BY <2>1, <2>2
<1>3. ASSUME NEW p \in polls, Exchange(p) PROVE [Switched!Next]_<<journal.cur, Lease>>
  BY <1>0, <1>3 DEF Exchange, Save, Acknowledged, Lease, TypeOK, Journal
<1>4. ASSUME NEW n \in Nodes, Drive(n) PROVE [Switched!Next]_<<journal.cur, Lease>>
  <2>1. CASE (\E j \in past : Replay(n, j) \/ Fence(n, j)) \/ Work(n) \/ Fail(n)
    <3>1. UNCHANGED <<journal, sess>>
      BY <2>1 DEF Replay, Fence, Work, Drained, Bind, Prepare, Apply, Install, Resume,
         ResumeRefused, Fail, authority
    <3> QED BY <3>1, Unseen
  <2>2. CASE Restart(n)
    <3>1. journal' = journal
          /\ sess' = [s \in Sessions |-> IF s[1] = n THEN NoSession ELSE sess[s]]
      BY <2>2 DEF Restart, authority
    <3> DEFINE gone == {s \in Sessions : s[1] = n}
    <3>2. Lease' = [s \in Sessions |-> IF s \in gone THEN Legacy ELSE Lease[s]]
      BY <3>1 DEF Lease, NoSession
    <3>3. gone \in SUBSET Sessions /\ Switched!Done(gone)
      BY <3>1, <3>2 DEF Switched!Done, Lease
    <3> QED BY <3>3 DEF Switched!Next
  <2> QED BY <1>4, <2>1, <2>2 DEF Drive
<1>5. ASSUME NEW s \in Sessions, Session(s) PROVE [Switched!Next]_<<journal.cur, Lease>>
  <2>0. journal' = journal
    BY <1>5 DEF Session, MailFrom, Snapshot, Enter, Leave, authority
  <2>1. CASE MailFrom(s) \/ Snapshot(s)
    <3>1. Lease' = Lease BY <1>0, <2>1 DEF MailFrom, Snapshot, Lease, TypeOK
    <3> QED BY <2>0, <3>1
  <2>2. CASE Enter(s)
    <3>1. Policy(sess[s].ep) = journal.cur
      BY <2>2, SessionAssumption DEF Enter, ActivationInv, OneOpenPolicy
    <3>2. Lease[s] = Legacy /\ Lease' = [Lease EXCEPT ![s] = journal.cur]
      BY <1>0, <2>2, <3>1 DEF Enter, Lease, TypeOK
    <3>3. Switched!Accept(s) BY <2>0, <3>2 DEF Switched!Accept, Lease
    <3> QED BY <3>3 DEF Switched!Next
  <2>3. CASE Leave(s)
    <3>1. Lease' = [t \in Sessions |-> IF t \in {s} THEN Legacy ELSE Lease[t]]
      BY <1>0, <2>3 DEF Leave, Lease, NoSession, TypeOK
    <3>2. Switched!Done({s}) BY <2>0, <3>1 DEF Switched!Done, Lease
    <3> QED BY <3>2 DEF Switched!Next
  <2> QED BY <1>5, <2>1, <2>2, <2>3 DEF Session
<1>6. CASE UNCHANGED vars
  BY <1>6, Unseen DEF vars, authority
<1> QED BY <1>1, <1>2, <1>3, <1>4, <1>5, <1>6 DEF Next

\* Coordinated activation implements the atomic switch of one policy, at a moment
\* when no session anywhere is accepting.
THEOREM ImplementsAtomicSwitch == Spec => AtomicSwitch
<1>1. Init => Switched!Init
  BY DEF Init, Switched!Init, NoJournal, NoSession
<1>2. ActivationInv /\ ActivationInv' /\ [Next]_vars =>
        [Switched!Next]_<<journal.cur, Lease>>
  BY RefinementStep
<1>3. ActivationInv /\ ActivationInv' /\ [Next]_vars =>
        [Switched!Next]_<<journal.cur, [s \in Sessions |-> IF sess[s].st = "accepting"
                                         THEN Policy(sess[s].ep) ELSE Legacy]>>
  BY <1>2 DEF Lease
<1> QED BY <1>1, <1>3, InvInit, InvStep, PTL DEF Spec, AtomicSwitch, Switched!Spec
=============================================================================
