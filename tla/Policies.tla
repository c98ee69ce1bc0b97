------------------------------ MODULE Policies ------------------------------
(***************************************************************************)
(* The policy authority of central management (src/central/policies.rs):   *)
(* the activation journal, the head and the revisions of the policy in     *)
(* PostgreSQL.  Every operation is one transaction under the management    *)
(* lock.  The coordinator drives a rollout by calls whose answer may be    *)
(* lost; it, and the nodes, may repeat any call they ever had reason for.  *)
(***************************************************************************)
EXTENDS Naturals, FiniteSets

CONSTANTS
    Nodes,      \* the participants
    Admins,     \* accounts that may approve
    Contents,   \* policies
    MaxSeq,     \* bound: rollouts
    MaxAccount  \* bound: sessions and changes of one account

VARIABLES
    journal,    \* the activation journal
    head,       \* policy_head
    rows,       \* policy_revisions: settings by revision
    approval,   \* the approving account as it was when it approved
    account,    \* version and session of every account
    enabled,    \* the nodes that are enabled
    report,     \* policy_peers: the revision each node reported, or 0
    incident,   \* the incident of the rollout
    captured,   \* the rollout a coordinator's step began with
    receipts,   \* history: receipts each node ever wrote
    effective,  \* history: the policy that was last activated
    tainted     \* history: the approving account changed after the approval

vars == <<journal, head, rows, approval, account, enabled, report, incident, captured,
          receipts, effective, tainted>>

None    == [seq |-> 0, code |-> FALSE]
Nobody  == [who |-> "nobody"]
Quiet   == [seq |-> 0, phase |-> "none"]     \* no rollout yet
Rollout == journal.rollout
Phase   == Rollout.phase
\* The enabled nodes are the ones the authority recorded.
Joined  == enabled = Nodes
Settled == Phase \in {"none", "released", "aborted"}

Init ==
    /\ effective = CHOOSE c \in Contents : TRUE
    /\ journal = [rev |-> 1, content |-> effective, rollout |-> Quiet]
    /\ rows = [r \in {1} |-> effective]
    /\ head = [rev |-> 1, seq |-> 0, activated |-> TRUE]
    /\ approval = Nobody
    /\ account = [a \in Admins |-> [version |-> 1, session |-> 1]]
    /\ enabled = Nodes
    /\ report = [n \in Nodes |-> 1]
    /\ incident = None /\ captured = 0
    /\ receipts = [n \in Nodes |-> {}] /\ tainted = FALSE

-----------------------------------------------------------------------------
(* Accounts and nodes                                                       *)

\* A login replaces the account's session; a change of the account ends it.
ChangeAccount(a) ==
    /\ account[a].version + account[a].session < MaxAccount
    /\ \/ account' = [account EXCEPT ![a].session = @ + 1]
       \/ account' = [account EXCEPT ![a].version = @ + 1, ![a].session = @ + 1]
    /\ tainted' = (tainted \/ approval.who = a)
    /\ UNCHANGED <<journal, head, rows, approval, enabled, report, incident, captured, receipts, effective>>

\* edit_node: a node is disabled or its credential replaced, and its report is
\* forgotten; or it is enabled again.
EditNode(n) ==
    /\ \/ enabled' = enabled \ {n} /\ report' = [report EXCEPT ![n] = 0]
       \/ n \notin enabled /\ enabled' = enabled \cup {n} /\ UNCHANGED report
       \/ report' = [report EXCEPT ![n] = 0] /\ UNCHANGED enabled
    /\ UNCHANGED <<journal, head, rows, approval, account, incident, captured, receipts,
                   effective, tainted>>

\* A node prepares what it sees being prepared, and applies what it sees committed.
WriteReceipt(n) ==
    /\ \/ Phase = "preparing"
          /\ receipts' = [receipts EXCEPT ![n] = @ \cup {<<Rollout.seq, 1>>}]
       \/ Phase = "committed" /\ <<Rollout.seq, 1>> \in receipts[n]
          /\ receipts' = [receipts EXCEPT ![n] = @ \cup {<<Rollout.seq, 2>>}]
    /\ UNCHANGED <<journal, head, rows, approval, account, enabled, report, incident, captured,
                   effective, tainted>>

\* Mutant: an incident is filed under whichever rollout is current.
ConcernsAny(s) == Rollout.seq > 0

\* save clears an incident of another rollout.
Kept(s)     == IF incident.seq = s THEN incident ELSE None
Concerns(s) == s = Rollout.seq /\ s > 0

\* exchange_policy and acknowledge_policy: a receipt of the current rollout is
\* recorded and never lowers one; an older one is harmless.
Exchange(n) ==
    /\ Joined
    /\ report' = [report EXCEPT ![n] = journal.rev]
    /\ \/ UNCHANGED <<journal, incident>>
       \/ \E p \in {1, 2} :
            /\ <<Rollout.seq, p>> \in receipts[n] /\ Phase # "aborted"
            /\ p = 2 => Phase \in {"committed", "released"}
            /\ journal' = [journal EXCEPT !.rollout.progress[n] = IF @ > p THEN @ ELSE p]
            /\ incident' = Kept(Rollout.seq)
    /\ UNCHANGED <<head, rows, approval, account, enabled, captured, receipts, effective, tainted>>

-----------------------------------------------------------------------------
(* The console                                                              *)

\* Mutant: a recovery takes the number after its base, as the rollout before it did.
StartsFromBase(content, recovery) ==
    journal' = [journal EXCEPT !.rollout =
        [seq |-> Rollout.seq + 1, rev |-> IF recovery THEN Rollout.rev ELSE journal.rev + 1,
         base |-> journal.content, content |-> content, phase |-> "preparing",
         recovery |-> recovery, progress |-> [n \in Nodes |-> 0]]]

\* Journal::start, with the revision after the current one.
Starts(content, recovery) ==
    journal' = [journal EXCEPT !.rollout =
        [seq |-> Rollout.seq + 1, rev |-> journal.rev + 1, base |-> journal.content,
         content |-> content, phase |-> "preparing", recovery |-> recovery,
         progress |-> [n \in Nodes |-> 0]]]

Approved(a) ==
    /\ approval' = [who |-> a, version |-> account[a].version, session |-> account[a].session]
    /\ tainted' = FALSE

\* stage_policy: the base is the one the console edited and every node runs it.
StagePolicy(a, c) ==
    /\ Joined /\ Settled /\ Rollout.seq < MaxSeq
    /\ \A n \in Nodes : report[n] = journal.rev
    /\ Starts(c, FALSE) /\ Approved(a)
    /\ incident' = Kept(Rollout.seq + 1)
    /\ UNCHANGED <<head, rows, account, enabled, report, captured, receipts, effective>>

\* abort_policy.
AbortPolicy ==
    /\ Joined /\ Phase = "preparing" /\ ~Rollout.recovery
    /\ journal' = [journal EXCEPT !.rollout.phase = "aborted"]
    /\ incident' = Kept(Rollout.seq)
    /\ UNCHANGED <<head, rows, approval, account, enabled, report, captured, receipts, effective, tainted>>

\* Mutant: the policy that is rolled back is staged again.
PreviousWrong == Rollout.content

\* The exact policy before the rollout that is recovered.
Previous == Rollout.base

\* recover_policy: another rollout, which brings back the previous policy.
RecoverPolicy(a) ==
    /\ Joined /\ Phase = "committed" /\ ~Rollout.recovery /\ Rollout.seq < MaxSeq
    /\ Starts(Previous, TRUE) /\ Approved(a)
    /\ incident' = Kept(Rollout.seq + 1)
    /\ UNCHANGED <<head, rows, account, enabled, report, captured, receipts, effective>>

-----------------------------------------------------------------------------
(* The coordinator                                                          *)

\* Mutant: the approval is not read again.
StillApprovedOnce == approval # Nobody

\* approval under the lock: the same session, and the version it had.
StillApproved ==
    /\ approval # Nobody
    /\ account[approval.who] = [version |-> approval.version, session |-> approval.session]

\* Mutant: the head stays marked as active.
HeadStillActive == [head EXCEPT !.rev = Rollout.rev, !.seq = Rollout.seq]

CommittedHead == [rev |-> Rollout.rev, seq |-> Rollout.seq, activated |-> FALSE]

\* commit_policy: revision, head and journal in one transaction.  A repeated
\* call finds the rollout committed and changes nothing.
CommitPolicy ==
    /\ Joined /\ Phase = "preparing" /\ StillApproved
    /\ head.rev + 1 = Rollout.rev
    /\ \A n \in Nodes : Rollout.progress[n] >= 1
    /\ Rollout.rev \notin DOMAIN rows
    /\ rows' = [r \in DOMAIN rows \cup {Rollout.rev} |-> IF r = Rollout.rev THEN Rollout.content ELSE rows[r]]
    /\ head' = CommittedHead
    /\ journal' = [journal EXCEPT !.rev = Rollout.rev, !.content = Rollout.content,
                                  !.rollout.phase = "committed"]
    /\ incident' = Kept(Rollout.seq)
    /\ UNCHANGED <<approval, account, enabled, report, captured, receipts, effective, tainted>>

AllApplied == \A n \in Nodes : Rollout.progress[n] = 2

\* release_policy: the head becomes active.
ReleasePolicy ==
    /\ Joined /\ Phase \in {"committed", "released"} /\ AllApplied
    /\ head.rev = Rollout.rev /\ head.seq = Rollout.seq
    /\ journal' = [journal EXCEPT !.rollout.phase = "released"]
    /\ head' = [head EXCEPT !.activated = TRUE]
    /\ effective' = rows[head.rev]
    /\ incident' = Kept(Rollout.seq)
    /\ UNCHANGED <<rows, approval, account, enabled, report, captured, receipts, tainted>>

\* policy_incident_epoch before a step, record_policy_incident after it.
CaptureIncident ==
    /\ captured # Rollout.seq /\ captured' = Rollout.seq
    /\ UNCHANGED <<journal, head, rows, approval, account, enabled, report, incident, receipts,
                   effective, tainted>>

RecordIncident ==
    /\ captured > 0 /\ Concerns(captured)
    /\ \E code \in BOOLEAN :
         incident' = IF code \/ ~Joined THEN [seq |-> captured, code |-> TRUE] ELSE None
    /\ UNCHANGED <<journal, head, rows, approval, account, enabled, report, captured, receipts,
                   effective, tainted>>

Next ==
    \/ \E n \in Nodes : Exchange(n) \/ WriteReceipt(n) \/ EditNode(n)
    \/ \E a \in Admins : ChangeAccount(a) \/ RecoverPolicy(a) \/ \E c \in Contents : StagePolicy(a, c)
    \/ AbortPolicy \/ CommitPolicy \/ ReleasePolicy \/ CaptureIncident \/ RecordIncident

Spec == Init /\ [][Next]_vars

-----------------------------------------------------------------------------
(* Properties                                                               *)

\* A policy that the console shows as active was applied by every node, and the
\* revision it shows has the settings of the journal's current policy.
ActiveEverywhere ==
    /\ head.activated => \A n \in Nodes : head.seq = 0 \/ <<head.seq, 2>> \in receipts[n]
    /\ head.rev = journal.rev /\ rows[head.rev] = journal.content

\* The revision a rollout will write is free: no rollout, abort or recovery
\* leads to one that can never be committed.
RevisionIsFree == Phase = "preparing" => Rollout.rev \notin DOMAIN rows /\ Rollout.rev = head.rev + 1

RecoveredStep ==
    (Rollout.seq > 0 /\ Phase # "released" /\ Rollout'.phase = "released" /\ Rollout.recovery)
        => effective' = effective

\* A recovery ends with the policy that was active before the rollout it undoes.
RecoveryRestores == [][RecoveredStep]_vars

WrittenStep == rows' # rows => ~tainted

\* No revision is written after its approver logged out, logged in again or was
\* changed, between the approval and the moment the last node is ready.
ApprovedWhenWritten == [][WrittenStep]_vars

\* An incident concerns the current rollout, also when the step that reports it
\* began under an earlier one.
IncidentIsCurrent == incident.seq \in {0, Rollout.seq}
=============================================================================
