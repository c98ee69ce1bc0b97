--------------------------- MODULE RemoteCommands ---------------------------
(***************************************************************************)
(* Release, delete and retry of a recipient's message from central         *)
(* management (src/central/commands.rs, central/transport.rs,              *)
(* cluster/history.rs execute_transaction, api/cluster.rs).                *)
(*                                                                         *)
(* A person asks for an operation on what central management shows, which  *)
(* may be stale.  The node polls: a poll carries receipts and its reply    *)
(* carries their confirmation and the unfinished commands.  Polls may be   *)
(* handled after the node gave up, and the node may stop at any point.     *)
(* One recipient of one message is modelled; clocks of the two sides are   *)
(* independent, so each side sees a command expire at its own time.        *)
(***************************************************************************)
EXTENDS Naturals, FiniteSets

CONSTANTS
    Commands,    \* command identities
    MaxLate,     \* bound: polls on their way or being handled
    None

Operations == {"release", "delete", "retry"}
Results    == {"done", "conflict", "expired"}
Statuses   == {"quarantined", "pending", "sending", "delivered", "discarded", "expired"}

VARIABLES
    status,     \* deliveries.status on the node
    shown,      \* the status central management has
    row,        \* queue_commands: operation, result (None: unfinished), execution_result
    withdrawn,  \* commands whose session ended or whose actor changed
    past,       \* commands past their expiry by central management's clock
    late,       \* commands past their expiry by the node's clock
    receipt,    \* cluster_command_receipts with management_command_bindings
    acked,      \* management_command_bindings.acknowledged
    pc,         \* the node's poll: idle, wait, confirm or execute
    queue,      \* polls on their way or being handled; the node waits for a current one
    reply,      \* the reply the node works on
    sent,       \* commands dispatched at least once
    applied     \* commands that changed the queue, with the operation

node    == <<status, late, receipt, acked, applied>>
client  == <<pc, reply>>
central == <<row, withdrawn, past, sent>>
vars    == <<node, client, central, shown, queue>>

NoRow   == [op |-> None, result |-> None, exec |-> None]
NoReply == [receipts |-> {}, commands |-> {}]

Asked(c) == row[c] # NoRow
Open(c)  == Asked(c) /\ row[c].result = None

Init ==
    /\ status = "quarantined" /\ shown = "quarantined"
    /\ row = [c \in Commands |-> NoRow] /\ withdrawn = {} /\ past = {} /\ late = {}
    /\ receipt = [c \in Commands |-> None] /\ acked = {}
    /\ pc = "idle" /\ queue = {} /\ reply = NoReply
    /\ sent = {} /\ applied = {}

-----------------------------------------------------------------------------
(* Central management                                                       *)

Valid(op) == shown = IF op = "retry" THEN "pending" ELSE "quarantined"

\* A fresh UUID; identities are interchangeable, so which one it is does not matter.
NewIdentity == CHOOSE c \in Commands : ~Asked(c)

\* request_command: expired commands of the recipient are finished first, then
\* there may be no unfinished one.
Request(c, op) ==
    /\ ~Asked(c) /\ c = NewIdentity /\ Valid(op)
    /\ \A d \in Commands : Open(d) => d \in past
    /\ row' = [d \in Commands |->
                 IF d = c THEN [NoRow EXCEPT !.op = op]
                 ELSE IF Open(d) THEN [row[d] EXCEPT !.result = "expired"] ELSE row[d]]
    /\ UNCHANGED <<withdrawn, past, sent, node, client, shown, queue>>

\* The person signs out, changes role or loses the recipient.
Withdraw ==
    /\ \E c \in Commands : Open(c) /\ c \notin withdrawn
    /\ withdrawn' = withdrawn \cup {c \in Commands : Asked(c)}
    /\ UNCHANGED <<row, past, sent, node, client, shown, queue>>

\* Mutant: a result that was expired or revoked here refuses the receipt.
ContradictsAny(r) ==
    \/ row[r.id].exec \notin {None, r.result}
    \/ row[r.id].result \notin {None, r.result}

Contradicts(r) ==
    \/ row[r.id].exec \notin {None, r.result}
    \/ row[r.id].result \notin {None, r.result, "expired", "revoked"}

\* acknowledge_commands: expiry and revocation keep their result, the execution
\* is recorded beside it.  A contradiction fails the whole poll.
AcknowledgeCommands(p) ==
    /\ p \in queue /\ p.step = "acknowledge"
    /\ IF \E r \in p.receipts : Contradicts(r)
       THEN row' = row /\ queue' = queue \ {p}
       ELSE /\ row' = [c \in Commands |->
                 IF \E r \in p.receipts : r.id = c
                 THEN LET r == CHOOSE r \in p.receipts : r.id = c
                      IN  [row[c] EXCEPT !.result = IF @ = None THEN r.result ELSE @,
                                         !.exec = r.result]
                 ELSE row[c]]
            /\ queue' = (queue \ {p}) \cup {[p EXCEPT !.step = "dispatch"]}
    /\ UNCHANGED <<withdrawn, past, sent, node, client, shown>>

\* Mutant: the authorization checked when the command was asked for is enough.
AuthorizedOnce(c) == TRUE

\* mfa::allowed, users.version and console_access, at dispatch.
Authorized(c) == c \notin withdrawn

\* What pending_commands does to an unfinished command.
Settled(c) ==
    IF ~Open(c) THEN row[c]
    ELSE IF c \in past THEN [row[c] EXCEPT !.result = "expired"]
    ELSE IF ~Authorized(c) THEN [row[c] EXCEPT !.result = "revoked"] ELSE row[c]

\* pending_commands, and the reply; a node that gave up does not read it.
PendingCommands(p) ==
    /\ p \in queue /\ p.step = "dispatch"
    /\ queue' = queue \ {p}
    /\ row' = [c \in Commands |-> Settled(c)]
    /\ LET out == {c \in Commands : Asked(c) /\ Settled(c).result = None}
       IN  /\ sent' = sent \cup out
           /\ IF p.current
              THEN pc' = "confirm" /\ reply' = [receipts |-> p.receipts, commands |-> out]
              ELSE UNCHANGED <<pc, reply>>
    /\ UNCHANGED <<withdrawn, past, node, shown>>

-----------------------------------------------------------------------------
(* The node                                                                 *)

\* Mutant: receipts count as acknowledged when they are sent.
PollForget ==
    /\ pc = "idle" /\ Cardinality(queue) < MaxLate
    /\ pc' = "wait"
    /\ LET unacked == {c \in Commands : receipt[c] # None} \ acked
       IN  /\ queue' = queue \cup {[current |-> TRUE, step |-> "acknowledge",
                                    receipts |-> {[id |-> c, result |-> receipt[c]] : c \in unacked}]}
           /\ acked' = acked \cup unacked
    /\ UNCHANGED <<reply, status, late, receipt, applied, central, shown>>

\* pending_receipts and the request.
Poll ==
    /\ pc = "idle" /\ Cardinality(queue) < MaxLate
    /\ pc' = "wait"
    /\ LET unacked == {c \in Commands : receipt[c] # None} \ acked
       IN  queue' = queue \cup {[current |-> TRUE, step |-> "acknowledge",
                                 receipts |-> {[id |-> c, result |-> receipt[c]] : c \in unacked}]}
    /\ UNCHANGED <<reply, node, central, shown>>

\* Mutant: a failed exchange leaves its reply behind.
StopKeep ==
    /\ pc # "idle"
    /\ pc' = "idle"
    /\ queue' = {[p EXCEPT !.current = FALSE] : p \in queue}
    /\ UNCHANGED <<reply, node, central, shown>>

\* The request fails, or the process stops, before or after what it commits.
Stop ==
    /\ pc # "idle"
    /\ pc' = "idle" /\ reply' = NoReply
    /\ queue' = {[p EXCEPT !.current = FALSE] : p \in queue}
    /\ UNCHANGED <<node, central, shown>>

\* acknowledge_receipts.
Confirm ==
    /\ pc = "confirm"
    /\ acked' = acked \cup {r.id : r \in {x \in reply.receipts : receipt[x.id] = x.result}}
    /\ pc' = "execute"
    /\ UNCHANGED <<status, late, receipt, applied, reply, central, shown, queue>>

\* Mutant: a release or a delete also acts on a message that left quarantine.
ActionableOnce(op) == status \in {"quarantined", "pending"}

\* The delivery a command may change: pending for a retry, held otherwise.
Actionable(op) == status = IF op = "retry" THEN "pending" ELSE "quarantined"

After(op) == IF op = "delete" THEN "discarded" ELSE "pending"

Outcome(c) ==
    IF c \in late THEN "expired" ELSE IF Actionable(row[c].op) THEN "done" ELSE "conflict"

\* execute_transaction for one command: a repeated identity only returns what
\* is recorded; the change of the queue and the receipt are one transaction.
Execute(c) ==
    /\ pc = "execute" /\ c \in reply.commands
    /\ reply' = [reply EXCEPT !.commands = @ \ {c}]
    /\ IF receipt[c] = None
       THEN /\ receipt' = [receipt EXCEPT ![c] = Outcome(c)]
            /\ IF Outcome(c) = "done"
               THEN status' = After(row[c].op) /\ applied' = applied \cup {c}
               ELSE UNCHANGED <<status, applied>>
       ELSE UNCHANGED <<receipt, status, applied>>
    /\ UNCHANGED <<late, acked, pc, central, shown, queue>>

Finish ==
    /\ pc = "execute" /\ reply.commands = {}
    /\ pc' = "idle" /\ reply' = NoReply
    /\ UNCHANGED <<node, central, shown, queue>>

\* The relay worker and the hold's end change the delivery (MailQueue.tla).
Deliver ==
    /\ \/ status = "pending" /\ status' = "sending"
       \/ status = "sending" /\ status' \in {"pending", "delivered"}
       \/ status = "quarantined" /\ status' = "expired"
    /\ UNCHANGED <<late, receipt, acked, applied, client, central, shown, queue>>

\* Projection.tla: central management receives the current status.
Project ==
    /\ shown # status
    /\ shown' = status
    /\ UNCHANGED <<node, client, central, queue>>

\* Five minutes pass, on either clock.
ExpireHere(c) ==
    /\ Asked(c) /\ c \notin past
    /\ past' = past \cup {c}
    /\ UNCHANGED <<row, withdrawn, sent, node, client, shown, queue>>

ExpireThere(c) ==
    /\ Asked(c) /\ c \notin late
    /\ late' = late \cup {c}
    /\ UNCHANGED <<status, receipt, acked, applied, client, central, shown, queue>>

\* The connection breaks before the poll is read.
Lose(p) ==
    /\ p \in queue
    /\ queue' = queue \ {p}
    /\ UNCHANGED <<node, client, central, shown>>

Next ==
    \/ \E c \in Commands, op \in Operations : Request(c, op)
    \/ Withdraw \/ Poll \/ Stop \/ Confirm \/ Finish \/ Deliver \/ Project
    \/ \E c \in Commands : Execute(c) \/ ExpireHere(c) \/ ExpireThere(c)
    \/ \E p \in queue : AcknowledgeCommands(p) \/ PendingCommands(p) \/ Lose(p)

Spec == Init /\ [][Next]_vars

\* run_remote polls again and again; a poll, its handling and the work on its
\* reply succeed if they are tried often enough, and clocks advance.
Fairness ==
    /\ WF_vars((\E c \in Commands : Asked(c)) /\ Poll) /\ SF_vars(Confirm)
    /\ WF_vars(Finish) /\ WF_vars(Stop)
    /\ SF_vars(\E p \in queue : p.current /\ AcknowledgeCommands(p))
    /\ SF_vars(\E p \in queue : p.current /\ PendingCommands(p))
    /\ WF_vars(\E p \in queue : Lose(p))
    /\ \A c \in Commands : WF_vars(Execute(c)) /\ WF_vars(ExpireHere(c))

FairSpec == Spec /\ Fairness

-----------------------------------------------------------------------------
(* Properties                                                               *)

\* Every variable keeps its shape; what the node works on is a reply to a poll.
TypeOK ==
    /\ status \in Statuses /\ shown \in Statuses
    /\ row \in [Commands -> [op : Operations \cup {None}, result : Results \cup {"revoked", None},
                             exec : Results \cup {None}]]
    /\ receipt \in [Commands -> Results \cup {None}] /\ acked \subseteq Commands
    /\ pc \in {"idle", "wait", "confirm", "execute"}
    /\ (reply # NoReply => pc \in {"confirm", "execute"})

\* A message is released or deleted at most once, whatever was asked for on a
\* stale view, sent twice, or executed after central management gave it up.
DecidedOnce ==
    Cardinality({c \in applied : row[c].op \in {"release", "delete"}}) <= 1

\* What is recorded is what happened: on the node "done" says exactly that the
\* queue changed, central management only records executions, a confirmed
\* receipt is recorded there, and only expiry and revocation are overtaken.
ResultTruthful ==
    \A c \in Commands :
        /\ (receipt[c] = "done") <=> (c \in applied)
        /\ row[c].exec \in {None, receipt[c]}
        /\ c \in acked => row[c].exec = receipt[c]
        /\ row[c].result \in {"done", "conflict"} => row[c].result = row[c].exec

SendStep == \A c \in sent' \ sent : c \notin withdrawn

\* A command whose author lost the right before it was ever dispatched never
\* reaches the node.
WithdrawnNeverSent == [][SendStep]_vars

\* No poll is refused: a node's receipts never contradict what central
\* management recorded, so they cannot block its later commands.
NeverContradicts ==
    \A p \in queue : p.step = "acknowledge" => \A r \in p.receipts : ~Contradicts(r)

\* Every command a person sees as pending is finished, and every execution is
\* recorded by central management.
EveryCommandEnds ==
    \A c \in Commands : /\ Open(c) ~> ~Open(c)
                        /\ (receipt[c] # None) ~> (row[c].exec = receipt[c] /\ c \in acked)
=============================================================================
