------------------------ MODULE RemoteCommandsProofs ------------------------
(***************************************************************************)
(* TLAPS proofs about RemoteCommands, for any number of commands, polls on *)
(* their way and stops of the node.                                        *)
(***************************************************************************)
EXTENDS RemoteCommands, FiniteSetTheorems, TLAPS

\* SQL's NULL is no operation and no result.
NullIsNoValue == None \notin Operations \cup Results \cup {"revoked"}

-----------------------------------------------------------------------------
(* The inductive invariant                                                  *)

Receipts == [id : Commands, result : Results]

\* What TypeOK leaves open: the polls and what the node works on.
Shapes ==
    /\ queue \subseteq [current : BOOLEAN, step : {"acknowledge", "dispatch"},
                        receipts : SUBSET Receipts]
    /\ reply \in [receipts : SUBSET Receipts, commands : SUBSET Commands]
    /\ applied \subseteq Commands

\* A row is asked for exactly when it has an operation; the node only works on,
\* and only answers, commands that were asked for.
OnlyAsked ==
    \A c \in Commands :
        /\ row[c].op = None => row[c] = NoRow
        /\ c \in reply.commands \/ receipt[c] # None => row[c].op # None

\* A receipt the node sent says what it recorded.
Genuine(R) == \A r \in R : receipt[r.id] = r.result

\* Central management has recorded these receipts.
Recorded(R) == \A r \in R : row[r.id].exec = r.result

\* Receipts on their way are genuine, and recorded before they are confirmed.
ReceiptsKept ==
    /\ \A p \in queue : Genuine(p.receipts) /\ (p.step = "dispatch" => Recorded(p.receipts))
    /\ Genuine(reply.receipts) /\ Recorded(reply.receipts)
    /\ \A c \in acked : receipt[c] # None

Decided == {c \in applied : row[c].op \in {"release", "delete"}}

\* Quarantine is left for good by the one decision.
OneDecision ==
    /\ Decided # {} => status # "quarantined"
    /\ \A c, d \in Decided : c = d

CommandsInv ==
    TypeOK /\ Shapes /\ OnlyAsked /\ ReceiptsKept /\ ResultTruthful /\ OneDecision

-----------------------------------------------------------------------------
(* Types                                                                    *)

Rows == [op : Operations \cup {None}, result : Results \cup {"revoked", None},
         exec : Results \cup {None}]

LEMMA RowFields ==
    ASSUME NEW w \in Rows, NEW x, NEW y
    PROVE  /\ [w EXCEPT !.result = x].op = w.op
           /\ [w EXCEPT !.result = x].result = x
           /\ [w EXCEPT !.result = x].exec = w.exec
           /\ [w EXCEPT !.result = x, !.exec = y].op = w.op
           /\ [w EXCEPT !.result = x, !.exec = y].result = x
           /\ [w EXCEPT !.result = x, !.exec = y].exec = y
BY DEF Rows

\* An acknowledged poll changes the rows of its receipts, each to the result of
\* one of them.
LEMMA AcknowledgedRow ==
    ASSUME TypeOK, Shapes, NEW p \in queue, AcknowledgeCommands(p)
    PROVE  /\ row' \in [Commands -> Rows]
           /\ \A c \in Commands :
                \/ row'[c] = row[c]
                \/ \E r \in p.receipts :
                     /\ r.id = c
                     /\ row'[c].op = row[c].op /\ row'[c].exec = r.result
                     /\ row'[c].result =
                          IF row[c].result = None THEN r.result ELSE row[c].result
           /\ ~ (\E r \in p.receipts : Contradicts(r)) =>
                \A r \in p.receipts :
                  row'[r.id].exec = (CHOOSE s \in p.receipts : s.id = r.id).result
<1> DEFINE Of(c) == CHOOSE r \in p.receipts : r.id = c
           Has(c) == \E r \in p.receipts : r.id = c
           With(c, r) == [row[c] EXCEPT !.result = IF @ = None THEN r.result ELSE @,
                                        !.exec = r.result]
<1>1. p.receipts \subseteq Receipts /\ row \in [Commands -> Rows]
  BY DEF Shapes, TypeOK, Rows
<1>2. \A c \in Commands : Has(c) => Of(c) \in p.receipts /\ Of(c).id = c
  OBVIOUS
<1>3. \/ row' = row
      \/ row' = [c \in Commands |-> IF Has(c) THEN With(c, Of(c)) ELSE row[c]]
  BY DEF AcknowledgeCommands
<1>4. \A c \in Commands, r \in Receipts :
        /\ With(c, r) \in Rows
        /\ With(c, r).op = row[c].op /\ With(c, r).exec = r.result
        /\ With(c, r).result = IF row[c].result = None THEN r.result ELSE row[c].result
  <2> TAKE c \in Commands, r \in Receipts
  <2>1. PICK w : w = row[c] /\ w \in Rows BY <1>1
  <2>2. PICK x : x = IF w.result = None THEN r.result ELSE w.result OBVIOUS
  <2>3. With(c, r) = [w EXCEPT !.result = x, !.exec = r.result] BY <2>1, <2>2
  <2>4. x \in Results \cup {"revoked", None} /\ r.result \in Results
    BY <2>1, <2>2 DEF Receipts, Rows
  <2>5. [w EXCEPT !.result = x, !.exec = r.result] \in Rows
    BY <2>1, <2>4 DEF Rows
  <2> QED BY <2>1, <2>2, <2>3, <2>5, RowFields
<1>8. ~ (\E r \in p.receipts : Contradicts(r)) =>
        row' = [c \in Commands |-> IF Has(c) THEN With(c, Of(c)) ELSE row[c]]
  BY DEF AcknowledgeCommands
<1>9. \A r \in p.receipts : Has(r.id) /\ r.id \in Commands
  BY <1>1 DEF Receipts
<1> HIDE DEF Of, Has, With
<1>5. \A c \in Commands : Has(c) => With(c, Of(c)) \in Rows
  BY <1>1, <1>2, <1>4
<1>6. row' \in [Commands -> Rows]
  BY <1>1, <1>3, <1>5
<1>7. \A c \in Commands :
        row'[c] = row[c] \/ \E r \in p.receipts : r.id = c /\ row'[c] = With(c, r)
  BY <1>2, <1>3
<1>10. ~ (\E r \in p.receipts : Contradicts(r)) =>
         \A r \in p.receipts : row'[r.id].exec = Of(r.id).result
  <2>1. \A r \in p.receipts : With(r.id, Of(r.id)).exec = Of(r.id).result
    BY <1>1, <1>2, <1>4, <1>9
  <2> QED BY <1>8, <1>9, <2>1
<1>11. \A c \in Commands :
         \/ row'[c] = row[c]
         \/ \E r \in p.receipts :
              /\ r.id = c
              /\ row'[c].op = row[c].op /\ row'[c].exec = r.result
              /\ row'[c].result = IF row[c].result = None THEN r.result ELSE row[c].result
  BY <1>1, <1>4, <1>7
<1> QED BY <1>6, <1>10, <1>11 DEF Of

LEMMA TypeStep == TypeOK /\ Shapes /\ [Next]_vars => TypeOK' /\ Shapes'
<1> SUFFICES ASSUME TypeOK, Shapes, [Next]_vars PROVE TypeOK' /\ Shapes'
  OBVIOUS
<1> USE DEF TypeOK, Shapes, Receipts, Operations, Results, Statuses, NoRow, NoReply
<1>1. ASSUME NEW c \in Commands, NEW op \in Operations, Request(c, op) PROVE TypeOK' /\ Shapes'
  BY <1>1 DEF Request, node, client, Asked, Open
<1>2. CASE Withdraw
  BY <1>2 DEF Withdraw, node, client
<1>3. CASE Poll
  <2> DEFINE unacked == {c \in Commands : receipt[c] # None} \ acked
             R == {[id |-> c, result |-> receipt[c]] : c \in unacked}
  <2>1. R \in SUBSET Receipts OBVIOUS
  <2>2. queue' = queue \cup {[current |-> TRUE, step |-> "acknowledge", receipts |-> R]}
    BY <1>3 DEF Poll
  <2> HIDE DEF R
  <2>3. [current |-> TRUE, step |-> "acknowledge", receipts |-> R] \in
          [current : BOOLEAN, step : {"acknowledge", "dispatch"}, receipts : SUBSET Receipts]
    BY <2>1
  <2>4. Shapes'
    BY <1>3, <2>2, <2>3 DEF Poll, node
  <2> QED BY <1>3, <2>4 DEF Poll, node, central
<1>4. CASE Stop
  <2>1. \A p \in queue : [p EXCEPT !.current = FALSE] \in
          [current : BOOLEAN, step : {"acknowledge", "dispatch"}, receipts : SUBSET Receipts]
    OBVIOUS
  <2>2. queue' \subseteq
          [current : BOOLEAN, step : {"acknowledge", "dispatch"}, receipts : SUBSET Receipts]
    BY <1>4, <2>1 DEF Stop
  <2> QED BY <1>4, <2>2 DEF Stop, node, central
<1>5. CASE Confirm
  BY <1>5 DEF Confirm, central
<1>6. CASE Finish
  BY <1>6 DEF Finish, node, central
<1>7. CASE Deliver \/ Project
  BY <1>7 DEF Deliver, Project, node, client, central
<1>8. ASSUME NEW c \in Commands, Execute(c) PROVE TypeOK' /\ Shapes'
  <2>1. Outcome(c) \in Results BY DEF Outcome
  <2>2. After(row[c].op) \in Statuses BY DEF After
  <2> HIDE DEF Results, Operations
  <2>3. status' \in Statuses /\ receipt' \in [Commands -> Results \cup {None}]
    BY <1>8, <2>1, <2>2 DEF Execute
  <2> QED BY <1>8, <2>3 DEF Execute, central
<1>9. ASSUME NEW c \in Commands, ExpireHere(c) \/ ExpireThere(c) PROVE TypeOK' /\ Shapes'
  BY <1>9 DEF ExpireHere, ExpireThere, node, client, central
<1>10. ASSUME NEW p \in queue, AcknowledgeCommands(p) PROVE TypeOK' /\ Shapes'
  <2>1. row' \in [Commands -> Rows]
    BY <1>10, AcknowledgedRow DEF Rows
  <2>2. p \in [current : BOOLEAN, step : {"acknowledge", "dispatch"}, receipts : SUBSET Receipts]
    OBVIOUS
  <2>3. [p EXCEPT !.step = "dispatch"] \in
          [current : BOOLEAN, step : {"acknowledge", "dispatch"}, receipts : SUBSET Receipts]
    BY <2>2
  <2>4. queue' \subseteq queue \cup {[p EXCEPT !.step = "dispatch"]}
    BY <1>10 DEF AcknowledgeCommands
  <2> QED BY <1>10, <2>1, <2>3, <2>4 DEF AcknowledgeCommands, node, client, Rows
<1>11. ASSUME NEW p \in queue, PendingCommands(p) PROVE TypeOK' /\ Shapes'
  <2>1. row' \in [Commands -> Rows]
    BY <1>11 DEF PendingCommands, Settled, Rows
  <2> QED BY <1>11, <2>1 DEF PendingCommands, node, Rows
<1>12. ASSUME NEW p \in queue, Lose(p) PROVE TypeOK' /\ Shapes'
  BY <1>12 DEF Lose, node, client, central
<1>13. CASE UNCHANGED vars
  BY <1>13 DEF vars, node, client, central
<1> QED BY <1>1, <1>2, <1>3, <1>4, <1>5, <1>6, <1>7, <1>8, <1>9, <1>10, <1>11, <1>12, <1>13 DEF Next

-----------------------------------------------------------------------------
(* The invariant is inductive                                               *)

LEMMA InvInit == NullIsNoValue /\ Init => CommandsInv
BY DEF Init, CommandsInv, TypeOK, Shapes, OnlyAsked, ReceiptsKept, Genuine, Recorded,
   ResultTruthful, OneDecision, Decided, NoRow, NoReply, Statuses, Results, Operations,
   NullIsNoValue

\* Steps that touch neither the tables nor what is on its way; mail that left
\* quarantine never returns to it.
LEMMA QuietStep ==
    ASSUME CommandsInv,
           Withdraw \/ Deliver \/ Project \/ UNCHANGED vars
           \/ \E c \in Commands : ExpireHere(c) \/ ExpireThere(c)
    PROVE  OnlyAsked' /\ ReceiptsKept' /\ ResultTruthful' /\ OneDecision'
<1>1. UNCHANGED <<row, receipt, acked, applied, queue, reply>>
  BY DEF Withdraw, Deliver, Project, ExpireHere, ExpireThere, vars, node, client, central
<1>2. status' = "quarantined" => status = "quarantined"
  BY DEF Withdraw, Deliver, Project, ExpireHere, ExpireThere, vars, node, client, central
<1>3. OnlyAsked' /\ ReceiptsKept' /\ ResultTruthful'
  BY <1>1 DEF CommandsInv, OnlyAsked, ReceiptsKept, Genuine, Recorded, ResultTruthful
<1>4. Decided' = Decided
  BY <1>1 DEF Decided
<1> QED BY <1>2, <1>3, <1>4 DEF CommandsInv, OneDecision

\* A poll that is sent, lost, given up or finished changes no table.
LEMMA PollStep ==
    ASSUME NullIsNoValue, CommandsInv,
           Poll \/ Stop \/ Finish \/ \E p \in queue : Lose(p)
    PROVE  OnlyAsked' /\ ReceiptsKept' /\ ResultTruthful' /\ OneDecision'
<1>1. UNCHANGED <<row, receipt, acked, applied, status>>
  BY DEF Poll, Stop, Finish, Lose, node, client, central
<1>2. ResultTruthful' /\ OneDecision'
  BY <1>1 DEF CommandsInv, ResultTruthful, OneDecision, Decided
<1>3. reply' = reply \/ reply' = NoReply
  BY DEF Poll, Stop, Finish, Lose, client
<1>4. OnlyAsked' /\ Genuine(reply.receipts)' /\ Recorded(reply.receipts)'
  BY <1>1, <1>3 DEF CommandsInv, OnlyAsked, ReceiptsKept, Genuine, Recorded, NoReply
<1> DEFINE Kept(p) == Genuine(p.receipts) /\ (p.step = "dispatch" => Recorded(p.receipts))
<1>5. \A p \in queue' : Kept(p)
  <2>1. \A p \in queue : Kept(p)
    BY DEF CommandsInv, ReceiptsKept
  <2>2. CASE Finish \/ \E p \in queue : Lose(p)
    BY <2>1, <2>2 DEF Finish, Lose
  <2>3. CASE Stop
    <3>1. \A p \in queue : [p EXCEPT !.current = FALSE].receipts = p.receipts
                        /\ [p EXCEPT !.current = FALSE].step = p.step
      BY DEF CommandsInv, Shapes
    <3>2. \A q \in queue' : \E p \in queue : q.receipts = p.receipts /\ q.step = p.step
      BY <2>3, <3>1 DEF Stop
    <3> QED BY <2>1, <3>2
  <2>4. CASE Poll
    <3> DEFINE unacked == {c \in Commands : receipt[c] # None} \ acked
               R == {[id |-> c, result |-> receipt[c]] : c \in unacked}
    <3>1. Genuine(R) BY DEF Genuine
    <3>2. queue' = queue \cup {[current |-> TRUE, step |-> "acknowledge", receipts |-> R]}
      BY <2>4 DEF Poll
    <3> HIDE DEF R
    <3> QED BY <2>1, <3>1, <3>2
  <2> QED BY <2>2, <2>3, <2>4
<1>6. ReceiptsKept'
  BY <1>1, <1>4, <1>5 DEF CommandsInv, ReceiptsKept, Genuine, Recorded
<1> QED BY <1>2, <1>4, <1>6

\* acknowledge_receipts confirms what central management has recorded.
LEMMA ConfirmStep ==
    ASSUME NullIsNoValue, CommandsInv, Confirm
    PROVE  OnlyAsked' /\ ReceiptsKept' /\ ResultTruthful' /\ OneDecision'
<1>1. UNCHANGED <<row, receipt, applied, status, reply, queue>>
  BY DEF Confirm, central
<1>2. \A c \in acked' : c \in acked \/ \E r \in reply.receipts : r.id = c /\ receipt[c] = r.result
  BY DEF Confirm
<1>3. \A r \in reply.receipts : row[r.id].exec = r.result /\ r.result # None
  BY DEF CommandsInv, ReceiptsKept, Recorded, Shapes, Receipts, NullIsNoValue
<1>4. \A c \in acked' : receipt[c] # None /\ (c \in Commands => row[c].exec = receipt[c])
  BY <1>2, <1>3 DEF CommandsInv, ReceiptsKept, ResultTruthful
<1>5. ReceiptsKept' /\ ResultTruthful'
  BY <1>1, <1>4 DEF CommandsInv, ReceiptsKept, Genuine, Recorded, ResultTruthful
<1> QED BY <1>1, <1>5 DEF CommandsInv, OnlyAsked, OneDecision, Decided

\* execute_transaction: the receipt and the change of the queue are one.
LEMMA ExecuteStep ==
    ASSUME NullIsNoValue, CommandsInv, NEW c \in Commands, Execute(c)
    PROVE  OnlyAsked' /\ ReceiptsKept' /\ ResultTruthful' /\ OneDecision'
<1>0. UNCHANGED <<row, acked, queue>> /\ reply'.receipts = reply.receipts
      /\ reply'.commands \subseteq reply.commands
  BY DEF Execute, central, CommandsInv, Shapes
<1>1. CASE receipt[c] # None
  <2>1. UNCHANGED <<receipt, status, applied>> BY <1>1 DEF Execute
  <2> QED BY <1>0, <2>1 DEF CommandsInv, OnlyAsked, ReceiptsKept, Genuine, Recorded,
          ResultTruthful, OneDecision, Decided
<1>2. CASE receipt[c] = None
  <2>1. receipt' = [receipt EXCEPT ![c] = Outcome(c)] /\ Outcome(c) \in Results
    BY <1>2 DEF Execute, Outcome, Results
  <2>2. \A d \in Commands : receipt[d] # None => receipt'[d] = receipt[d]
    BY <1>2, <2>1 DEF CommandsInv, TypeOK
  <2>3. \A r \in Receipts : receipt[r.id] = r.result => receipt'[r.id] = r.result
    BY <2>2 DEF Receipts, NullIsNoValue
  <2>4. ReceiptsKept'
    <3>1. \A p \in queue : p.receipts \subseteq Receipts
      BY DEF CommandsInv, Shapes
    <3>2. reply.receipts \subseteq Receipts
      BY DEF CommandsInv, Shapes
    <3>3. acked \subseteq Commands
      BY DEF CommandsInv, TypeOK
    <3> QED BY <1>0, <2>2, <2>3, <3>1, <3>2, <3>3 DEF CommandsInv, ReceiptsKept, Genuine, Recorded
  <2>5. c \in reply.commands /\ row[c].op # None
    BY DEF Execute, CommandsInv, OnlyAsked
  <2>6. OnlyAsked'
    <3>1. \A d \in Commands : receipt'[d] # None => d = c \/ receipt[d] # None
      BY <2>1 DEF CommandsInv, TypeOK
    <3> QED BY <1>0, <2>5, <3>1 DEF CommandsInv, OnlyAsked
  <2>7. c \notin applied /\ row[c].exec = None /\ c \notin acked
    BY <1>2 DEF CommandsInv, ResultTruthful, ReceiptsKept, NullIsNoValue, Results
  <2>8. /\ applied' = IF Outcome(c) = "done" THEN applied \cup {c} ELSE applied
        /\ status' = IF Outcome(c) = "done" THEN After(row[c].op) ELSE status
    BY <1>2 DEF Execute
  <2>9. receipt'[c] = Outcome(c) /\ \A d \in Commands \ {c} : receipt'[d] = receipt[d]
    BY <2>1 DEF CommandsInv, TypeOK
  <2>10. \A d \in Commands : (receipt'[d] = "done") <=> (d \in applied')
    BY <2>7, <2>8, <2>9 DEF CommandsInv, ResultTruthful
  <2>11. ResultTruthful'
    BY <1>0, <2>7, <2>9, <2>10 DEF CommandsInv, ResultTruthful
  <2>12. OneDecision'
    <3>1. CASE Outcome(c) # "done"
      BY <1>0, <2>8, <3>1 DEF CommandsInv, OneDecision, Decided
    <3>2. CASE Outcome(c) = "done" /\ row[c].op \notin {"release", "delete"}
      <4>1. Decided' = Decided BY <1>0, <2>8, <3>2 DEF Decided
      <4>2. status' # "quarantined" BY <2>8, <3>2 DEF After
      <4> QED BY <4>1, <4>2 DEF CommandsInv, OneDecision
    <3>3. CASE Outcome(c) = "done" /\ row[c].op \in {"release", "delete"}
      <4>1. status = "quarantined" BY <3>3 DEF Outcome, Actionable
      <4>2. Decided = {} BY <4>1 DEF CommandsInv, OneDecision
      <4>3. Decided' = {c} BY <1>0, <2>8, <3>3, <4>2 DEF Decided
      <4>4. status' # "quarantined" BY <2>8, <3>3 DEF After
      <4> QED BY <4>3, <4>4 DEF OneDecision
    <3> QED BY <3>1, <3>2, <3>3
  <2> QED BY <2>4, <2>6, <2>11, <2>12
<1> QED BY <1>1, <1>2

\* What every change of queue_commands respects.
RowsChange ==
    \A c \in Commands :
        /\ row'[c].exec \in {row[c].exec, receipt[c]}
        /\ row[c].op # None => row'[c].op = row[c].op
        /\ row'[c].op = None => row'[c] = NoRow
        /\ row'[c].result \in {"done", "conflict"} => row'[c].result = row'[c].exec

\* Central management's tables say no more than the receipts.
LEMMA RowsStep ==
    ASSUME NullIsNoValue, CommandsInv, RowsChange, UNCHANGED <<receipt, acked, applied, status>>
    PROVE  /\ ResultTruthful' /\ OneDecision'
           /\ \A c \in Commands : row[c].op # None \/ receipt[c] # None => row'[c].op # None
           /\ \A r \in Receipts : receipt[r.id] = r.result /\ row[r.id].exec = r.result
                                    => row'[r.id].exec = r.result
<1>1. \A c \in Commands : row[c].op # None \/ receipt[c] # None => row'[c].op # None
  BY DEF RowsChange, CommandsInv, OnlyAsked
<1>2. \A r \in Receipts : receipt[r.id] = r.result /\ row[r.id].exec = r.result
                            => row'[r.id].exec = r.result
  BY DEF Receipts, RowsChange
<1>3. ResultTruthful'
  BY DEF RowsChange, CommandsInv, ResultTruthful
<1>4. \A c \in applied : c \in Commands /\ receipt[c] # None
  BY DEF CommandsInv, Shapes, ResultTruthful, NullIsNoValue, Results
<1>5. \A c \in applied : row'[c].op = row[c].op
  BY <1>4 DEF RowsChange, CommandsInv, OnlyAsked
<1>6. Decided' = Decided
  BY <1>5 DEF Decided
<1> QED BY <1>1, <1>2, <1>3, <1>6 DEF CommandsInv, OneDecision

\* request_command.
LEMMA RequestStep ==
    ASSUME NullIsNoValue, CommandsInv, NEW c \in Commands, NEW op \in Operations, Request(c, op)
    PROVE  OnlyAsked' /\ ReceiptsKept' /\ ResultTruthful' /\ OneDecision'
<1>1. UNCHANGED <<receipt, acked, applied, status, reply, queue>>
  BY DEF Request, node, client
<1>2. row' = [d \in Commands |->
                 IF d = c THEN [NoRow EXCEPT !.op = op]
                 ELSE IF Open(d) THEN [row[d] EXCEPT !.result = "expired"] ELSE row[d]]
      /\ row[c] = NoRow /\ op # None
  BY DEF Request, Asked, NullIsNoValue
<1>3. row \in [Commands -> Rows]
  BY DEF CommandsInv, TypeOK, Rows
<1>4. /\ row'[c].exec = None /\ row'[c].op = op /\ row'[c].result = None
      /\ \A d \in Commands \ {c} :
            /\ row'[d].exec = row[d].exec /\ row'[d].op = row[d].op
            /\ row'[d] = row[d] \/ (row'[d].result = "expired" /\ row[d] # NoRow)
  <2>1. row'[c] = [op |-> op, result |-> None, exec |-> None]
    BY <1>2 DEF NoRow
  <2>2. ASSUME NEW d \in Commands \ {c}
        PROVE  /\ row'[d].exec = row[d].exec /\ row'[d].op = row[d].op
               /\ row'[d] = row[d] \/ (row'[d].result = "expired" /\ row[d] # NoRow)
    <3>1. CASE Open(d)
      <4>1. PICK w : w = row[d] /\ w \in Rows BY <1>3
      <4>2. row'[d] = [w EXCEPT !.result = "expired"] BY <1>2, <3>1, <4>1
      <4> QED BY <3>1, <4>1, <4>2, RowFields DEF Open, Asked
    <3>2. CASE ~Open(d)
      BY <1>2, <3>2
    <3> QED BY <3>1, <3>2
  <2> QED BY <2>1, <2>2
<1>5. RowsChange
  BY <1>2, <1>4 DEF RowsChange, NoRow, CommandsInv, OnlyAsked, ResultTruthful, NullIsNoValue,
     Results
<1>6. /\ ResultTruthful' /\ OneDecision'
      /\ \A d \in Commands : row[d].op # None \/ receipt[d] # None => row'[d].op # None
      /\ \A r \in Receipts : receipt[r.id] = r.result /\ row[r.id].exec = r.result
                               => row'[r.id].exec = r.result
  BY <1>1, <1>5, RowsStep
<1>7. ReceiptsKept'
  BY <1>1, <1>6 DEF CommandsInv, Shapes, ReceiptsKept, Genuine, Recorded
<1>8. OnlyAsked'
  BY <1>1, <1>5, <1>6 DEF CommandsInv, OnlyAsked, RowsChange
<1> QED BY <1>6, <1>7, <1>8

\* acknowledge_commands records genuine receipts.
LEMMA AcknowledgeStep ==
    ASSUME NullIsNoValue, CommandsInv, NEW p \in queue, AcknowledgeCommands(p)
    PROVE  OnlyAsked' /\ ReceiptsKept' /\ ResultTruthful' /\ OneDecision'
<1>0. p.receipts \subseteq Receipts /\ Genuine(p.receipts)
  BY DEF CommandsInv, Shapes, ReceiptsKept
<1>1. UNCHANGED <<receipt, acked, applied, status, reply>>
  BY DEF AcknowledgeCommands, node, client
<1>2. row \in [Commands -> Rows]
  BY DEF CommandsInv, TypeOK, Rows
<1>3. \A c \in Commands :
        \/ row'[c] = row[c]
        \/ /\ row'[c].op = row[c].op /\ row'[c].exec = receipt[c] /\ receipt[c] # None
           /\ row'[c].result = IF row[c].result = None THEN receipt[c] ELSE row[c].result
  <2>1. \A c \in Commands :
          \/ row'[c] = row[c]
          \/ \E r \in p.receipts :
               /\ r.id = c
               /\ row'[c].op = row[c].op /\ row'[c].exec = r.result
               /\ row'[c].result = IF row[c].result = None THEN r.result ELSE row[c].result
    BY AcknowledgedRow DEF CommandsInv
  <2>2. \A r \in p.receipts : receipt[r.id] = r.result /\ r.result # None
    BY <1>0 DEF Genuine, Receipts, NullIsNoValue
  <2> QED BY <1>2, <2>1, <2>2 DEF Rows
<1>4. RowsChange
  BY <1>3 DEF RowsChange, CommandsInv, OnlyAsked, ResultTruthful, NullIsNoValue, Results
<1>5. /\ ResultTruthful' /\ OneDecision'
      /\ \A d \in Commands : row[d].op # None \/ receipt[d] # None => row'[d].op # None
      /\ \A r \in Receipts : receipt[r.id] = r.result /\ row[r.id].exec = r.result
                               => row'[r.id].exec = r.result
  BY <1>1, <1>4, RowsStep
<1>6. \A q \in queue' :
        \/ q \in queue
        \/ /\ q.receipts = p.receipts
           /\ \A r \in p.receipts : row'[r.id].exec = r.result
  <2>1. CASE \E r \in p.receipts : Contradicts(r)
    BY <2>1 DEF AcknowledgeCommands
  <2>2. CASE ~ \E r \in p.receipts : Contradicts(r)
    <3>1. queue' = (queue \ {p}) \cup {[p EXCEPT !.step = "dispatch"]}
      BY <2>2 DEF AcknowledgeCommands
    <3>2. [p EXCEPT !.step = "dispatch"].receipts = p.receipts
      BY DEF CommandsInv, Shapes
    <3> DEFINE Of(c) == CHOOSE r \in p.receipts : r.id = c
    <3>3. \A r \in p.receipts : Of(r.id) \in p.receipts /\ Of(r.id).id = r.id
      OBVIOUS
    <3>4. \A r \in p.receipts : row'[r.id].exec = Of(r.id).result
      BY <2>2, AcknowledgedRow DEF CommandsInv
    <3> HIDE DEF Of
    <3>5. \A r \in p.receipts : row'[r.id].exec = r.result
      BY <1>0, <3>3, <3>4 DEF Genuine
    <3> QED BY <3>1, <3>2, <3>5
  <2> QED BY <2>1, <2>2
<1>7. ReceiptsKept'
  <2>1. \A q \in queue' : Genuine(q.receipts)' /\ (q.step = "dispatch" => Recorded(q.receipts)')
    BY <1>0, <1>1, <1>5, <1>6 DEF CommandsInv, Shapes, ReceiptsKept, Genuine, Recorded
  <2>2. Genuine(reply.receipts)' /\ Recorded(reply.receipts)'
    BY <1>1, <1>5 DEF CommandsInv, Shapes, ReceiptsKept, Genuine, Recorded
  <2> QED BY <1>1, <2>1, <2>2 DEF CommandsInv, ReceiptsKept, Genuine, Recorded
<1>8. OnlyAsked'
  BY <1>1, <1>4, <1>5 DEF CommandsInv, OnlyAsked, RowsChange
<1> QED BY <1>5, <1>7, <1>8

\* pending_commands sends what was asked for, with receipts already recorded.
LEMMA DispatchStep ==
    ASSUME NullIsNoValue, CommandsInv, NEW p \in queue, PendingCommands(p)
    PROVE  OnlyAsked' /\ ReceiptsKept' /\ ResultTruthful' /\ OneDecision'
<1>0. p.receipts \subseteq Receipts /\ Genuine(p.receipts) /\ Recorded(p.receipts)
  BY DEF CommandsInv, Shapes, ReceiptsKept, PendingCommands
<1>1. UNCHANGED <<receipt, acked, applied, status>> /\ queue' \subseteq queue
  BY DEF PendingCommands, node
<1>2. row \in [Commands -> Rows]
  BY DEF CommandsInv, TypeOK, Rows
<1>3. row' = [c \in Commands |-> Settled(c)]
  BY DEF PendingCommands
<1>4. \A c \in Commands :
        /\ row'[c].exec = row[c].exec /\ row'[c].op = row[c].op
        /\ row'[c] = row[c] \/ (row'[c].result \in {"expired", "revoked"} /\ row[c] # NoRow)
  <2> TAKE c \in Commands
  <2>1. PICK w : w = row[c] /\ w \in Rows BY <1>2
  <2>2. row'[c] = w \/ \E x \in {"expired", "revoked"} :
                         row'[c] = [w EXCEPT !.result = x] /\ Open(c)
    BY <1>3, <2>1 DEF Settled
  <2>3. \A x : [w EXCEPT !.result = x].op = w.op /\ [w EXCEPT !.result = x].result = x
             /\ [w EXCEPT !.result = x].exec = w.exec
    BY <2>1, RowFields
  <2> QED BY <2>1, <2>2, <2>3 DEF Open, Asked
<1>5. RowsChange
  BY <1>4 DEF RowsChange, CommandsInv, OnlyAsked, ResultTruthful
<1>6. /\ ResultTruthful' /\ OneDecision'
      /\ \A d \in Commands : row[d].op # None \/ receipt[d] # None => row'[d].op # None
      /\ \A r \in Receipts : receipt[r.id] = r.result /\ row[r.id].exec = r.result
                               => row'[r.id].exec = r.result
  BY <1>1, <1>5, RowsStep
<1>7. /\ reply'.receipts \in {reply.receipts, p.receipts}
      /\ \A c \in reply'.commands : c \in Commands => c \in reply.commands \/ row[c] # NoRow
  BY DEF PendingCommands, Asked
<1>8. ReceiptsKept'
  <2>1. Genuine(reply.receipts)' /\ Recorded(reply.receipts)'
    BY <1>0, <1>1, <1>6, <1>7 DEF CommandsInv, Shapes, ReceiptsKept, Genuine, Recorded
  <2>2. \A q \in queue' : Genuine(q.receipts)' /\ (q.step = "dispatch" => Recorded(q.receipts)')
    BY <1>1, <1>6 DEF CommandsInv, Shapes, ReceiptsKept, Genuine, Recorded
  <2> QED BY <1>1, <2>1, <2>2 DEF CommandsInv, ReceiptsKept, Genuine, Recorded
<1>9. OnlyAsked'
  <2>1. \A c \in Commands : row[c] # NoRow => row[c].op # None
    BY DEF CommandsInv, OnlyAsked
  <2> QED BY <1>1, <1>5, <1>6, <1>7, <2>1 DEF CommandsInv, OnlyAsked, RowsChange
<1> QED BY <1>6, <1>8, <1>9

LEMMA InvStep == NullIsNoValue /\ CommandsInv /\ [Next]_vars => CommandsInv'
<1> SUFFICES ASSUME NullIsNoValue, CommandsInv, [Next]_vars PROVE CommandsInv'
  OBVIOUS
<1>1. TypeOK' /\ Shapes'
  BY TypeStep DEF CommandsInv
<1>2. OnlyAsked' /\ ReceiptsKept' /\ ResultTruthful' /\ OneDecision'
  BY QuietStep, PollStep, ConfirmStep, ExecuteStep, RequestStep, AcknowledgeStep, DispatchStep
     DEF Next
<1> QED BY <1>1, <1>2 DEF CommandsInv

-----------------------------------------------------------------------------
(* What follows                                                             *)

LEMMA Invariant == ASSUME NullIsNoValue PROVE Spec => []CommandsInv
BY InvInit, InvStep, PTL DEF Spec

\* Rows, receipts, polls and replies stay well formed.
THEOREM CommandsTyped == ASSUME NullIsNoValue PROVE Spec => []TypeOK
<1>1. CommandsInv => TypeOK BY DEF CommandsInv
<1> QED BY <1>1, Invariant, PTL

\* However many commands are asked for on a stale view, sent again or executed
\* late, a message is released or deleted at most once.
THEOREM QueueDecidedOnce == ASSUME NullIsNoValue PROVE Spec => []DecidedOnce
<1>1. CommandsInv => DecidedOnce
  <2> SUFFICES ASSUME CommandsInv PROVE Cardinality(Decided) <= 1
    BY DEF DecidedOnce, Decided
  <2>1. CASE Decided = {}
    BY <2>1, FS_EmptySet
  <2>2. CASE Decided # {}
    <3>1. PICK c : c \in Decided BY <2>2
    <3>2. Decided = {c} BY <3>1 DEF CommandsInv, OneDecision
    <3> QED BY <3>2, FS_Singleton
  <2> QED BY <2>1, <2>2
<1> QED BY <1>1, Invariant, PTL

\* "done" says exactly that the queue changed, and central management records
\* executions only, every confirmed one among them.
THEOREM RecordsTruthful == ASSUME NullIsNoValue PROVE Spec => []ResultTruthful
<1>1. CommandsInv => ResultTruthful BY DEF CommandsInv
<1> QED BY <1>1, Invariant, PTL

\* acknowledge_commands never refuses a poll, so no receipt blocks later commands.
THEOREM NoPollRefused == ASSUME NullIsNoValue PROVE Spec => []NeverContradicts
<1>1. ASSUME NullIsNoValue, CommandsInv PROVE NeverContradicts
  <2> SUFFICES ASSUME NEW p \in queue, NEW r \in p.receipts PROVE ~Contradicts(r)
    BY DEF NeverContradicts
  <2>1. r.id \in Commands /\ r.result # None /\ receipt[r.id] = r.result
    BY <1>1 DEF CommandsInv, Shapes, Receipts, ReceiptsKept, Genuine, NullIsNoValue
  <2>2. row[r.id].exec \in {None, r.result}
    BY <1>1, <2>1 DEF CommandsInv, ResultTruthful
  <2>3. row[r.id].result \in {"done", "conflict"} => row[r.id].result = r.result
    BY <1>1, <2>1, <2>2 DEF CommandsInv, ResultTruthful, NullIsNoValue, Results
  <2>4. row[r.id].result \in Results \cup {"revoked", None}
    BY <1>1, <2>1 DEF CommandsInv, TypeOK
  <2> QED BY <2>2, <2>3, <2>4 DEF Contradicts, Results
<1> QED BY <1>1, Invariant, PTL

\* pending_commands dispatches no command for the first time once its author
\* lost the right.
THEOREM WithdrawnStaysHere == ASSUME NullIsNoValue PROVE Spec => WithdrawnNeverSent
<1>1. ASSUME NullIsNoValue, CommandsInv, [Next]_vars PROVE SendStep
  <2>1. ASSUME NEW p \in queue, PendingCommands(p) PROVE SendStep
    <3>1. \A c \in Commands : Asked(c) /\ Settled(c).result = None => c \notin withdrawn
      <4> SUFFICES ASSUME NEW c \in Commands, Asked(c), Settled(c).result = None,
                          c \in withdrawn
                   PROVE  FALSE
        OBVIOUS
      <4>1. row[c] \in Rows BY <1>1 DEF CommandsInv, TypeOK, Rows
      <4> QED BY <1>1, <4>1 DEF Settled, Open, Authorized, NullIsNoValue, Results, Rows
    <3> QED BY <2>1, <3>1 DEF PendingCommands, SendStep
  <2>2. CASE sent' = sent
    BY <2>2 DEF SendStep
  <2>3. (\E p \in queue : PendingCommands(p)) \/ sent' = sent
    BY <1>1 DEF Next, vars, central, Request, Withdraw, Poll, Stop, Confirm, Finish, Deliver,
       Project, Execute, ExpireHere, ExpireThere, AcknowledgeCommands, Lose
  <2> QED BY <2>1, <2>2, <2>3
<1>2. ASSUME NullIsNoValue PROVE CommandsInv /\ [Next]_vars => [SendStep]_vars
  BY <1>1
<1> QED BY <1>2, Invariant, PTL DEF Spec, WithdrawnNeverSent
=============================================================================
