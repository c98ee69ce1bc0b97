------------------------------- MODULE MCLive -------------------------------
(***************************************************************************)
(* Liveness of the exchanges between nodes and management: coordinated     *)
(* activation, the metadata projection and remote commands.  A behaviour   *)
(* chooses one of them; the others stay in their initial state.            *)
(***************************************************************************)
EXTENDS MCActivation, Sequences, FiniteSets

CONSTANTS m1, l1, c1, nil

VARIABLES
    component,
    seq, gen, outbox, call, late, answer, ver, view, enabled, edits,
    status, shown, row, withdrawn, asked, calls, receipt, acked, pc, queue, reply, sent, applied

History ==
    INSTANCE Projection
    WITH Messages <- {m1}, Logs <- {l1}, Owner <- [l \in {l1} |-> m1], BatchSize <- 1,
         MaxSeq <- 4, MaxLate <- 1, MaxEdits <- 2

Commanding ==
    INSTANCE RemoteCommands
    WITH Commands <- {c1}, None <- nil, MaxLate <- 1, past <- asked, late <- calls

projection == <<seq, gen, outbox, call, late, answer, ver, view, enabled, edits>>
commands   == <<status, shown, row, withdrawn, asked, calls, receipt, acked, pc, queue, reply, sent,
                applied>>
all        == <<component, vars, projection, commands>>

LiveInit ==
    /\ component \in {"activation", "projection", "commands"}
    /\ Init /\ History!Init /\ Commanding!Init

\* A step of the chosen exchange.
OfActivation(A) ==
    component = "activation" /\ A /\ UNCHANGED <<component, projection, commands>>
OfProjection(A) ==
    component = "projection" /\ A /\ UNCHANGED <<component, vars, commands>>
OfCommands(A) ==
    component = "commands" /\ A /\ UNCHANGED <<component, vars, projection>>

LiveNext ==
    \/ OfActivation(Next)
    \/ OfProjection(History!Next)
    \/ OfCommands(Commanding!Next)

-----------------------------------------------------------------------------
\* The fairness of each module, Fairness, History!Fairness and
\* Commanding!Fairness.  As one exchange moves only, a strong fairness of each can
\* be stated as one, which spares TLC most of the combinations it would try.
Current == {p \in queue : p.current}
LiveFairness ==
    /\ SF_all(\/ OfActivation(Replay(mx1, journal) \/ Fence(mx1, journal))
              \/ OfProjection(\E b \in late \cap call : History!Ingest(b))
              \/ OfCommands(Commanding!Confirm))
    /\ SF_all(\/ OfActivation(Replay(mx2, journal) \/ Fence(mx2, journal))
              \/ OfProjection(History!Acknowledge)
              \/ OfCommands(\E p \in Current : Commanding!AcknowledgeCommands(p)))
    /\ SF_all(OfCommands(\E p \in Current : Commanding!PendingCommands(p)))
    /\ WF_all(OfActivation(\E p \in polls : Exchange(p))) /\ WF_all(OfActivation(Advance))
    /\ \A n \in Nodes : WF_all(OfActivation(Work(n)))
    /\ WF_all(OfProjection(History!ExportMessages)) /\ WF_all(OfProjection(History!ExportLogs))
    /\ WF_all(OfProjection(\E b \in late : History!Ingest(b)))
    /\ WF_all(OfProjection(History!GiveUp))
    /\ WF_all(OfCommands(Commanding!Asked(c1) /\ Commanding!Poll))
    /\ WF_all(OfCommands(Commanding!Finish)) /\ WF_all(OfCommands(Commanding!Stop))
    /\ WF_all(OfCommands(Commanding!Execute(c1)))
    /\ WF_all(OfCommands(\E p \in queue : Commanding!Lose(p)))
    /\ WF_all(OfCommands(Commanding!ExpireHere(c1)))

LiveSpec == LiveInit /\ [][LiveNext]_all /\ LiveFairness

-----------------------------------------------------------------------------
\* Once changes stop and the node is admitted, everything is synchronized.
Converges == History!Converges

\* Every command a person sees as pending is finished, and every execution is
\* recorded by central management.
EveryCommandEnds == Commanding!EveryCommandEnds
=============================================================================
