-------------------------- MODULE MCClusterProofs ---------------------------
(***************************************************************************)
(* The theorems about the components hold of the instances that the suite  *)
(* MCCluster checks: a behaviour of the suite is one of the component it   *)
(* chose.  The validation of a pair and the distribution of policies are   *)
(* proved for every value of their constants, the record p, and hold of    *)
(* the suite's instances too.                                              *)
(***************************************************************************)
EXTENDS MCCluster, TLAPS

-----------------------------------------------------------------------------
(* A behaviour of the suite is one of the component it chose                *)

Chosen(c) == component = c

\* The choice is made once.
LEMMA ChoiceStep ==
    ASSUME NEW c, [Next]_vars PROVE Chosen(c)' <=> Chosen(c)
BY DEF Next, vars, Chosen

LEMMA PairedRuns == Spec /\ Chosen("replication") => Paired!Spec
<1>1. Init /\ Chosen("replication") => Paired!Init BY DEF Init, Chosen
<1>2. Chosen("replication") /\ [Next]_vars => [Paired!Next]_Paired!vars
  BY DEF Next, vars, Paired!vars, Paired!journal, Paired!process, Paired!peer,
         Paired!history, Chosen
<1>3. Chosen("replication") /\ [Next]_vars => Chosen("replication")' BY ChoiceStep
<1> QED BY <1>1, <1>2, <1>3, PTL DEF Spec, Paired!Spec

LEMMA RetriesRun == Spec /\ Chosen("retries") => Retries!Spec
<1>1. Init /\ Chosen("retries") => Retries!Init BY DEF Init, Chosen
<1>2. Chosen("retries") /\ [Next]_vars => [Retries!Next]_Retries!vars
  BY DEF Next, vars, Retries!vars, Retries!journal, Retries!process, Retries!peer,
         Retries!history, Chosen
<1>3. Chosen("retries") /\ [Next]_vars => Chosen("retries")' BY ChoiceStep
<1> QED BY <1>1, <1>2, <1>3, PTL DEF Spec, Retries!Spec

LEMMA HistoryRuns == Spec /\ Chosen("projection") => History!Spec
<1>1. Init /\ Chosen("projection") => History!Init BY DEF Init, Chosen
<1>2. Chosen("projection") /\ [Next]_vars => [History!Next]_History!vars
  BY DEF Next, vars, History!vars, History!node, History!network, History!central, Chosen
<1>3. Chosen("projection") /\ [Next]_vars => Chosen("projection")' BY ChoiceStep
<1> QED BY <1>1, <1>2, <1>3, PTL DEF Spec, History!Spec

LEMMA CommandingRuns == Spec /\ Chosen("commands") => Commanding!Spec
<1>1. Init /\ Chosen("commands") => Commanding!Init BY DEF Init, Chosen
<1>2. Chosen("commands") /\ [Next]_vars => [Commanding!Next]_Commanding!vars
  BY DEF Next, vars, Commanding!vars, Commanding!node, Commanding!client,
         Commanding!central, Chosen
<1>3. Chosen("commands") /\ [Next]_vars => Chosen("commands")' BY ChoiceStep
<1> QED BY <1>1, <1>2, <1>3, PTL DEF Spec, Commanding!Spec

\* The instances satisfy what the theorems ask of the constants.
LEMMA InstancesApart ==
    Paired!IdsApart /\ Retries!IdsApart /\ History!KindsApart /\ Commanding!NullIsNoValue
<1>1. Paired!IdsApart
  BY ValuesApart DEF Paired!IdsApart, Paired!Notices, Paired!Notice, Paired!Syncers
<1>2. Retries!IdsApart
  BY ValuesApart DEF Retries!IdsApart, Retries!Notices, Retries!Notice, Retries!Syncers
<1>3. History!KindsApart
  BY ValuesApart DEF History!KindsApart
<1>4. Commanding!NullIsNoValue
  BY ValuesApart DEF Commanding!NullIsNoValue, Commanding!Operations, Commanding!Results
<1> QED BY <1>1, <1>2, <1>3, <1>4

-----------------------------------------------------------------------------
(* The suite's properties                                                   *)

\* The projection's instance: no change or transcript is lost, nothing deleted is
\* shown again and no batch is refused (metadata.rs and central's ingest_batch).
THEOREM ProjectionProved == Spec => []ProjectionSafe
<1>1. History!Spec => /\ []History!TypeOK /\ []History!NoChangeLost
                      /\ []History!NoTranscriptLost /\ []History!DeletedStaysDeleted
                      /\ []History!NeverRefused
  BY InstancesApart, History!ProjectionTyped, History!ChangesReachCentral,
     History!TranscriptsReachCentral, History!DeletionsFinal, History!BatchesAccepted
<1>2. ~Chosen("projection") /\ [Next]_vars => ~Chosen("projection")' BY ChoiceStep
<1>3. ~Chosen("projection") => ProjectionSafe BY DEF ProjectionSafe, Chosen
<1>4. History!TypeOK /\ History!NoChangeLost /\ History!NoTranscriptLost
        /\ History!DeletedStaysDeleted /\ History!NeverRefused => ProjectionSafe
  BY DEF ProjectionSafe
<1> QED BY <1>1, <1>2, <1>3, <1>4, HistoryRuns, PTL DEF Spec

\* The remote commands' instance: decided once, truthful records, no poll refused,
\* nothing withdrawn dispatched.
THEOREM RemoteCommandsProved == Spec => RemoteCommandsSafe
<1>1. Commanding!Spec => /\ []Commanding!TypeOK /\ []Commanding!DecidedOnce
                         /\ []Commanding!ResultTruthful /\ []Commanding!NeverContradicts
                         /\ [][Commanding!SendStep]_Commanding!vars
  BY InstancesApart, Commanding!CommandsTyped, Commanding!QueueDecidedOnce,
     Commanding!RecordsTruthful, Commanding!NoPollRefused, Commanding!WithdrawnStaysHere
     DEF Commanding!WithdrawnNeverSent
<1>2. ~Chosen("commands") /\ [Next]_vars => ~Chosen("commands")' BY ChoiceStep
<1>3. ~Chosen("commands") => RemoteCommandsInv BY DEF RemoteCommandsInv, Chosen
<1>4. ~Chosen("commands") => RemoteCommandsStep BY DEF RemoteCommandsStep, Chosen
<1>5. Commanding!TypeOK /\ Commanding!DecidedOnce /\ Commanding!ResultTruthful
        /\ Commanding!NeverContradicts => RemoteCommandsInv
  BY DEF RemoteCommandsInv
<1>6. Chosen("commands") /\ [Next]_vars /\ [Commanding!SendStep]_Commanding!vars
        => [RemoteCommandsStep]_vars
  BY DEF Next, vars, Commanding!vars, Commanding!node, Commanding!client,
         Commanding!central, Chosen, RemoteCommandsStep
<1>7. Chosen("commands") /\ [Next]_vars => Chosen("commands")' BY ChoiceStep
<1> QED BY <1>1, <1>2, <1>3, <1>4, <1>5, <1>6, <1>7, CommandingRuns, PTL
        DEF Spec, RemoteCommandsSafe

\* Both instances of paired replication: accepted mail and reports of failures
\* survive the owner, nothing is sent again, the peer only goes forward.
THEOREM ReplicationProved == Spec => ReplicationSafe
<1>1. Paired!Spec =>
        /\ []Paired!TypeOK /\ []Paired!AcceptedRestorable /\ []Paired!JournalComplete
        /\ []Paired!NoBlindResend /\ []Paired!NoticeSurvives /\ []Paired!RetiredIsResolved
        /\ [][Paired!MonotoneStep]_Paired!vars
  BY InstancesApart, Paired!ReplicationTyped, Paired!AcceptedMailRestorable,
     Paired!PeerJournalComplete, Paired!RestoreNeverResends, Paired!ReportsSurvive,
     Paired!RetiredMailResolved, Paired!PeerGoesForward
     DEF Paired!PeerMonotone
<1>2. Retries!Spec =>
        /\ []Retries!TypeOK /\ []Retries!AcceptedRestorable /\ []Retries!JournalComplete
        /\ []Retries!NoBlindResend /\ []Retries!NoticeSurvives /\ []Retries!RetiredIsResolved
        /\ [][Retries!MonotoneStep]_Retries!vars
  BY InstancesApart, Retries!ReplicationTyped, Retries!AcceptedMailRestorable,
     Retries!PeerJournalComplete, Retries!RestoreNeverResends, Retries!ReportsSurvive,
     Retries!RetiredMailResolved, Retries!PeerGoesForward
     DEF Retries!PeerMonotone
<1>3. Chosen("replication") /\ Paired!TypeOK /\ Paired!AcceptedRestorable /\ Paired!JournalComplete
        /\ Paired!NoBlindResend /\ Paired!NoticeSurvives /\ Paired!RetiredIsResolved => ReplicationInv
  BY DEF ReplicationInv, Chosen
<1>4. Chosen("replication") /\ [Next]_vars /\ [Paired!MonotoneStep]_Paired!vars => [ReplicationStep]_vars
  BY DEF Next, vars, Paired!vars, Paired!journal, Paired!process, Paired!peer, Paired!history,
         Chosen, ReplicationStep
<1>5. [Next]_vars => (Chosen("replication")' <=> Chosen("replication")) BY ChoiceStep
<1>6. Chosen("retries") /\ Retries!TypeOK /\ Retries!AcceptedRestorable /\ Retries!JournalComplete
        /\ Retries!NoBlindResend /\ Retries!NoticeSurvives /\ Retries!RetiredIsResolved => ReplicationInv
  BY DEF ReplicationInv, Chosen
<1>7. Chosen("retries") /\ [Next]_vars /\ [Retries!MonotoneStep]_Retries!vars => [ReplicationStep]_vars
  BY DEF Next, vars, Retries!vars, Retries!journal, Retries!process, Retries!peer, Retries!history,
         Chosen, ReplicationStep
<1>8. [Next]_vars => (Chosen("retries")' <=> Chosen("retries")) BY ChoiceStep
<1>9. ~Chosen("replication") /\ ~Chosen("retries") => ReplicationInv /\ ReplicationStep
  BY DEF ReplicationInv, ReplicationStep, Chosen
<1> QED
  BY <1>1, <1>2, <1>3, <1>4, <1>5, <1>6, <1>7, <1>8, <1>9, PairedRuns, RetriesRun, PTL
     DEF Spec, ReplicationSafe

-----------------------------------------------------------------------------
(* The validation of a pair before maintenance                              *)

\* What the theorems ask of the constants: a worker that is asked probes its peer for
\* both, and only the worker asks for the policy then.
PairKept(p) ==
    /\ p.fresh \in Nat /\ p.rpc \in Nat /\ p.coordinator # p.worker
    /\ p.probes \subseteq {p.coordinator, p.worker} \X {"replica", "policy"}
    /\ p.worker \in p.asked =>
        /\ {<<p.worker, "replica">>, <<p.worker, "policy">>} \subseteq p.probes
        /\ <<p.coordinator, "policy">> \notin p.probes

PairOps(p) == UNION {p.operations[n] : n \in {p.coordinator, p.worker}}
PairAges(p) == -1..(p.fresh + p.rpc + 1)
Processes(p) == [op : PairOps(p), live : BOOLEAN, replica : PairAges(p), policy : PairAges(p)]
Requests(p) ==
    [op : PairOps(p), at : {"sent", "serving", "replied"}, sent : 0..(p.rpc + 1), began : Nat]

PairTypes(p) ==
    /\ central \in BOOLEAN /\ unsettled \in PairAges(p) /\ (central => unsettled = -1)
    /\ proc \in [MaintenanceCheck(p)!Nodes -> {MaintenanceCheck(p)!Off} \cup Processes(p)]
    /\ req \in [p.probes -> {MaintenanceCheck(p)!None} \cup Requests(p)]
    /\ health \in [MaintenanceCheck(p)!Nodes ->
                     {MaintenanceCheck(p)!None} \cup [local : BOOLEAN, age : 0..p.rpc]]
    /\ proved \in [MaintenanceCheck(p)!Nodes ->
                     [op : {0} \cup PairOps(p), age : 0..(p.fresh + p.rpc + 1)]]

\* A request that its peer serves or served is backed by that check of the peer; an
\* answer about the policy, by the authority.
RequestBacked(p, q) ==
    req[q] # MaintenanceCheck(p)!None =>
        /\ req[q].at # "sent" /\ req[q].sent <= p.rpc =>
            /\ proved[MaintenanceCheck(p)!Peer(q[1])].op = req[q].op
            /\ proved[MaintenanceCheck(p)!Peer(q[1])].age <= req[q].sent
        /\ req[q].at = "replied" /\ q[2] = "policy" /\ req[q].sent <= p.rpc =>
            unsettled <= req[q].sent
        /\ \A r \in p.probes : r[1] = q[1] /\ req[r] # MaintenanceCheck(p)!None => req[r].op = req[q].op

\* So is what a process observed, for as long as it counts, and no request of an
\* earlier operation is left to spoil it.
ObservedBacked(p, n) ==
    MaintenanceCheck(p)!On(n) =>
        /\ proc[n].replica # -1 =>
            \A q \in MaintenanceCheck(p)!ProbesOf(n) :
                req[q] # MaintenanceCheck(p)!None => req[q].op = proc[n].op
        /\ proc[n].replica # -1 /\ proc[n].replica <= p.fresh =>
            /\ proved[MaintenanceCheck(p)!Peer(n)].op = proc[n].op
            /\ proved[MaintenanceCheck(p)!Peer(n)].age <= proc[n].replica + p.rpc
        /\ proc[n].policy # -1 /\ proc[n].policy <= p.fresh =>
            unsettled <= proc[n].policy + p.rpc

LocalBacked(p) ==
    LET h == health[p.coordinator] IN
    h # MaintenanceCheck(p)!None /\ h.local => unsettled <= h.age

\* The rounds of a worker: between two of them it has both observations or neither.
RoundsKept(p) ==
    LET x == proc[p.worker]
        r == round[p.worker] IN
    /\ round = [n \in MaintenanceCheck(p)!Nodes |-> round[n]]
    /\ ~MaintenanceCheck(p)!On(p.worker) => r = << >>
    /\ MaintenanceCheck(p)!On(p.worker) /\ p.worker \in p.asked =>
        /\ r = << >> => (x.replica = -1 <=> x.policy = -1)
        /\ r # << >> =>
            /\ r \in [{"replica", "policy"} -> {"wait", "ok", "failed"}]
            /\ r["replica"] = "ok" => x.replica # -1
            /\ r["policy"] = "ok" => x.policy # -1

PairInv(p) ==
    /\ PairTypes(p)
    /\ \A q \in p.probes : RequestBacked(p, q)
    /\ \A n \in MaintenanceCheck(p)!Nodes : ObservedBacked(p, n)
    /\ LocalBacked(p) /\ RoundsKept(p)

LEMMA PairFacts ==
    ASSUME NEW p, PairKept(p), PairTypes(p)
    PROVE  /\ MaintenanceCheck(p)!Nodes = {p.coordinator, p.worker}
           /\ \A n \in MaintenanceCheck(p)!Nodes :
                /\ MaintenanceCheck(p)!On(n) => proc[n] \in Processes(p)
                /\ MaintenanceCheck(p)!Peer(n) \in MaintenanceCheck(p)!Nodes
                /\ MaintenanceCheck(p)!Peer(n) # n
                /\ proved[n].age \in Int /\ proved[n].age <= p.fresh + p.rpc + 1
           /\ \A q \in p.probes :
                /\ req[q] # MaintenanceCheck(p)!None => req[q] \in Requests(p)
                /\ q = <<q[1], q[2]>> /\ q[1] \in MaintenanceCheck(p)!Nodes /\ q[2] \in {"replica", "policy"}
           /\ unsettled \in Int
           /\ p.fresh \in Nat /\ p.rpc \in Nat
           /\ p.coordinator \in MaintenanceCheck(p)!Nodes /\ p.worker \in MaintenanceCheck(p)!Nodes
<1>1. MaintenanceCheck(p)!Nodes = {p.coordinator, p.worker} BY DEF MaintenanceCheck!Nodes
<1>2. \A q \in p.probes : q = <<q[1], q[2]>> /\ q[1] \in MaintenanceCheck(p)!Nodes /\ q[2] \in {"replica", "policy"}
  BY <1>1 DEF PairKept
<1>3. \A n \in MaintenanceCheck(p)!Nodes :
        MaintenanceCheck(p)!Peer(n) \in MaintenanceCheck(p)!Nodes /\ MaintenanceCheck(p)!Peer(n) # n
  BY <1>1 DEF PairKept, MaintenanceCheck!Peer
<1>4. \A n \in MaintenanceCheck(p)!Nodes : MaintenanceCheck(p)!On(n) => proc[n] \in Processes(p)
  BY DEF PairTypes, MaintenanceCheck!On
<1>5. p.fresh \in Nat /\ p.rpc \in Nat BY DEF PairKept
<1>6. \A n \in MaintenanceCheck(p)!Nodes : proved[n].age \in Int /\ proved[n].age <= p.fresh + p.rpc + 1
  BY <1>5 DEF PairTypes
<1>7. \A q \in p.probes : req[q] # MaintenanceCheck(p)!None => req[q] \in Requests(p) BY DEF PairTypes
<1>8. unsettled \in Int BY <1>5 DEF PairTypes, PairAges
<1> QED BY <1>1, <1>2, <1>3, <1>4, <1>5, <1>6, <1>7, <1>8

LEMMA PairImplies ==
    ASSUME NEW p, PairKept(p), PairInv(p)
    PROVE  /\ MaintenanceCheck(p)!ReadyMeansPeerReady /\ MaintenanceCheck(p)!ReadyMeansPolicySettled
           /\ MaintenanceCheck(p)!FailureClearsBoth
<1>0. PairTypes(p) BY DEF PairInv
<1>1. ASSUME NEW n \in MaintenanceCheck(p)!Nodes, MaintenanceCheck(p)!Ready(n)
      PROVE  /\ proved[MaintenanceCheck(p)!Peer(n)].op = proc[n].op
             /\ proved[MaintenanceCheck(p)!Peer(n)].age <= p.fresh + p.rpc
             /\ unsettled <= p.fresh + p.rpc
  <2>1. /\ MaintenanceCheck(p)!On(n) /\ proc[n].replica # -1 /\ proc[n].replica <= p.fresh
        /\ proc[n].policy # -1 /\ proc[n].policy <= p.fresh
    BY <1>1 DEF MaintenanceCheck!Ready, MaintenanceCheck!Live, MaintenanceCheck!IsFresh, MaintenanceCheck!Never
  <2>2. proc[n].replica \in Int /\ proc[n].policy \in Int
    BY <2>1, <1>0, PairFacts DEF Processes, PairAges
  <2>3. ObservedBacked(p, n) BY DEF PairInv
  <2>4. /\ proved[MaintenanceCheck(p)!Peer(n)].age \in Int /\ unsettled \in Int /\ p.fresh \in Nat /\ p.rpc \in Nat
    BY <1>0, PairFacts
  <2> QED BY <2>1, <2>2, <2>3, <2>4 DEF ObservedBacked
<1>2. MaintenanceCheck(p)!ReadyMeansPeerReady
  BY <1>1 DEF MaintenanceCheck!ReadyMeansPeerReady
<1>3. ASSUME MaintenanceCheck(p)!Ready(p.coordinator) PROVE unsettled <= p.rpc
  <2>1. PICK h : h = health[p.coordinator] OBVIOUS
  <2>2. h # MaintenanceCheck(p)!None /\ h.local BY <1>3, <2>1 DEF MaintenanceCheck!Ready
  <2>3. h.age \in 0..p.rpc BY <2>1, <2>2, <1>0, PairFacts DEF PairTypes
  <2>4. unsettled <= h.age BY <2>1, <2>2 DEF PairInv, LocalBacked
  <2>5. unsettled \in Int /\ p.rpc \in Nat BY <1>0, PairFacts
  <2> QED BY <2>3, <2>4, <2>5
<1>4. MaintenanceCheck(p)!ReadyMeansPolicySettled
  BY <1>1, <1>3 DEF MaintenanceCheck!ReadyMeansPolicySettled
<1>5. MaintenanceCheck(p)!FailureClearsBoth
  BY DEF PairInv, RoundsKept, MaintenanceCheck!FailureClearsBoth, MaintenanceCheck!Never
<1> QED BY <1>2, <1>4, <1>5

LEMMA PairInit ==
    ASSUME NEW p, PairKept(p), MaintenanceCheck(p)!Init PROVE PairInv(p)
<1> USE DEF MaintenanceCheck!Init
<1>1. p.fresh \in Nat /\ p.rpc \in Nat BY DEF PairKept
<1>2. PairTypes(p)
  <2>1. /\ MaintenanceCheck(p)!Never = -1 /\ MaintenanceCheck(p)!Old = p.fresh + p.rpc + 1
    BY DEF MaintenanceCheck!Never, MaintenanceCheck!Old
  <2>2. -1 \in PairAges(p) /\ p.fresh + p.rpc + 1 \in 0..(p.fresh + p.rpc + 1) BY <1>1 DEF PairAges
  <2>3. [op |-> 0, age |-> p.fresh + p.rpc + 1] \in [op : {0} \cup PairOps(p), age : 0..(p.fresh + p.rpc + 1)]
    BY <2>2
  <2> QED BY <2>1, <2>2, <2>3 DEF PairTypes
<1>3. ASSUME NEW q \in p.probes PROVE RequestBacked(p, q) BY DEF RequestBacked
<1>4. ASSUME NEW n \in MaintenanceCheck(p)!Nodes PROVE ObservedBacked(p, n)
  BY DEF ObservedBacked, MaintenanceCheck!On
<1>5. p.coordinator \in MaintenanceCheck(p)!Nodes /\ p.worker \in MaintenanceCheck(p)!Nodes
  BY DEF MaintenanceCheck!Nodes
<1>6. LocalBacked(p) BY <1>5 DEF LocalBacked
<1>7. RoundsKept(p) BY <1>5 DEF RoundsKept, MaintenanceCheck!On
<1> QED BY <1>2, <1>3, <1>4, <1>6, <1>7 DEF PairInv

LEMMA OffApart == ASSUME NEW p, NEW x \in Processes(p) PROVE x # MaintenanceCheck(p)!Off
<1>1. DOMAIN x = {"op", "live", "replica", "policy"} BY DEF Processes
<1>2. DOMAIN [op |-> 0] = {"op"} OBVIOUS
<1>3. "live" \notin {"op"} OBVIOUS
<1> QED BY <1>1, <1>2, <1>3 DEF MaintenanceCheck!Off

\* Requests that are gone and observations that are cleared back nothing.
LEMMA PairFewer ==
    ASSUME NEW p, PairKept(p), PairInv(p), UNCHANGED <<proved, unsettled>>,
           \A q \in p.probes : req'[q] \in {MaintenanceCheck(p)!None, req[q]},
           \A n \in MaintenanceCheck(p)!Nodes : proc'[n] # MaintenanceCheck(p)!Off =>
               \/ proc'[n].replica = -1 /\ proc'[n].policy = -1
               \/ /\ proc[n] # MaintenanceCheck(p)!Off /\ proc'[n].op = proc[n].op
                  /\ proc'[n].replica \in {-1, proc[n].replica} /\ proc'[n].policy \in {-1, proc[n].policy}
    PROVE  /\ \A q \in p.probes : RequestBacked(p, q)'
           /\ \A n \in MaintenanceCheck(p)!Nodes : ObservedBacked(p, n)'
<1>1. ASSUME NEW q \in p.probes PROVE RequestBacked(p, q)'
  BY DEF PairInv, RequestBacked
<1>2. ASSUME NEW n \in MaintenanceCheck(p)!Nodes PROVE ObservedBacked(p, n)'
  <2>1. ObservedBacked(p, n) BY DEF PairInv
  <2>2. \A q \in MaintenanceCheck(p)!ProbesOf(n) : q \in p.probes BY DEF MaintenanceCheck!ProbesOf
  <2> QED BY <2>1, <2>2 DEF ObservedBacked, MaintenanceCheck!On
<1> QED BY <1>1, <1>2

LEMMA PairStartKeeps ==
    ASSUME NEW p, PairKept(p), PairInv(p), NEW n \in MaintenanceCheck(p)!Nodes,
           NEW op \in p.operations[n], MaintenanceCheck(p)!Start(n, op)
    PROVE  PairInv(p)'
<1>0. PairTypes(p) /\ RoundsKept(p) /\ LocalBacked(p) BY DEF PairInv
<1>1. /\ proc[n] = MaintenanceCheck(p)!Off
      /\ proc' = [proc EXCEPT ![n] = [op |-> op, live |-> TRUE, replica |-> -1, policy |-> -1]]
      /\ UNCHANGED <<central, unsettled, round, req, health, proved>>
  BY DEF MaintenanceCheck!Start, MaintenanceCheck!On, MaintenanceCheck!Never
<1>2. /\ proc'[n] = [op |-> op, live |-> TRUE, replica |-> -1, policy |-> -1]
      /\ \A m \in MaintenanceCheck(p)!Nodes : m # n => proc'[m] = proc[m]
  BY <1>0, <1>1 DEF PairTypes
<1>3. PairTypes(p)'
  <2>1. op \in PairOps(p) /\ -1 \in PairAges(p) BY <1>0, PairFacts DEF PairOps, PairAges
  <2>2. [op |-> op, live |-> TRUE, replica |-> -1, policy |-> -1] \in Processes(p) BY <2>1 DEF Processes
  <2> QED BY <1>0, <1>1, <2>2 DEF PairTypes
<1>4. /\ \A q \in p.probes : RequestBacked(p, q)'
      /\ \A m \in MaintenanceCheck(p)!Nodes : ObservedBacked(p, m)'
  BY <1>1, <1>2, PairFewer
<1>5. LocalBacked(p)' BY <1>0, <1>1 DEF LocalBacked
<1>6. RoundsKept(p)'
  <2>1. CASE n = p.worker BY <2>1, <1>0, <1>1, <1>2 DEF RoundsKept, MaintenanceCheck!On
  <2>2. CASE n # p.worker
    <3>1. proc'[p.worker] = proc[p.worker] BY <2>2, <1>0, <1>2, PairFacts
    <3> QED BY <3>1, <1>0, <1>1 DEF RoundsKept, MaintenanceCheck!On
  <2> QED BY <2>1, <2>2
<1> QED BY <1>3, <1>4, <1>5, <1>6 DEF PairInv

LEMMA PairExpireKeeps ==
    ASSUME NEW p, PairKept(p), PairInv(p), NEW n \in MaintenanceCheck(p)!Nodes,
           MaintenanceCheck(p)!Expire(n)
    PROVE  PairInv(p)'
<1>0. PairTypes(p) /\ RoundsKept(p) /\ LocalBacked(p) BY DEF PairInv
<1>1. /\ proc[n] # MaintenanceCheck(p)!Off /\ proc[n] \in Processes(p)
      /\ proc' = [proc EXCEPT ![n].live = FALSE]
      /\ UNCHANGED <<central, unsettled, round, req, health, proved>>
  BY <1>0, PairFacts DEF MaintenanceCheck!Expire, MaintenanceCheck!Live, MaintenanceCheck!On
<1>2. /\ proc'[n] = [proc[n] EXCEPT !.live = FALSE]
      /\ \A m \in MaintenanceCheck(p)!Nodes : m # n => proc'[m] = proc[m]
  BY <1>0, <1>1 DEF PairTypes
<1>3. /\ proc'[n] \in Processes(p) /\ proc'[n].op = proc[n].op
      /\ proc'[n].replica = proc[n].replica /\ proc'[n].policy = proc[n].policy
  <2>1. PICK x \in Processes(p) : x = proc[n] BY <1>1
  <2>2. PICK y : y = [x EXCEPT !.live = FALSE] OBVIOUS
  <2>3. y \in Processes(p) /\ y.op = x.op /\ y.replica = x.replica /\ y.policy = x.policy
    BY <2>2 DEF Processes
  <2> QED BY <2>1, <2>2, <2>3, <1>2
<1>4. PairTypes(p)' BY <1>0, <1>1, <1>3 DEF PairTypes
<1>5. /\ \A q \in p.probes : RequestBacked(p, q)'
      /\ \A m \in MaintenanceCheck(p)!Nodes : ObservedBacked(p, m)'
  BY <1>1, <1>2, <1>3, PairFewer
<1>6. LocalBacked(p)' BY <1>0, <1>1 DEF LocalBacked
<1>7. RoundsKept(p)'
  <2>1. CASE n = p.worker BY <2>1, <1>0, <1>1, <1>3, OffApart DEF RoundsKept, MaintenanceCheck!On
  <2>2. CASE n # p.worker
    <3>1. proc'[p.worker] = proc[p.worker] BY <2>2, <1>0, <1>2, PairFacts
    <3> QED BY <3>1, <1>0, <1>1 DEF RoundsKept, MaintenanceCheck!On
  <2> QED BY <2>1, <2>2
<1> QED BY <1>4, <1>5, <1>6, <1>7 DEF PairInv

LEMMA PairStopKeeps ==
    ASSUME NEW p, PairKept(p), PairInv(p), NEW n \in MaintenanceCheck(p)!Nodes,
           MaintenanceCheck(p)!Stop(n)
    PROVE  PairInv(p)'
<1>0. PairTypes(p) /\ RoundsKept(p) /\ LocalBacked(p) BY DEF PairInv
<1>1. /\ proc' = [proc EXCEPT ![n] = MaintenanceCheck(p)!Off]
      /\ round' = [round EXCEPT ![n] = << >>]
      /\ health' = [health EXCEPT ![n] = MaintenanceCheck(p)!None]
      /\ \A q \in p.probes : req'[q] \in {MaintenanceCheck(p)!None, req[q]}
      /\ DOMAIN req' = p.probes /\ req' = [q \in p.probes |-> req'[q]]
      /\ UNCHANGED <<central, unsettled, proved>>
  BY DEF MaintenanceCheck!Stop
<1>2. /\ proc'[n] = MaintenanceCheck(p)!Off
      /\ \A m \in MaintenanceCheck(p)!Nodes : m # n => proc'[m] = proc[m]
  BY <1>0, <1>1 DEF PairTypes
<1>4. PairTypes(p)'
  <2>1. req' \in [p.probes -> {MaintenanceCheck(p)!None} \cup Requests(p)]
    BY <1>0, <1>1 DEF PairTypes
  <2>2. proc' \in [MaintenanceCheck(p)!Nodes -> {MaintenanceCheck(p)!Off} \cup Processes(p)]
    BY <1>0, <1>1 DEF PairTypes
  <2>3. health' \in [MaintenanceCheck(p)!Nodes ->
                     {MaintenanceCheck(p)!None} \cup [local : BOOLEAN, age : 0..p.rpc]]
    BY <1>0, <1>1 DEF PairTypes
  <2> QED BY <1>0, <1>1, <2>1, <2>2, <2>3 DEF PairTypes
<1>5. /\ \A q \in p.probes : RequestBacked(p, q)'
      /\ \A m \in MaintenanceCheck(p)!Nodes : ObservedBacked(p, m)'
  <2>1. \A m \in MaintenanceCheck(p)!Nodes : proc'[m] # MaintenanceCheck(p)!Off =>
          proc[m] # MaintenanceCheck(p)!Off /\ proc'[m] = proc[m]
    BY <1>2
  <2> QED BY <1>1, <2>1, PairFewer
<1>6. LocalBacked(p)'
  <2>1. health'[p.coordinator] \in {MaintenanceCheck(p)!None, health[p.coordinator]}
    BY <1>0, <1>1, PairFacts DEF PairTypes
  <2> QED BY <2>1, <1>0, <1>1 DEF LocalBacked
<1>7. RoundsKept(p)'
  <2>0. /\ round' = [m \in MaintenanceCheck(p)!Nodes |-> round'[m]] /\ round'[n] = << >>
        /\ \A m \in MaintenanceCheck(p)!Nodes : m # n => round'[m] = round[m]
    BY <1>0, <1>1 DEF RoundsKept
  <2>1. CASE n = p.worker BY <2>0, <2>1, <1>0, <1>2 DEF RoundsKept, MaintenanceCheck!On
  <2>2. CASE n # p.worker
    <3>1. proc'[p.worker] = proc[p.worker] /\ round'[p.worker] = round[p.worker]
      BY <2>0, <2>2, <1>0, <1>2, PairFacts
    <3> QED BY <2>0, <3>1, <1>0, <1>1 DEF RoundsKept, MaintenanceCheck!On
  <2> QED BY <2>1, <2>2
<1> QED BY <1>4, <1>5, <1>6, <1>7 DEF PairInv

\* Two observations that are cleared are cleared together.
LEMMA ClearedKeeps ==
    ASSUME NEW p, PairKept(p), PairInv(p), NEW n \in MaintenanceCheck(p)!Nodes,
           MaintenanceCheck(p)!On(n), proc' = MaintenanceCheck(p)!Cleared(n)
    PROVE  /\ proc' \in [MaintenanceCheck(p)!Nodes -> {MaintenanceCheck(p)!Off} \cup Processes(p)]
           /\ proc'[n] \in Processes(p) /\ proc'[n].op = proc[n].op
           /\ proc'[n].replica = -1 /\ proc'[n].policy = -1
           /\ \A m \in MaintenanceCheck(p)!Nodes : m # n => proc'[m] = proc[m]
<1>0. PairTypes(p) /\ proc[n] \in Processes(p) BY PairFacts DEF PairInv
<1>1. PICK z : z = -1 OBVIOUS
<1>2. proc' = [proc EXCEPT ![n] = [proc[n] EXCEPT !.replica = z, !.policy = z]]
  BY <1>0, <1>1 DEF MaintenanceCheck!Cleared, MaintenanceCheck!Never, PairTypes
<1>3. z \in PairAges(p) BY <1>1, <1>0, PairFacts DEF PairAges
<1>4. /\ proc'[n] = [proc[n] EXCEPT !.replica = z, !.policy = z]
      /\ \A m \in MaintenanceCheck(p)!Nodes : m # n => proc'[m] = proc[m]
  BY <1>0, <1>2 DEF PairTypes
<1>5. proc'[n] \in Processes(p) /\ proc'[n].op = proc[n].op /\ proc'[n].replica = z /\ proc'[n].policy = z
  BY <1>0, <1>3, <1>4 DEF Processes
<1> QED BY <1>0, <1>1, <1>2, <1>4, <1>5 DEF PairTypes

\* The worker's rounds concern its own process and its own round alone.
LEMMA RoundsStay ==
    ASSUME NEW p, RoundsKept(p), proc'[p.worker] = proc[p.worker], round' = round
    PROVE  RoundsKept(p)'
BY DEF RoundsKept, MaintenanceCheck!On

LEMMA PairObserveKeeps ==
    ASSUME NEW p, PairKept(p), PairInv(p), NEW n \in MaintenanceCheck(p)!Nodes,
           MaintenanceCheck(p)!Observe(n)
    PROVE  PairInv(p)'
<1>0. PairTypes(p) /\ RoundsKept(p) /\ LocalBacked(p) BY DEF PairInv
<1>1. /\ MaintenanceCheck(p)!On(n) /\ proc[n] \in Processes(p) /\ round[n] = << >>
      /\ UNCHANGED <<central, unsettled, health, proved>>
  BY <1>0, PairFacts DEF MaintenanceCheck!Observe, MaintenanceCheck!Live
<1>2. LocalBacked(p)' BY <1>0, <1>1 DEF LocalBacked
<1>3. CASE MaintenanceCheck(p)!Local(n)
  <2>1. /\ UNCHANGED proc
        /\ round' = [round EXCEPT ![n] = [k \in {q[2] : q \in MaintenanceCheck(p)!ProbesOf(n)} |-> "wait"]]
        /\ req' = [q \in p.probes |->
             IF q \in MaintenanceCheck(p)!ProbesOf(n) THEN [op |-> proc[n].op, at |-> "sent", sent |-> 0, began |-> 0]
             ELSE req[q]]
    BY <1>3 DEF MaintenanceCheck!Observe
  <2>2. \A q \in p.probes : q \in MaintenanceCheck(p)!ProbesOf(n) <=> q[1] = n
    BY DEF MaintenanceCheck!ProbesOf
  <2>3. PICK z \in Requests(p) : z.op = proc[n].op /\ z.at = "sent" /\ z = [op |-> proc[n].op, at |-> "sent", sent |-> 0, began |-> 0]
    <3>1. proc[n].op \in PairOps(p) /\ 0 \in 0..(p.rpc + 1) BY <1>0, <1>1, PairFacts DEF Processes
    <3> QED BY <3>1 DEF Requests
  <2>4. \A q \in p.probes : req'[q] = IF q[1] = n THEN z ELSE req[q] BY <2>1, <2>2, <2>3
  <2>5. PairTypes(p)'
    <3>1. req' \in [p.probes -> {MaintenanceCheck(p)!None} \cup Requests(p)]
      BY <1>0, <2>1, <2>3, <2>4 DEF PairTypes
    <3> QED BY <1>0, <1>1, <2>1, <3>1 DEF PairTypes
  <2>6. ASSUME NEW q \in p.probes PROVE RequestBacked(p, q)'
    <3>1. CASE q[1] = n BY <3>1, <2>3, <2>4 DEF RequestBacked
    <3>2. CASE q[1] # n
      <4>1. req'[q] = req[q] /\ \A r \in p.probes : r[1] = q[1] => req'[r] = req[r] BY <3>2, <2>4
      <4> QED BY <4>1, <1>1 DEF PairInv, RequestBacked
    <3> QED BY <3>1, <3>2
  <2>7. ASSUME NEW m \in MaintenanceCheck(p)!Nodes PROVE ObservedBacked(p, m)'
    <3>1. ObservedBacked(p, m) BY DEF PairInv
    <3>2. \A q \in MaintenanceCheck(p)!ProbesOf(m) : q \in p.probes /\ q[1] = m BY DEF MaintenanceCheck!ProbesOf
    <3>3. CASE m = n BY <3>1, <3>2, <3>3, <1>1, <2>1, <2>3, <2>4 DEF ObservedBacked, MaintenanceCheck!On
    <3>4. CASE m # n BY <3>1, <3>2, <3>4, <1>1, <2>1, <2>4 DEF ObservedBacked, MaintenanceCheck!On
    <3> QED BY <3>3, <3>4
  <2>8. RoundsKept(p)'
    <3>1. /\ round' = [m \in MaintenanceCheck(p)!Nodes |-> round'[m]]
          /\ round'[n] = [k \in {q[2] : q \in MaintenanceCheck(p)!ProbesOf(n)} |-> "wait"]
          /\ \A m \in MaintenanceCheck(p)!Nodes : m # n => round'[m] = round[m]
      BY <1>0, <2>1 DEF RoundsKept
    <3>2. CASE n # p.worker
      <4>1. round'[p.worker] = round[p.worker] BY <3>1, <3>2, <1>0, PairFacts
      <4> QED BY <4>1, <3>1, <2>1, <1>0 DEF RoundsKept, MaintenanceCheck!On
    <3>3. CASE n = p.worker
      <4>1. ASSUME p.worker \in p.asked PROVE round'[n] = [k \in {"replica", "policy"} |-> "wait"]
        <5>1. <<p.worker, "replica">> \in p.probes /\ <<p.worker, "policy">> \in p.probes
          BY <4>1 DEF PairKept
        <5>2. \A q \in MaintenanceCheck(p)!ProbesOf(n) : q[2] \in {"replica", "policy"}
          BY <1>0, PairFacts DEF MaintenanceCheck!ProbesOf
        <5>3. <<n, "replica">> \in MaintenanceCheck(p)!ProbesOf(n) /\ <<n, "policy">> \in MaintenanceCheck(p)!ProbesOf(n)
          BY <5>1, <3>3 DEF MaintenanceCheck!ProbesOf
        <5>4. {q[2] : q \in MaintenanceCheck(p)!ProbesOf(n)} = {"replica", "policy"} BY <5>2, <5>3
        <5> QED BY <5>4, <3>1
      <4>2. ASSUME p.worker \in p.asked
            PROVE  /\ round'[n] \in [{"replica", "policy"} -> {"wait", "ok", "failed"}]
                   /\ round'[n]["replica"] = "wait" /\ round'[n]["policy"] = "wait"
                   /\ round'[n] # << >>
        <5>1. PICK r : r = [k \in {"replica", "policy"} |-> "wait"] OBVIOUS
        <5>2. DOMAIN r = {"replica", "policy"} /\ DOMAIN << >> = {} BY <5>1
        <5>3. r # << >> BY <5>2
        <5>4. /\ r \in [{"replica", "policy"} -> {"wait", "ok", "failed"}]
              /\ r["replica"] = "wait" /\ r["policy"] = "wait"
          BY <5>1
        <5> QED BY <5>1, <5>3, <5>4, <4>1, <4>2
      <4> QED BY <4>2, <3>1, <3>3, <2>1, <1>1 DEF RoundsKept, MaintenanceCheck!On
    <3> QED BY <3>2, <3>3
  <2> QED BY <1>2, <2>5, <2>6, <2>7, <2>8 DEF PairInv
<1>4. CASE ~MaintenanceCheck(p)!Local(n)
  <2>1. proc' = MaintenanceCheck(p)!Cleared(n) /\ UNCHANGED <<round, req>>
    BY <1>4 DEF MaintenanceCheck!Observe
  <2>2. /\ proc' \in [MaintenanceCheck(p)!Nodes -> {MaintenanceCheck(p)!Off} \cup Processes(p)]
        /\ proc'[n] \in Processes(p) /\ proc'[n].replica = -1 /\ proc'[n].policy = -1
        /\ \A m \in MaintenanceCheck(p)!Nodes : m # n => proc'[m] = proc[m]
    BY <1>1, <2>1, ClearedKeeps
  <2>3. PairTypes(p)' BY <1>0, <1>1, <2>1, <2>2 DEF PairTypes
  <2>4. /\ \A q \in p.probes : RequestBacked(p, q)'
        /\ \A m \in MaintenanceCheck(p)!Nodes : ObservedBacked(p, m)'
    BY <1>1, <2>1, <2>2, PairFewer
  <2>5. RoundsKept(p)'
    <3>1. CASE n = p.worker BY <3>1, <1>0, <1>1, <2>1, <2>2, OffApart DEF RoundsKept, MaintenanceCheck!On
    <3>2. CASE n # p.worker
      <4>1. proc'[p.worker] = proc[p.worker] BY <3>2, <1>0, <2>2, PairFacts
      <4> QED BY <4>1, <1>0, <2>1, RoundsStay
    <3> QED BY <3>1, <3>2
  <2> QED BY <1>2, <2>3, <2>4, <2>5 DEF PairInv
<1> QED BY <1>3, <1>4

\* Answers are dated by their request; a failed probe leaves no observation.
LEMMA ReceiveKeeps ==
    ASSUME NEW p, PairKept(p), PairInv(p), NEW n \in MaintenanceCheck(p)!Nodes,
           NEW k \in {"replica", "policy"}, MaintenanceCheck(p)!Waits(n, k), NEW heard \in BOOLEAN,
           LET r == req[<<n, k>>] IN
               heard => /\ r # MaintenanceCheck(p)!None /\ r.at = "replied" /\ r.sent <= p.rpc
                     /\ r.op = proc[n].op,
           round' = [round EXCEPT ![n][k] = IF heard THEN "ok" ELSE "failed"],
           proc' = [proc EXCEPT ![n][k] = IF heard THEN 0 ELSE -1],
           req' = req \/ req' = [req EXCEPT ![<<n, k>>] = MaintenanceCheck(p)!None],
           UNCHANGED <<central, unsettled, health, proved>>
    PROVE  PairInv(p)'
<1>0. PairTypes(p) /\ RoundsKept(p) /\ LocalBacked(p) BY DEF PairInv
<1>1. /\ proc[n] # MaintenanceCheck(p)!Off /\ proc[n] \in Processes(p)
      /\ <<n, k>> \in p.probes /\ round[n] # << >>
  BY <1>0, PairFacts DEF MaintenanceCheck!Waits, MaintenanceCheck!On
<1>2. PICK a \in Int : a = (IF heard THEN 0 ELSE -1) OBVIOUS
<1>3. a \in PairAges(p) BY <1>2, <1>0, PairFacts DEF PairAges
<1>4. PICK x \in Processes(p) : x = proc[n] BY <1>1
<1>5. PICK y : y = [x EXCEPT ![k] = a] OBVIOUS
<1>6. /\ y \in Processes(p) /\ y.op = x.op
      /\ y.replica = (IF k = "replica" THEN a ELSE x.replica)
      /\ y.policy = (IF k = "policy" THEN a ELSE x.policy)
  <2>1. CASE k = "replica" BY <2>1, <1>3, <1>5 DEF Processes
  <2>2. CASE k = "policy" BY <2>2, <1>3, <1>5 DEF Processes
  <2> QED BY <2>1, <2>2
<1>7. /\ proc' = [proc EXCEPT ![n] = y] /\ proc'[n] = y
      /\ \A m \in MaintenanceCheck(p)!Nodes : m # n => proc'[m] = proc[m]
  BY <1>0, <1>2, <1>4, <1>5 DEF PairTypes
<1>8. \A q \in p.probes : req'[q] \in {MaintenanceCheck(p)!None, req[q]} BY <1>0 DEF PairTypes
<1>9. PairTypes(p)'
  <2>1. proc' \in [MaintenanceCheck(p)!Nodes -> {MaintenanceCheck(p)!Off} \cup Processes(p)]
    BY <1>0, <1>6, <1>7 DEF PairTypes
  <2>2. req' \in [p.probes -> {MaintenanceCheck(p)!None} \cup Requests(p)]
    BY <1>0 DEF PairTypes
  <2> QED BY <1>0, <2>1, <2>2 DEF PairTypes
<1>10. ASSUME NEW q \in p.probes PROVE RequestBacked(p, q)'
  BY <1>8 DEF PairInv, RequestBacked
<1>11. ASSUME NEW m \in MaintenanceCheck(p)!Nodes PROVE ObservedBacked(p, m)'
  <2>1. ObservedBacked(p, m) BY DEF PairInv
  <2>2. \A q \in MaintenanceCheck(p)!ProbesOf(m) : q \in p.probes /\ q[1] = m BY DEF MaintenanceCheck!ProbesOf
  <2>3. CASE m # n
    <3>1. proc'[m] = proc[m] BY <2>3, <1>7
    <3> QED BY <3>1, <2>1, <2>2, <1>8 DEF ObservedBacked, MaintenanceCheck!On
  <2>4. CASE m = n
    <3>0. PICK s : s = req[<<n, k>>] OBVIOUS
    <3>1. ASSUME heard
          PROVE  /\ proved[MaintenanceCheck(p)!Peer(n)].op = s.op /\ proved[MaintenanceCheck(p)!Peer(n)].age <= s.sent
                 /\ s.sent \in Int /\ s.sent <= p.rpc /\ s.op = proc[n].op
                 /\ k = "policy" => unsettled <= s.sent
                 /\ \A q \in MaintenanceCheck(p)!ProbesOf(n) :
                      req[q] # MaintenanceCheck(p)!None => req[q].op = s.op
      <4>1. s # MaintenanceCheck(p)!None /\ s.at = "replied" /\ s.sent <= p.rpc /\ s.op = proc[n].op
        BY <3>0, <3>1
      <4>2. s.sent \in Int BY <4>1, <3>0, <1>0, <1>1, PairFacts DEF Requests
      <4>3. PICK q : q = <<n, k>> OBVIOUS
      <4>4. q \in p.probes /\ q[1] = n /\ q[2] = k /\ req[q] = s BY <4>3, <1>1, <3>0
      <4>5. RequestBacked(p, q) BY <4>4 DEF PairInv
      <4> QED BY <4>1, <4>2, <4>4, <4>5, <2>2, <2>4 DEF RequestBacked
    <3>2. /\ unsettled \in Int /\ p.rpc \in Nat /\ p.fresh \in Nat
          /\ proved[MaintenanceCheck(p)!Peer(n)].age \in Int
      BY <1>0, PairFacts
    <3>3. CASE k = "replica"
      <4>1. y.replica = a /\ y.policy = x.policy /\ y.op = x.op BY <3>3, <1>6
      <4>2. CASE heard
        <5>1. y.replica = 0 BY <4>1, <4>2, <1>2
        <5>2. proved[MaintenanceCheck(p)!Peer(n)].age <= 0 + p.rpc BY <3>1, <3>2, <4>2
        <5> QED BY <2>1, <2>2, <2>4, <3>1, <4>1, <4>2, <5>1, <5>2, <1>1, <1>4, <1>7, <1>8
            DEF ObservedBacked, MaintenanceCheck!On
      <4>3. CASE ~heard
        <5>1. y.replica = -1 BY <4>1, <4>3, <1>2
        <5> QED BY <2>1, <2>4, <4>1, <5>1, <1>1, <1>4, <1>7 DEF ObservedBacked, MaintenanceCheck!On
      <4> QED BY <4>2, <4>3
    <3>4. CASE k = "policy"
      <4>1. y.policy = a /\ y.replica = x.replica /\ y.op = x.op BY <3>4, <1>6
      <4>2. CASE heard
        <5>1. y.policy = 0 BY <4>1, <4>2, <1>2
        <5>2. unsettled <= 0 + p.rpc BY <3>1, <3>2, <3>4, <4>2
        <5> QED BY <2>1, <2>2, <2>4, <4>1, <5>1, <5>2, <1>1, <1>4, <1>7, <1>8
            DEF ObservedBacked, MaintenanceCheck!On
      <4>3. CASE ~heard
        <5>1. y.policy = -1 BY <4>1, <4>3, <1>2
        <5> QED BY <2>1, <2>2, <2>4, <4>1, <5>1, <1>1, <1>4, <1>7, <1>8 DEF ObservedBacked, MaintenanceCheck!On
      <4> QED BY <4>2, <4>3
    <3> QED BY <3>3, <3>4
  <2> QED BY <2>3, <2>4
<1>12. LocalBacked(p)' BY <1>0 DEF LocalBacked
<1>13. RoundsKept(p)'
  <2>1. /\ round' = [m \in MaintenanceCheck(p)!Nodes |-> round'[m]]
        /\ round'[n] = [round[n] EXCEPT ![k] = IF heard THEN "ok" ELSE "failed"]
        /\ \A m \in MaintenanceCheck(p)!Nodes : m # n => round'[m] = round[m]
    BY <1>0 DEF RoundsKept
  <2>2. CASE n # p.worker
    <3>1. round'[p.worker] = round[p.worker] /\ proc'[p.worker] = proc[p.worker]
      BY <2>1, <2>2, <1>0, <1>7, PairFacts
    <3> QED BY <3>1, <2>1, <1>0 DEF RoundsKept, MaintenanceCheck!On
  <2>3. CASE n = p.worker
    <3>1. proc'[n] # MaintenanceCheck(p)!Off BY <1>6, <1>7, OffApart
    <3>2. ASSUME p.worker \in p.asked
          PROVE  /\ round'[n] # << >> /\ round'[n] \in [{"replica", "policy"} -> {"wait", "ok", "failed"}]
                 /\ round'[n]["replica"] = "ok" => y.replica # -1
                 /\ round'[n]["policy"] = "ok" => y.policy # -1
      <4>1. PICK r : r = round[n] OBVIOUS
      <4>2. /\ r \in [{"replica", "policy"} -> {"wait", "ok", "failed"}]
            /\ r["replica"] = "ok" => x.replica # -1
            /\ r["policy"] = "ok" => x.policy # -1
        BY <4>1, <3>2, <2>3, <1>0, <1>1, <1>4 DEF RoundsKept, MaintenanceCheck!On
      <4>3. PICK t : t = [r EXCEPT ![k] = IF heard THEN "ok" ELSE "failed"] OBVIOUS
      <4>4. /\ t \in [{"replica", "policy"} -> {"wait", "ok", "failed"}]
            /\ \A j \in {"replica", "policy"} : t[j] = IF j = k THEN (IF heard THEN "ok" ELSE "failed") ELSE r[j]
        BY <4>2, <4>3
      <4>5. t # << >>
        <5>1. DOMAIN t = {"replica", "policy"} /\ DOMAIN << >> = {} BY <4>4
        <5> QED BY <5>1
      <4>6. heard => a # -1 BY <1>2
      <4>7. t["replica"] = "ok" => y.replica # -1 BY <4>2, <4>4, <4>6, <1>6
      <4>8. t["policy"] = "ok" => y.policy # -1 BY <4>2, <4>4, <4>6, <1>6
      <4> QED BY <4>1, <4>3, <4>4, <4>5, <4>7, <4>8, <2>1
    <3> QED BY <3>1, <3>2, <2>1, <2>3, <1>7 DEF RoundsKept, MaintenanceCheck!On
  <2> QED BY <2>2, <2>3
<1> QED BY <1>9, <1>10, <1>11, <1>12, <1>13 DEF PairInv

LEMMA EndRoundKeeps ==
    ASSUME NEW p, PairKept(p), PairInv(p), NEW n \in MaintenanceCheck(p)!Nodes,
           MaintenanceCheck(p)!EndRound(n)
    PROVE  PairInv(p)'
<1>0. PairTypes(p) /\ RoundsKept(p) /\ LocalBacked(p) BY DEF PairInv
<1>1. /\ MaintenanceCheck(p)!On(n) /\ proc[n] \in Processes(p) /\ round[n] # << >>
      /\ round' = [round EXCEPT ![n] = << >>]
      /\ UNCHANGED <<central, unsettled, req, health, proved>>
  BY <1>0, PairFacts DEF MaintenanceCheck!EndRound
<1>2. LocalBacked(p)' BY <1>0, <1>1 DEF LocalBacked
<1>3. /\ round' = [m \in MaintenanceCheck(p)!Nodes |-> round'[m]] /\ round'[n] = << >>
      /\ \A m \in MaintenanceCheck(p)!Nodes : m # n => round'[m] = round[m]
  BY <1>0, <1>1 DEF RoundsKept
<1>4. CASE \E k \in DOMAIN round[n] : round[n][k] = "failed"
  <2>1. proc' = MaintenanceCheck(p)!Cleared(n) BY <1>4 DEF MaintenanceCheck!EndRound
  <2>2. /\ proc' \in [MaintenanceCheck(p)!Nodes -> {MaintenanceCheck(p)!Off} \cup Processes(p)]
        /\ proc'[n] \in Processes(p) /\ proc'[n].replica = -1 /\ proc'[n].policy = -1
        /\ \A m \in MaintenanceCheck(p)!Nodes : m # n => proc'[m] = proc[m]
    BY <1>1, <2>1, ClearedKeeps
  <2>3. PairTypes(p)' BY <1>0, <1>1, <2>2 DEF PairTypes
  <2>4. /\ \A q \in p.probes : RequestBacked(p, q)'
        /\ \A m \in MaintenanceCheck(p)!Nodes : ObservedBacked(p, m)'
    BY <1>1, <2>1, <2>2, PairFewer
  <2>5. RoundsKept(p)'
    <3>1. CASE n = p.worker BY <3>1, <1>3, <2>2 DEF RoundsKept, MaintenanceCheck!On
    <3>2. CASE n # p.worker
      <4>1. proc'[p.worker] = proc[p.worker] /\ round'[p.worker] = round[p.worker]
        BY <3>2, <1>0, <1>3, <2>2, PairFacts
      <4> QED BY <4>1, <1>0, <1>3 DEF RoundsKept, MaintenanceCheck!On
    <3> QED BY <3>1, <3>2
  <2> QED BY <1>2, <2>3, <2>4, <2>5 DEF PairInv
<1>5. CASE ~\E k \in DOMAIN round[n] : round[n][k] = "failed"
  <2>1. proc' = proc /\ \A k \in DOMAIN round[n] : round[n][k] # "wait" BY <1>5 DEF MaintenanceCheck!EndRound
  <2>2. PairTypes(p)' BY <1>0, <1>1, <2>1 DEF PairTypes
  <2>3. /\ \A q \in p.probes : RequestBacked(p, q)'
        /\ \A m \in MaintenanceCheck(p)!Nodes : ObservedBacked(p, m)'
    BY <1>1, <2>1, PairFewer
  <2>4. RoundsKept(p)'
    <3>1. CASE n = p.worker
      <4>1. ASSUME p.worker \in p.asked PROVE proc[n].replica # -1 /\ proc[n].policy # -1
        <5>1. PICK r : r = round[n] OBVIOUS
        <5>2. /\ r \in [{"replica", "policy"} -> {"wait", "ok", "failed"}]
              /\ r["replica"] = "ok" => proc[n].replica # -1
              /\ r["policy"] = "ok" => proc[n].policy # -1
          BY <5>1, <4>1, <3>1, <1>0, <1>1 DEF RoundsKept
        <5>3. r["replica"] = "ok" /\ r["policy"] = "ok" BY <5>1, <5>2, <2>1, <1>5
        <5> QED BY <5>2, <5>3
      <4> QED BY <4>1, <3>1, <1>3, <2>1 DEF RoundsKept, MaintenanceCheck!On
    <3>2. CASE n # p.worker
      <4>1. round'[p.worker] = round[p.worker] BY <3>2, <1>0, <1>3, PairFacts
      <4> QED BY <4>1, <1>0, <1>3, <2>1 DEF RoundsKept, MaintenanceCheck!On
    <3> QED BY <3>1, <3>2
  <2> QED BY <1>2, <2>2, <2>3, <2>4 DEF PairInv
<1> QED BY <1>4, <1>5

\* A question about readiness, or none, and requests that are lost.
LEMMA QuestionsKeep ==
    ASSUME NEW p, PairKept(p), PairInv(p), UNCHANGED <<central, unsettled, proc, round, proved>>,
           \A q \in p.probes : req'[q] \in {MaintenanceCheck(p)!None, req[q]},
           req' = [q \in p.probes |-> req'[q]],
           health' \in [MaintenanceCheck(p)!Nodes ->
                          {MaintenanceCheck(p)!None} \cup [local : BOOLEAN, age : 0..p.rpc]],
           LocalBacked(p)'
    PROVE  PairInv(p)'
<1>0. PairTypes(p) /\ RoundsKept(p) BY DEF PairInv
<1>1. PairTypes(p)'
  <2>1. req' \in [p.probes -> {MaintenanceCheck(p)!None} \cup Requests(p)] BY <1>0 DEF PairTypes
  <2> QED BY <1>0, <2>1 DEF PairTypes
<1>2. /\ \A q \in p.probes : RequestBacked(p, q)'
      /\ \A m \in MaintenanceCheck(p)!Nodes : ObservedBacked(p, m)'
  BY PairFewer
<1>3. RoundsKept(p)' BY <1>0, RoundsStay
<1> QED BY <1>1, <1>2, <1>3 DEF PairInv

LEMMA PairQuestionsKeep ==
    ASSUME NEW p, PairKept(p), PairInv(p), NEW n \in MaintenanceCheck(p)!Nodes,
           \/ MaintenanceCheck(p)!AskReady(n) \/ MaintenanceCheck(p)!EndAsk(n)
           \/ \E q \in p.probes : MaintenanceCheck(p)!Drop(q)
           \/ UNCHANGED MaintenanceCheck(p)!vars
    PROVE  PairInv(p)'
<1>0. PairTypes(p) /\ LocalBacked(p) BY DEF PairInv
<1>1. UNCHANGED <<central, unsettled, proc, round, proved>>
  BY DEF MaintenanceCheck!AskReady, MaintenanceCheck!EndAsk, MaintenanceCheck!Drop, MaintenanceCheck!vars
<1>2. /\ \A q \in p.probes : req'[q] \in {MaintenanceCheck(p)!None, req[q]}
      /\ req' = [q \in p.probes |-> req'[q]]
  BY <1>0 DEF MaintenanceCheck!AskReady, MaintenanceCheck!EndAsk, MaintenanceCheck!Drop, MaintenanceCheck!vars,
              PairTypes
<1>3. CASE MaintenanceCheck(p)!AskReady(n)
  <2>1. PICK h \in [local : BOOLEAN, age : 0..p.rpc] :
          /\ health' = [health EXCEPT ![n] = h] /\ h.age = 0
          /\ h.local = MaintenanceCheck(p)!Local(n)
    <3>1. MaintenanceCheck(p)!Local(n) \in BOOLEAN
      BY DEF MaintenanceCheck!Local
    <3>2. 0 \in 0..p.rpc BY <1>0, PairFacts
    <3>3. [local |-> MaintenanceCheck(p)!Local(n), age |-> 0] \in [local : BOOLEAN, age : 0..p.rpc] BY <3>1, <3>2
    <3>4. health' = [health EXCEPT ![n] = [local |-> MaintenanceCheck(p)!Local(n), age |-> 0]]
      BY <1>3 DEF MaintenanceCheck!AskReady
    <3> QED BY <3>3, <3>4
  <2>2. health' \in [MaintenanceCheck(p)!Nodes ->
                       {MaintenanceCheck(p)!None} \cup [local : BOOLEAN, age : 0..p.rpc]]
    BY <1>0, <2>1 DEF PairTypes
  <2>3. LocalBacked(p)'
    <3>1. CASE n = p.coordinator
      <4>1. health'[n] = h BY <2>1, <1>0 DEF PairTypes
      <4>2. h.local => unsettled = -1 BY <2>1, <3>1, <1>0 DEF MaintenanceCheck!Local, PairTypes
      <4> QED BY <4>1, <4>2, <3>1, <2>1, <1>1 DEF LocalBacked
    <3>2. CASE n # p.coordinator
      <4>1. health'[p.coordinator] = health[p.coordinator] BY <3>2, <2>1, <1>0, PairFacts DEF PairTypes
      <4> QED BY <4>1, <1>0, <1>1 DEF LocalBacked
    <3> QED BY <3>1, <3>2
  <2> QED BY <1>1, <1>2, <2>2, <2>3, QuestionsKeep
<1>4. CASE MaintenanceCheck(p)!EndAsk(n)
  <2>1. health' = [health EXCEPT ![n] = MaintenanceCheck(p)!None] BY <1>4 DEF MaintenanceCheck!EndAsk
  <2>2. health' \in [MaintenanceCheck(p)!Nodes ->
                       {MaintenanceCheck(p)!None} \cup [local : BOOLEAN, age : 0..p.rpc]]
    BY <1>0, <2>1 DEF PairTypes
  <2>3. health'[p.coordinator] \in {MaintenanceCheck(p)!None, health[p.coordinator]}
    BY <1>0, <2>1, PairFacts DEF PairTypes
  <2>4. LocalBacked(p)' BY <2>3, <1>0, <1>1 DEF LocalBacked
  <2> QED BY <1>1, <1>2, <2>2, <2>4, QuestionsKeep
<1>5. CASE health' = health
  <2>1. LocalBacked(p)' BY <1>0, <1>1, <1>5 DEF LocalBacked
  <2>2. health' \in [MaintenanceCheck(p)!Nodes ->
                       {MaintenanceCheck(p)!None} \cup [local : BOOLEAN, age : 0..p.rpc]]
    BY <1>0, <1>5 DEF PairTypes
  <2> QED BY <1>1, <1>2, <2>1, <2>2, QuestionsKeep
<1> QED BY <1>3, <1>4, <1>5 DEF MaintenanceCheck!Drop, MaintenanceCheck!vars

LEMMA ServeKeeps ==
    ASSUME NEW p, PairKept(p), PairInv(p), NEW q \in p.probes, MaintenanceCheck(p)!Serve(q)
    PROVE  PairInv(p)'
<1>0. PairTypes(p) /\ RoundsKept(p) /\ LocalBacked(p) BY DEF PairInv
<1>1. PICK n \in MaintenanceCheck(p)!Nodes : n = MaintenanceCheck(p)!Peer(q[1]) BY <1>0, PairFacts
<1>2. /\ req[q] # MaintenanceCheck(p)!None /\ req[q].at = "sent" /\ req[q] \in Requests(p)
      /\ UNCHANGED <<central, unsettled, proc, round, health>>
  BY <1>0, PairFacts DEF MaintenanceCheck!Serve
<1>3. CASE MaintenanceCheck(p)!Bound(n, req[q].op) /\ MaintenanceCheck(p)!Local(n)
  <2>1. /\ req' = [req EXCEPT ![q].at = "serving", ![q].began = 0]
        /\ proved' = [proved EXCEPT ![n] = [op |-> proc[n].op, age |-> 0]]
        /\ proc[n].op = req[q].op
    BY <1>1, <1>3 DEF MaintenanceCheck!Serve, MaintenanceCheck!Bound
  <2>2. PICK x \in Requests(p) : x = req[q] BY <1>2
  <2>3. PICK z : z = 0 OBVIOUS
  <2>4. PICK y : y = [x EXCEPT !.at = "serving", !.began = z] OBVIOUS
  <2>5. y \in Requests(p) /\ y.op = x.op /\ y.sent = x.sent /\ y.at = "serving" BY <2>3, <2>4 DEF Requests
  <2>6. /\ req' = [req EXCEPT ![q] = y] /\ req'[q] = y
        /\ \A r \in p.probes : r # q => req'[r] = req[r]
    BY <1>0, <2>1, <2>2, <2>3, <2>4 DEF PairTypes
  <2>7. PICK v : v = [op |-> x.op, age |-> 0] OBVIOUS
  <2>8. v \in [op : {0} \cup PairOps(p), age : 0..(p.fresh + p.rpc + 1)] /\ v.op = x.op /\ v.age = 0
    <3>1. 0 \in 0..(p.fresh + p.rpc + 1) BY <1>0, PairFacts
    <3> QED BY <3>1, <2>7 DEF Requests
  <2>9. /\ proved' = [proved EXCEPT ![n] = v] /\ proved'[n] = v
        /\ \A m \in MaintenanceCheck(p)!Nodes : m # n => proved'[m] = proved[m]
    BY <1>0, <2>1, <2>2, <2>7 DEF PairTypes
  <2>10. PairTypes(p)'
    <3>1. req' \in [p.probes -> {MaintenanceCheck(p)!None} \cup Requests(p)] BY <1>0, <2>5, <2>6 DEF PairTypes
    <3>2. proved' \in [MaintenanceCheck(p)!Nodes ->
                         [op : {0} \cup PairOps(p), age : 0..(p.fresh + p.rpc + 1)]]
      BY <1>0, <2>8, <2>9 DEF PairTypes
    <3> QED BY <1>0, <1>2, <3>1, <3>2 DEF PairTypes
  <2>11. \A r \in p.probes : r[1] = q[1] /\ req[r] # MaintenanceCheck(p)!None => req[r].op = x.op
    BY <1>2, <2>2 DEF PairInv, RequestBacked
  <2>12. \A r \in p.probes : MaintenanceCheck(p)!Peer(r[1]) = n <=> r[1] = q[1]
    BY <1>0, <1>1, PairFacts DEF MaintenanceCheck!Peer, PairKept
  <2>13. ASSUME NEW r \in p.probes PROVE RequestBacked(p, r)'
    <3>1. RequestBacked(p, r) BY DEF PairInv
    <3>2. CASE r[1] = q[1]
      <4>1. ASSUME req'[r] # MaintenanceCheck(p)!None
            PROVE  /\ req'[r].op = x.op /\ req'[r].sent \in Nat
                   /\ req'[r].at = "replied" => req'[r] = req[r] /\ req[r] # MaintenanceCheck(p)!None
        <5>1. CASE r = q BY <5>1, <2>5, <2>6 DEF Requests
        <5>2. CASE r # q
          <6>1. req'[r] = req[r] /\ req[r] \in Requests(p) BY <5>2, <4>1, <2>6, <1>0, PairFacts
          <6> QED BY <6>1, <4>1, <3>2, <2>11 DEF Requests
        <5> QED BY <5>1, <5>2
      <4>2. proved'[MaintenanceCheck(p)!Peer(r[1])] = v BY <3>2, <2>9, <2>12
      <4>3. \A s \in p.probes : s[1] = r[1] /\ req'[s] # MaintenanceCheck(p)!None => req'[s].op = x.op
        <5> SUFFICES ASSUME NEW s \in p.probes, s[1] = r[1], req'[s] # MaintenanceCheck(p)!None
                     PROVE  req'[s].op = x.op
          OBVIOUS
        <5>1. CASE s = q BY <5>1, <2>5, <2>6
        <5>2. CASE s # q BY <5>2, <2>6, <2>11, <3>2
        <5> QED BY <5>1, <5>2
      <4> QED BY <4>1, <4>2, <4>3, <3>1, <2>8, <1>2 DEF RequestBacked
    <3>3. CASE r[1] # q[1]
      <4>1. /\ req'[r] = req[r] /\ (\A s \in p.probes : s[1] = r[1] => req'[s] = req[s])
            /\ proved'[MaintenanceCheck(p)!Peer(r[1])] = proved[MaintenanceCheck(p)!Peer(r[1])]
        BY <3>3, <2>6, <2>9, <2>12, <1>0, PairFacts
      <4> QED BY <4>1, <3>1, <1>2 DEF RequestBacked
    <3> QED BY <3>2, <3>3
  <2>14. ASSUME NEW m \in MaintenanceCheck(p)!Nodes PROVE ObservedBacked(p, m)'
    <3>1. ObservedBacked(p, m) BY DEF PairInv
    <3>2. \A r \in MaintenanceCheck(p)!ProbesOf(m) : r \in p.probes /\ r[1] = m BY DEF MaintenanceCheck!ProbesOf
    <3>3. \A r \in p.probes : req'[r] # MaintenanceCheck(p)!None =>
             req[r] # MaintenanceCheck(p)!None /\ req'[r].op = req[r].op
      BY <1>2, <2>2, <2>5, <2>6
    <3>4. CASE m = q[1]
      <4>1. proved'[MaintenanceCheck(p)!Peer(m)] = v BY <3>4, <1>1, <2>9
      <4>2. q \in MaintenanceCheck(p)!ProbesOf(m) BY <3>4 DEF MaintenanceCheck!ProbesOf
      <4>3. MaintenanceCheck(p)!On(m) /\ proc[m].replica # -1 => x.op = proc[m].op
        BY <4>2, <3>1, <2>2, <1>2 DEF ObservedBacked
      <4>4. MaintenanceCheck(p)!On(m) => proc[m].replica \in Int /\ proc[m].replica >= -1
        BY <1>0, PairFacts DEF Processes, PairAges
      <4>5. p.rpc \in Nat BY <1>0, PairFacts
      <4> QED BY <4>1, <4>3, <4>4, <4>5, <3>1, <3>2, <3>3, <2>8, <1>2 DEF ObservedBacked, MaintenanceCheck!On
    <3>5. CASE m # q[1]
      <4>1. MaintenanceCheck(p)!Peer(m) # n /\ MaintenanceCheck(p)!Peer(m) \in MaintenanceCheck(p)!Nodes
        BY <3>5, <1>0, <1>1, PairFacts DEF MaintenanceCheck!Peer, PairKept
      <4>2. proved'[MaintenanceCheck(p)!Peer(m)] = proved[MaintenanceCheck(p)!Peer(m)] BY <4>1, <2>9
      <4> QED BY <4>2, <3>1, <3>2, <3>3, <1>2 DEF ObservedBacked, MaintenanceCheck!On
    <3> QED BY <3>4, <3>5
  <2>15. LocalBacked(p)' BY <1>0, <1>2 DEF LocalBacked
  <2>16. RoundsKept(p)' BY <1>0, <1>2, RoundsStay
  <2> QED BY <2>10, <2>13, <2>14, <2>15, <2>16 DEF PairInv
<1>4. CASE ~(MaintenanceCheck(p)!Bound(n, req[q].op) /\ MaintenanceCheck(p)!Local(n))
  <2>1. req' = [req EXCEPT ![q] = MaintenanceCheck(p)!None] /\ proved' = proved
    BY <1>1, <1>4 DEF MaintenanceCheck!Serve
  <2>2. /\ \A r \in p.probes : req'[r] \in {MaintenanceCheck(p)!None, req[r]}
        /\ req' = [r \in p.probes |-> req'[r]]
    BY <2>1, <1>0 DEF PairTypes
  <2>3. LocalBacked(p)' BY <1>0, <1>2 DEF LocalBacked
  <2>4. health' \in [MaintenanceCheck(p)!Nodes ->
                       {MaintenanceCheck(p)!None} \cup [local : BOOLEAN, age : 0..p.rpc]]
    BY <1>0, <1>2 DEF PairTypes
  <2> QED BY <1>2, <2>1, <2>2, <2>3, <2>4, QuestionsKeep
<1> QED BY <1>3, <1>4

LEMMA AnswerKeeps ==
    ASSUME NEW p, PairKept(p), PairInv(p), NEW q \in p.probes, MaintenanceCheck(p)!Answer(q)
    PROVE  PairInv(p)'
<1>0. PairTypes(p) /\ RoundsKept(p) /\ LocalBacked(p) BY DEF PairInv
<1>1. PICK n \in MaintenanceCheck(p)!Nodes : n = MaintenanceCheck(p)!Peer(q[1]) BY <1>0, PairFacts
<1>2. /\ req[q] # MaintenanceCheck(p)!None /\ req[q].at = "serving" /\ req[q] \in Requests(p)
      /\ MaintenanceCheck(p)!On(n) /\ proc[n] \in Processes(p)
      /\ UNCHANGED <<central, unsettled, round, health, proved>>
      /\ req' = [req EXCEPT ![q].at = "replied", ![q].began = 0]
      /\ proc' = IF q[2] = "policy" THEN [proc EXCEPT ![n].policy = 0] ELSE proc
  BY <1>0, <1>1, PairFacts DEF MaintenanceCheck!Answer, MaintenanceCheck!Live
<1>3. q[2] = "policy" => unsettled = -1 BY <1>0 DEF MaintenanceCheck!Answer, MaintenanceCheck!Confirmed, PairTypes
<1>4. PICK x \in Requests(p) : x = req[q] BY <1>2
<1>5. PICK z \in Int : z = 0 OBVIOUS
<1>6. PICK y : y = [x EXCEPT !.at = "replied", !.began = z] OBVIOUS
<1>7. /\ y \in Requests(p) /\ y.op = x.op /\ y.sent = x.sent /\ y.at = "replied" /\ x.at = "serving"
      /\ x.sent \in Nat
  <2>1. x.sent \in Nat /\ x.at = "serving" BY <1>2, <1>4 DEF Requests
  <2>2. z \in Nat BY <1>5
  <2>3. y \in Requests(p) BY <1>6, <2>2 DEF Requests
  <2>4. y.op = x.op /\ y.sent = x.sent /\ y.at = "replied" BY <1>6 DEF Requests
  <2> QED BY <2>1, <2>3, <2>4
<1>8. /\ req' = [req EXCEPT ![q] = y] /\ req'[q] = y /\ \A r \in p.probes : r # q => req'[r] = req[r]
  BY <1>0, <1>2, <1>4, <1>5, <1>6 DEF PairTypes
<1>9. /\ proc' \in [MaintenanceCheck(p)!Nodes -> {MaintenanceCheck(p)!Off} \cup Processes(p)]
      /\ \A m \in MaintenanceCheck(p)!Nodes : m # n => proc'[m] = proc[m]
      /\ proc'[n] \in Processes(p) /\ proc'[n].op = proc[n].op /\ proc'[n].replica = proc[n].replica
      /\ proc'[n].policy = IF q[2] = "policy" THEN 0 ELSE proc[n].policy
  <2>1. CASE q[2] # "policy" BY <2>1, <1>0, <1>2 DEF PairTypes
  <2>2. CASE q[2] = "policy"
    <3>1. PICK a \in Processes(p) : a = proc[n] BY <1>2
    <3>2. PICK b : b = [a EXCEPT !.policy = z] OBVIOUS
    <3>3. z \in PairAges(p) BY <1>0, <1>5, PairFacts DEF PairAges
    <3>4. b \in Processes(p) /\ b.op = a.op /\ b.replica = a.replica /\ b.policy = z BY <3>2, <3>3 DEF Processes
    <3>5. proc' = [proc EXCEPT ![n] = b] BY <2>2, <1>0, <1>2, <1>5, <3>1, <3>2 DEF PairTypes
    <3>6. proc'[n] = b /\ \A m \in MaintenanceCheck(p)!Nodes : m # n => proc'[m] = proc[m]
      BY <1>0, <3>5 DEF PairTypes
    <3>7. proc' \in [MaintenanceCheck(p)!Nodes -> {MaintenanceCheck(p)!Off} \cup Processes(p)]
      BY <1>0, <3>4, <3>5 DEF PairTypes
    <3> QED BY <2>2, <3>1, <3>4, <3>6, <3>7, <1>5
  <2> QED BY <2>1, <2>2
<1>10. PairTypes(p)'
  <2>1. req' \in [p.probes -> {MaintenanceCheck(p)!None} \cup Requests(p)] BY <1>0, <1>7, <1>8 DEF PairTypes
  <2> QED BY <1>0, <1>2, <1>9, <2>1 DEF PairTypes
<1>11. \A r \in p.probes : req'[r] # MaintenanceCheck(p)!None =>
         req[r] # MaintenanceCheck(p)!None /\ req'[r].op = req[r].op
  BY <1>2, <1>4, <1>7, <1>8
<1>12. ASSUME NEW r \in p.probes PROVE RequestBacked(p, r)'
  <2>1. RequestBacked(p, r) BY DEF PairInv
  <2>2. CASE r = q
    <3>1. q[2] = "policy" => unsettled <= y.sent BY <1>3, <1>7
    <3> QED BY <2>1, <2>2, <3>1, <1>2, <1>4, <1>7, <1>8, <1>11 DEF RequestBacked
  <2>3. CASE r # q BY <2>1, <2>3, <1>2, <1>8, <1>11 DEF RequestBacked
  <2> QED BY <2>2, <2>3
<1>13. ASSUME NEW m \in MaintenanceCheck(p)!Nodes PROVE ObservedBacked(p, m)'
  <2>1. ObservedBacked(p, m) BY DEF PairInv
  <2>2. \A r \in MaintenanceCheck(p)!ProbesOf(m) : r \in p.probes BY DEF MaintenanceCheck!ProbesOf
  <2>3. p.rpc \in Nat BY <1>0, PairFacts
  <2>4. CASE m = n
    <3>1. q[2] = "policy" => unsettled <= proc'[n].policy + p.rpc BY <1>3, <1>9, <2>3
    <3> QED BY <2>1, <2>2, <2>4, <3>1, <1>2, <1>9, <1>11 DEF ObservedBacked, MaintenanceCheck!On
  <2>5. CASE m # n
    <3>1. proc'[m] = proc[m] BY <2>5, <1>9
    <3> QED BY <2>1, <2>2, <3>1, <1>2, <1>11 DEF ObservedBacked, MaintenanceCheck!On
  <2> QED BY <2>4, <2>5
<1>14. LocalBacked(p)' BY <1>0, <1>2 DEF LocalBacked
<1>15. RoundsKept(p)'
  <2>1. CASE proc'[p.worker] = proc[p.worker] BY <2>1, <1>0, <1>2, RoundsStay
  <2>2. CASE proc'[p.worker] # proc[p.worker]
    <3>1. n = p.worker /\ q[2] = "policy" BY <2>2, <1>0, <1>2, <1>9, PairFacts
    <3>2. q = <<p.coordinator, "policy">>
      <4>1. q = <<q[1], q[2]>> /\ q[1] \in {p.coordinator, p.worker} BY <1>0, PairFacts
      <4>2. q[1] # n BY <1>0, <1>1, PairFacts
      <4> QED BY <3>1, <4>1, <4>2
    <3>3. p.worker \notin p.asked BY <3>2 DEF PairKept
    <3>4. proc'[n] # MaintenanceCheck(p)!Off BY <1>9, OffApart
    <3> QED BY <3>1, <3>3, <3>4, <1>0, <1>2 DEF RoundsKept, MaintenanceCheck!On
  <2> QED BY <2>1, <2>2
<1> QED BY <1>10, <1>12, <1>13, <1>14, <1>15 DEF PairInv

LEMMA ChangeKeeps ==
    ASSUME NEW p, PairKept(p), PairInv(p), MaintenanceCheck(p)!ChangePolicy PROVE PairInv(p)'
<1>0. PairTypes(p) /\ RoundsKept(p) /\ LocalBacked(p) BY DEF PairInv
<1>1. UNCHANGED <<proc, round, req, health, proved>> /\ central' = ~central
  BY DEF MaintenanceCheck!ChangePolicy
<1>2. unsettled' \in {-1, 0} /\ (central' => unsettled' = -1)
  BY <1>0 DEF MaintenanceCheck!ChangePolicy, MaintenanceCheck!Never, PairTypes
<1>3. PairTypes(p)'
  <2>1. unsettled' \in PairAges(p) BY <1>0, <1>2, PairFacts DEF PairAges
  <2> QED BY <1>0, <1>1, <1>2, <2>1 DEF PairTypes
<1>4. p.rpc \in Nat BY <1>0, PairFacts
<1>5. ASSUME NEW q \in p.probes PROVE RequestBacked(p, q)'
  <2>1. req[q] # MaintenanceCheck(p)!None => req[q].sent \in Nat BY <1>0, PairFacts DEF Requests
  <2>2. req[q] # MaintenanceCheck(p)!None => unsettled' <= req[q].sent BY <1>2, <2>1
  <2> QED BY <2>2, <1>1 DEF PairInv, RequestBacked
<1>6. ASSUME NEW n \in MaintenanceCheck(p)!Nodes PROVE ObservedBacked(p, n)'
  <2>1. ObservedBacked(p, n) BY DEF PairInv
  <2>2. MaintenanceCheck(p)!On(n) => proc[n].policy \in Int /\ proc[n].policy >= -1
    BY <1>0, PairFacts DEF Processes, PairAges
  <2>3. MaintenanceCheck(p)!On(n) /\ proc[n].policy # -1 => unsettled' <= proc[n].policy + p.rpc
    BY <1>2, <1>4, <2>2
  <2> QED BY <2>1, <2>3, <1>1 DEF ObservedBacked, MaintenanceCheck!On, MaintenanceCheck!ProbesOf
<1>7. LocalBacked(p)'
  <2>1. PICK h : h = health[p.coordinator] OBVIOUS
  <2>2. h # MaintenanceCheck(p)!None => h.age \in Nat BY <2>1, <1>0, PairFacts DEF PairTypes
  <2>3. h # MaintenanceCheck(p)!None => unsettled' <= h.age BY <2>2, <1>2
  <2> QED BY <2>1, <2>3, <1>1 DEF LocalBacked
<1>8. RoundsKept(p)' BY <1>0, <1>1, RoundsStay
<1> QED BY <1>3, <1>5, <1>6, <1>7, <1>8 DEF PairInv

\* Ages grow together, up to where none of them counts.
LEMMA OlderGrows ==
    ASSUME NEW p, PairKept(p), NEW a \in PairAges(p)
    PROVE  /\ MaintenanceCheck(p)!Older(a) \in PairAges(p)
           /\ MaintenanceCheck(p)!Older(a) = -1 <=> a = -1
           /\ MaintenanceCheck(p)!Older(a) <= a + 1
           /\ a # -1 /\ MaintenanceCheck(p)!Older(a) <= p.fresh + p.rpc => MaintenanceCheck(p)!Older(a) = a + 1
           /\ MaintenanceCheck(p)!Older(a) \in Int /\ a \in Int /\ a >= -1
<1>1. p.fresh \in Nat /\ p.rpc \in Nat BY DEF PairKept
<1>2. PICK old \in Nat : old = p.fresh + p.rpc + 1 BY <1>1
<1>3. a \in -1..old BY <1>2 DEF PairAges
<1>4. MaintenanceCheck(p)!Older(a) = IF a = -1 \/ a = old THEN a ELSE a + 1
  BY <1>2 DEF MaintenanceCheck!Older, MaintenanceCheck!Never, MaintenanceCheck!Old
<1>5. p.fresh + p.rpc < old BY <1>1, <1>2
<1> QED BY <1>1, <1>2, <1>3, <1>4, <1>5 DEF PairAges

LEMMA TickKeeps ==
    ASSUME NEW p, PairKept(p), PairInv(p), MaintenanceCheck(p)!Tick PROVE PairInv(p)'
<1>0. PairTypes(p) /\ RoundsKept(p) /\ LocalBacked(p) BY DEF PairInv
<1>1. p.fresh \in Nat /\ p.rpc \in Nat BY <1>0, PairFacts
<1>2. /\ unsettled' \in PairAges(p) /\ unsettled' \in Int /\ unsettled \in Int /\ unsettled' <= unsettled + 1
      /\ unsettled = -1 => unsettled' = -1
  <2>1. unsettled' = MaintenanceCheck(p)!Older(unsettled) BY DEF MaintenanceCheck!Tick
  <2>2. unsettled \in PairAges(p) BY <1>0 DEF PairTypes
  <2> QED BY <2>1, <2>2, OlderGrows
<1>3. ASSUME NEW n \in MaintenanceCheck(p)!Nodes
      PROVE  /\ ~MaintenanceCheck(p)!On(n) => proc'[n] = MaintenanceCheck(p)!Off
             /\ MaintenanceCheck(p)!On(n) =>
                  /\ proc'[n] \in Processes(p) /\ proc'[n].op = proc[n].op
                  /\ proc[n].replica \in Int /\ proc[n].policy \in Int
                  /\ proc'[n].replica \in Int /\ proc'[n].policy \in Int
                  /\ proc'[n].replica = -1 <=> proc[n].replica = -1
                  /\ proc'[n].policy = -1 <=> proc[n].policy = -1
                  /\ proc'[n].replica # -1 /\ proc'[n].replica <= p.fresh => proc'[n].replica = proc[n].replica + 1
                  /\ proc'[n].policy # -1 /\ proc'[n].policy <= p.fresh => proc'[n].policy = proc[n].policy + 1
  <2>1. proc'[n] = IF ~MaintenanceCheck(p)!On(n) THEN MaintenanceCheck(p)!Off
                   ELSE [proc[n] EXCEPT !.replica = MaintenanceCheck(p)!Older(@), !.policy = MaintenanceCheck(p)!Older(@)]
    BY DEF MaintenanceCheck!Tick
  <2>2. CASE MaintenanceCheck(p)!On(n)
    <3>1. PICK x \in Processes(p) : x = proc[n] BY <2>2, <1>0, PairFacts
    <3>2. x.replica \in PairAges(p) /\ x.policy \in PairAges(p) BY DEF Processes
    <3>3. PICK a \in PairAges(p), b \in PairAges(p) :
            a = MaintenanceCheck(p)!Older(x.replica) /\ b = MaintenanceCheck(p)!Older(x.policy)
      BY <3>2, OlderGrows
    <3>4. PICK y : y = [x EXCEPT !.replica = a, !.policy = b] OBVIOUS
    <3>5. y \in Processes(p) /\ y.op = x.op /\ y.replica = a /\ y.policy = b BY <3>3, <3>4 DEF Processes
    <3>6. proc'[n] = y BY <2>1, <2>2, <3>1, <3>3, <3>4
    <3>7. /\ a \in Int /\ b \in Int /\ x.replica \in Int /\ x.policy \in Int
          /\ a = -1 <=> x.replica = -1
          /\ b = -1 <=> x.policy = -1
          /\ a # -1 /\ a <= p.fresh + p.rpc => a = x.replica + 1
          /\ b # -1 /\ b <= p.fresh + p.rpc => b = x.policy + 1
      BY <3>2, <3>3, OlderGrows
    <3>8. (a <= p.fresh => a <= p.fresh + p.rpc) /\ (b <= p.fresh => b <= p.fresh + p.rpc) BY <1>1, <3>7
    <3> QED BY <2>2, <3>1, <3>5, <3>6, <3>7, <3>8
  <2> QED BY <2>1, <2>2
<1>4. ASSUME NEW n \in MaintenanceCheck(p)!Nodes
      PROVE  /\ proved'[n] \in [op : {0} \cup PairOps(p), age : 0..(p.fresh + p.rpc + 1)]
             /\ proved'[n].op = proved[n].op /\ proved'[n].age <= proved[n].age + 1
             /\ proved'[n].age \in Int /\ proved[n].age \in Int
  <2>1. PICK x \in [op : {0} \cup PairOps(p), age : 0..(p.fresh + p.rpc + 1)] : x = proved[n]
    BY <1>0 DEF PairTypes
  <2>2. x.age \in PairAges(p) /\ x.age # -1 /\ x.age \in Int BY <1>1 DEF PairAges
  <2>3. PICK a : a = MaintenanceCheck(p)!Older(x.age) OBVIOUS
  <2>4. a \in 0..(p.fresh + p.rpc + 1) /\ a <= x.age + 1 /\ a \in Int
    <3>1. a \in PairAges(p) /\ a # -1 /\ a <= x.age + 1 /\ a \in Int BY <2>2, <2>3, OlderGrows
    <3> QED BY <3>1, <1>1 DEF PairAges
  <2>5. proved'[n] = [x EXCEPT !.age = a] BY <2>1, <2>3 DEF MaintenanceCheck!Tick
  <2> QED BY <2>1, <2>2, <2>4, <2>5
<1>5. ASSUME NEW q \in p.probes
      PROVE  \/ req'[q] = MaintenanceCheck(p)!None
             \/ /\ req[q] # MaintenanceCheck(p)!None /\ req[q] \in Requests(p) /\ req'[q] \in Requests(p)
                /\ req'[q].op = req[q].op /\ req'[q].at = req[q].at
                /\ req'[q].sent \in Int /\ req[q].sent \in Int
                /\ req'[q].sent <= p.rpc => req'[q].sent = req[q].sent + 1
  <2>1. req'[q] = IF req[q] = MaintenanceCheck(p)!None THEN MaintenanceCheck(p)!None
         ELSE IF req[q].at = "serving" /\ req[q].began >= p.rpc THEN MaintenanceCheck(p)!None
         ELSE IF req[q].at = "replied" /\ req[q].sent >= p.rpc THEN MaintenanceCheck(p)!None
         ELSE [req[q] EXCEPT !.sent = IF @ > p.rpc THEN @ ELSE @ + 1,
                             !.began = IF req[q].at = "serving" THEN @ + 1 ELSE @]
    BY DEF MaintenanceCheck!Tick
  <2>2. CASE req'[q] # MaintenanceCheck(p)!None
    <3>1. PICK x \in Requests(p) : x = req[q] /\ req[q] # MaintenanceCheck(p)!None BY <2>1, <2>2, <1>0, PairFacts
    <3>2. x.sent \in 0..(p.rpc + 1) /\ x.began \in Nat BY DEF Requests
    <3>3. PICK s \in 0..(p.rpc + 1) : s = IF x.sent > p.rpc THEN x.sent ELSE x.sent + 1 BY <3>2, <1>1
    <3>4. PICK b \in Nat : b = IF x.at = "serving" THEN x.began + 1 ELSE x.began BY <3>2
    <3>5. PICK y : y = [x EXCEPT !.sent = s, !.began = b] OBVIOUS
    <3>6. req'[q] = y BY <2>1, <2>2, <3>1, <3>3, <3>4, <3>5
    <3>7. y \in Requests(p) /\ y.op = x.op /\ y.at = x.at /\ y.sent = s BY <3>3, <3>4, <3>5 DEF Requests
    <3>8. s \in Int /\ x.sent \in Int /\ (s <= p.rpc => s = x.sent + 1) BY <3>2, <3>3, <1>1
    <3> QED BY <3>1, <3>6, <3>7, <3>8
  <2> QED BY <2>2
<1>6. ASSUME NEW n \in MaintenanceCheck(p)!Nodes
      PROVE  \/ health'[n] = MaintenanceCheck(p)!None
             \/ /\ health[n] # MaintenanceCheck(p)!None /\ health'[n] \in [local : BOOLEAN, age : 0..p.rpc]
                /\ (health'[n].local <=> health[n].local) /\ health'[n].age = health[n].age + 1
                /\ health[n].age \in Int
  <2>1. health'[n] = IF health[n] = MaintenanceCheck(p)!None \/ health[n].age >= p.rpc THEN MaintenanceCheck(p)!None
                     ELSE [health[n] EXCEPT !.age = @ + 1]
    BY DEF MaintenanceCheck!Tick
  <2>2. CASE health'[n] # MaintenanceCheck(p)!None
    <3>1. PICK x \in [local : BOOLEAN, age : 0..p.rpc] : x = health[n] /\ health[n] # MaintenanceCheck(p)!None
      BY <2>1, <2>2, <1>0 DEF PairTypes
    <3>2. PICK a \in Int : a = x.age + 1 BY <1>1
    <3>3. x.age \in Int /\ a \in 0..p.rpc BY <2>1, <2>2, <3>1, <3>2, <1>1
    <3>4. health'[n] = [x EXCEPT !.age = a] BY <2>1, <2>2, <3>1, <3>2
    <3>5. PICK y : y = [x EXCEPT !.age = a] OBVIOUS
    <3>6. y \in [local : BOOLEAN, age : 0..p.rpc] /\ (y.local <=> x.local) /\ y.age = a BY <3>3, <3>5
    <3> QED BY <3>1, <3>2, <3>3, <3>4, <3>5, <3>6
  <2> QED BY <2>2
<1>7. /\ UNCHANGED <<central, round>>
      /\ proc' = [n \in MaintenanceCheck(p)!Nodes |-> proc'[n]]
      /\ req' = [q \in p.probes |-> req'[q]]
      /\ health' = [n \in MaintenanceCheck(p)!Nodes |-> health'[n]]
      /\ proved' = [n \in MaintenanceCheck(p)!Nodes |-> proved'[n]]
  BY DEF MaintenanceCheck!Tick
<1>8. PairTypes(p)'
  <2>1. proc' \in [MaintenanceCheck(p)!Nodes -> {MaintenanceCheck(p)!Off} \cup Processes(p)] BY <1>3, <1>7
  <2>2. req' \in [p.probes -> {MaintenanceCheck(p)!None} \cup Requests(p)] BY <1>5, <1>7
  <2>3. health' \in [MaintenanceCheck(p)!Nodes ->
                       {MaintenanceCheck(p)!None} \cup [local : BOOLEAN, age : 0..p.rpc]]
    BY <1>6, <1>7
  <2>4. proved' \in [MaintenanceCheck(p)!Nodes -> [op : {0} \cup PairOps(p), age : 0..(p.fresh + p.rpc + 1)]]
    BY <1>4, <1>7
  <2> QED BY <1>0, <1>2, <1>7, <2>1, <2>2, <2>3, <2>4 DEF PairTypes
<1>9. ASSUME NEW q \in p.probes PROVE RequestBacked(p, q)'
  <2>1. RequestBacked(p, q) BY DEF PairInv
  <2>2. MaintenanceCheck(p)!Peer(q[1]) \in MaintenanceCheck(p)!Nodes BY <1>0, PairFacts
  <2>3. PICK a, b : a = proved[MaintenanceCheck(p)!Peer(q[1])] /\ b = proved'[MaintenanceCheck(p)!Peer(q[1])] OBVIOUS
  <2>4. b.op = a.op /\ b.age <= a.age + 1 /\ b.age \in Int /\ a.age \in Int BY <1>4, <2>2, <2>3
  <2>5. CASE req'[q] # MaintenanceCheck(p)!None
    <3>1. /\ req[q] # MaintenanceCheck(p)!None
          /\ req'[q].op = req[q].op /\ req'[q].at = req[q].at
          /\ req'[q].sent \in Int /\ req[q].sent \in Int
          /\ req'[q].sent <= p.rpc => req'[q].sent = req[q].sent + 1
      BY <2>5, <1>5
    <3>2. \A r \in p.probes : r[1] = q[1] /\ req'[r] # MaintenanceCheck(p)!None => req'[r].op = req'[q].op
      BY <3>1, <2>1, <1>5 DEF RequestBacked
    <3>3. req'[q].sent <= p.rpc => req[q].sent <= p.rpc BY <3>1, <1>1
    <3>4. req'[q].at # "sent" /\ req'[q].sent <= p.rpc => b.op = req'[q].op /\ b.age <= req'[q].sent
      BY <3>1, <3>3, <2>1, <2>3, <2>4 DEF RequestBacked
    <3>5. req'[q].at = "replied" /\ q[2] = "policy" /\ req'[q].sent <= p.rpc => unsettled' <= req'[q].sent
      BY <3>1, <3>3, <2>1, <1>2 DEF RequestBacked
    <3> QED BY <3>2, <3>4, <3>5, <2>3 DEF RequestBacked
  <2>6. CASE req'[q] = MaintenanceCheck(p)!None BY <2>6 DEF RequestBacked
  <2> QED BY <2>5, <2>6
<1>10. ASSUME NEW n \in MaintenanceCheck(p)!Nodes PROVE ObservedBacked(p, n)'
  <2>1. ObservedBacked(p, n) BY DEF PairInv
  <2>2. MaintenanceCheck(p)!Peer(n) \in MaintenanceCheck(p)!Nodes BY <1>0, PairFacts
  <2>3. PICK a, b : a = proved[MaintenanceCheck(p)!Peer(n)] /\ b = proved'[MaintenanceCheck(p)!Peer(n)] OBVIOUS
  <2>4. b.op = a.op /\ b.age <= a.age + 1 /\ b.age \in Int /\ a.age \in Int BY <1>4, <2>2, <2>3
  <2>5. CASE MaintenanceCheck(p)!On(n)
    <3>1. PICK x, y : x = proc[n] /\ y = proc'[n] OBVIOUS
    <3>2. /\ y.op = x.op /\ x.replica \in Int /\ x.policy \in Int /\ y.replica \in Int /\ y.policy \in Int
          /\ y.replica = -1 <=> x.replica = -1
          /\ y.policy = -1 <=> x.policy = -1
          /\ y.replica # -1 /\ y.replica <= p.fresh => y.replica = x.replica + 1
          /\ y.policy # -1 /\ y.policy <= p.fresh => y.policy = x.policy + 1
      BY <2>5, <3>1, <1>3
    <3>3. y.replica # -1 => \A q \in MaintenanceCheck(p)!ProbesOf(n) :
            req'[q] # MaintenanceCheck(p)!None => req'[q].op = y.op
      BY <2>1, <2>5, <3>1, <3>2, <1>5 DEF ObservedBacked, MaintenanceCheck!ProbesOf
    <3>4. y.replica # -1 /\ y.replica <= p.fresh => b.op = y.op /\ b.age <= y.replica + p.rpc
      BY <2>1, <2>3, <2>4, <2>5, <3>1, <3>2, <1>1 DEF ObservedBacked
    <3>5. y.policy # -1 /\ y.policy <= p.fresh => unsettled' <= y.policy + p.rpc
      BY <2>1, <2>5, <3>1, <3>2, <1>1, <1>2 DEF ObservedBacked
    <3> QED BY <3>1, <3>3, <3>4, <3>5, <2>3 DEF ObservedBacked, MaintenanceCheck!ProbesOf
  <2>6. CASE ~MaintenanceCheck(p)!On(n) BY <2>6, <1>3 DEF ObservedBacked, MaintenanceCheck!On
  <2> QED BY <2>5, <2>6
<1>11. LocalBacked(p)'
  <2>1. p.coordinator \in MaintenanceCheck(p)!Nodes BY <1>0, PairFacts
  <2>2. PICK g, h : g = health[p.coordinator] /\ h = health'[p.coordinator] OBVIOUS
  <2>3. \/ h = MaintenanceCheck(p)!None
        \/ g # MaintenanceCheck(p)!None /\ (h.local <=> g.local) /\ h.age = g.age + 1 /\ g.age \in Int
    BY <2>1, <2>2, <1>6
  <2>4. g # MaintenanceCheck(p)!None /\ g.local => unsettled <= g.age BY <2>2, <1>0 DEF LocalBacked
  <2>5. h # MaintenanceCheck(p)!None /\ h.local => unsettled' <= h.age BY <2>3, <2>4, <1>2
  <2> QED BY <2>2, <2>5 DEF LocalBacked
<1>12. RoundsKept(p)'
  <2>1. p.worker \in MaintenanceCheck(p)!Nodes BY <1>0, PairFacts
  <2>2. CASE MaintenanceCheck(p)!On(p.worker)
    <3>1. /\ proc'[p.worker] # MaintenanceCheck(p)!Off
          /\ proc'[p.worker].replica = -1 <=> proc[p.worker].replica = -1
          /\ proc'[p.worker].policy = -1 <=> proc[p.worker].policy = -1
      BY <2>1, <2>2, <1>3, OffApart
    <3> QED BY <2>2, <3>1, <1>0, <1>7 DEF RoundsKept, MaintenanceCheck!On
  <2>3. CASE ~MaintenanceCheck(p)!On(p.worker)
    BY <2>1, <2>3, <1>0, <1>3, <1>7 DEF RoundsKept, MaintenanceCheck!On
  <2> QED BY <2>2, <2>3
<1> QED BY <1>8, <1>9, <1>10, <1>11, <1>12 DEF PairInv

LEMMA PairStep ==
    ASSUME NEW p, PairKept(p), PairInv(p), [MaintenanceCheck(p)!Next]_(MaintenanceCheck(p)!vars)
    PROVE  PairInv(p)'
<1>0. PairTypes(p) /\ p.worker \in MaintenanceCheck(p)!Nodes BY PairFacts DEF PairInv
<1>1. ASSUME NEW n \in MaintenanceCheck(p)!Nodes, NEW k \in {"replica", "policy"}, MaintenanceCheck(p)!Receive(n, k)
      PROVE  PairInv(p)'
  <2>1. PICK heard \in BOOLEAN : heard <=> MaintenanceCheck(p)!Bound(n, req[<<n, k>>].op)
    BY DEF MaintenanceCheck!Bound
  <2>2. /\ MaintenanceCheck(p)!Waits(n, k)
        /\ round' = [round EXCEPT ![n][k] = IF heard THEN "ok" ELSE "failed"]
        /\ proc' = [proc EXCEPT ![n][k] = IF heard THEN 0 ELSE -1]
        /\ req' = [req EXCEPT ![<<n, k>>] = MaintenanceCheck(p)!None]
        /\ UNCHANGED <<central, unsettled, health, proved>>
    BY <1>1, <2>1 DEF MaintenanceCheck!Receive, MaintenanceCheck!Never
  <2>3. LET r == req[<<n, k>>] IN
        heard => r # MaintenanceCheck(p)!None /\ r.at = "replied" /\ r.sent <= p.rpc /\ r.op = proc[n].op
    BY <1>1, <2>1 DEF MaintenanceCheck!Receive, MaintenanceCheck!Bound
  <2> QED BY <2>2, <2>3, ReceiveKeeps
<1>2. ASSUME NEW n \in MaintenanceCheck(p)!Nodes, NEW k \in {"replica", "policy"}, MaintenanceCheck(p)!ProbeFails(n, k)
      PROVE  PairInv(p)'
  <2>1. PICK heard \in BOOLEAN : ~heard OBVIOUS
  <2>2. /\ MaintenanceCheck(p)!Waits(n, k)
        /\ round' = [round EXCEPT ![n][k] = IF heard THEN "ok" ELSE "failed"]
        /\ proc' = [proc EXCEPT ![n][k] = IF heard THEN 0 ELSE -1]
        /\ UNCHANGED <<central, unsettled, health, proved, req>>
    BY <1>2, <2>1 DEF MaintenanceCheck!ProbeFails, MaintenanceCheck!Never
  <2> QED BY <2>1, <2>2, ReceiveKeeps
<1>3. ASSUME NEW n \in MaintenanceCheck(p)!Nodes,
             \/ \E op \in p.operations[n] : MaintenanceCheck(p)!Start(n, op)
             \/ MaintenanceCheck(p)!Expire(n) \/ MaintenanceCheck(p)!Stop(n) \/ MaintenanceCheck(p)!Observe(n)
             \/ MaintenanceCheck(p)!EndRound(n) \/ MaintenanceCheck(p)!AskReady(n) \/ MaintenanceCheck(p)!EndAsk(n)
      PROVE  PairInv(p)'
  BY <1>3, PairStartKeeps, PairExpireKeeps, PairStopKeeps, PairObserveKeeps, EndRoundKeeps, PairQuestionsKeep
<1>4. ASSUME NEW q \in p.probes,
             MaintenanceCheck(p)!Serve(q) \/ MaintenanceCheck(p)!Answer(q) \/ MaintenanceCheck(p)!Drop(q)
      PROVE  PairInv(p)'
  BY <1>0, <1>4, ServeKeeps, AnswerKeeps, PairQuestionsKeep
<1>5. ASSUME UNCHANGED MaintenanceCheck(p)!vars PROVE PairInv(p)' BY <1>0, <1>5, PairQuestionsKeep
<1> QED BY <1>1, <1>2, <1>3, <1>4, <1>5, ChangeKeeps, TickKeeps DEF MaintenanceCheck!Next

\* A node that says it is ready has had its peer check itself for the same operation,
\* and the authority's policy was the planned one, no longer ago than an observation
\* counts and a request takes; a failed round leaves neither observation
\* (src/maintenance.rs) - for every such time.
THEOREM PairValidated ==
    ASSUME NEW p, PairKept(p)
    PROVE  MaintenanceCheck(p)!Spec =>
            [](/\ MaintenanceCheck(p)!ReadyMeansPeerReady /\ MaintenanceCheck(p)!ReadyMeansPolicySettled
               /\ MaintenanceCheck(p)!FailureClearsBoth)
<1>1. MaintenanceCheck(p)!Init => PairInv(p) BY PairInit
<1>2. PairInv(p) /\ [MaintenanceCheck(p)!Next]_(MaintenanceCheck(p)!vars) => PairInv(p)' BY PairStep
<1>3. PairInv(p) => /\ MaintenanceCheck(p)!ReadyMeansPeerReady /\ MaintenanceCheck(p)!ReadyMeansPolicySettled
                    /\ MaintenanceCheck(p)!FailureClearsBoth
  BY PairImplies
<1> QED BY <1>1, <1>2, <1>3, PTL DEF MaintenanceCheck!Spec

-----------------------------------------------------------------------------
(* The distribution of policies and models                                  *)

\* What the theorems ask of the constants: room for an engine beside the template, an
\* older build reads plain settings, and NULL is no record.
DistributionKept(p) ==
    /\ p.maxVersion \in Nat /\ p.maxRevision \in Nat /\ p.maxNow \in Nat
    /\ p.maxStale \in Nat /\ p.handlerTime \in Nat /\ p.clockSkew \in Nat
    /\ p.maxEngines \in Nat /\ p.maxEngines >= 2
    /\ p.reread \subseteq p.slots
    /\ "plain" \notin p.refused \cup p.optional
    /\ p.none \notin Distribution(p)!Bundles \cup Distribution(p)!Leases \cup Distribution(p)!Saves

Actives(p) == [rev : 0..p.maxRevision, set : Distribution(p)!Settings, models : Distribution(p)!Manifests]
Revisions(p) == [set : Distribution(p)!Settings, base : 0..p.maxRevision]

\* A revision was not replaced before t.
NotReplaced(rev, t) ==
    /\ rev \in Nat /\ t \in Int /\ rev <= Len(inForce)
    /\ rev < Len(inForce) => t <= inForce[rev + 1]

\* Versions are read in the order of the passes, and none is newer than the file; a
\* revision is inserted once its engine is there.
LoadingKept(p) ==
    loading # p.none =>
        /\ loading = [kind |-> loading.kind, models |-> loading.models, hash |-> loading.hash,
                      bytes |-> loading.bytes, again |-> loading.again]
        /\ loading.kind # "template" => loading.models \in Distribution(p)!Manifests
        /\ saving # p.none => ~saving.done
        /\ \A s \in DOMAIN loading.hash : s \in p.slots /\ loading.hash[s] \in 0..source[s]
        /\ \A s \in DOMAIN loading.bytes :
            s \in DOMAIN loading.hash /\ loading.bytes[s] \in loading.hash[s]..source[s]
        /\ \A s \in DOMAIN loading.again :
            s \in DOMAIN loading.bytes /\ loading.again[s] \in loading.bytes[s]..source[s]

\* The revisions, the one in force, and the save that holds the permit.
ConsoleKept(p) ==
    /\ now \in 0..p.maxNow /\ source \in Distribution(p)!Manifests
    /\ ran \subseteq Distribution(p)!Manifests
    /\ saved \in Seq(Revisions(p)) /\ Len(saved) <= p.maxRevision /\ inForce \in Seq(Nat)
    /\ Len(inForce) <= Len(saved) /\ Len(saved) <= Len(inForce) + 1
    /\ \A i \in 1..Len(saved) : saved[i].base = i - 1 /\ Distribution(p)!Effective(saved[i].set)
    /\ held \in Nat
    /\ IF Distribution(p)!Started
       THEN /\ active \in Actives(p) /\ active.models \in ran /\ active.rev = Len(inForce)
            /\ saving = p.none => Len(saved) = active.rev
       ELSE saving = p.none /\ held = 0 /\ cache = p.none /\ capture = p.none
    /\ saving # p.none =>
        /\ saving \in Distribution(p)!Saves /\ saving.models \in ran /\ saving.base = active.rev
        /\ Distribution(p)!Effective(saving.set)
        /\ IF saving.done THEN Len(saved) = active.rev + 1
           ELSE Len(saved) = active.rev /\ Len(saved) < p.maxRevision
    /\ Distribution(p)!Engines + (IF saving = p.none THEN 0 ELSE 1) <= p.maxEngines
    /\ cache # p.none => cache \in Distribution(p)!Bundles /\ cache.files \in ran

\* What is hashed for a publication is compared with a snapshot that was in force when
\* the request that waits for it had begun.
CaptureKept(p) ==
    capture # p.none =>
        /\ capture = [by |-> capture.by, snap |-> capture.snap, hash |-> capture.hash]
        /\ capture.snap \in Actives(p) /\ capture.snap.models \in ran
        /\ capture.by = <<capture.by[1], capture.by[2]>> /\ capture.by[2] \in p.workers
        /\ capture.by[1] = "sync" =>
            /\ exch[capture.by[2]].pc = "asking"
            /\ NotReplaced(capture.snap.rev, exch[capture.by[2]].began)

\* A bundle for a worker: whole, of a set that ran, and readable.
Proper(p, w, b) ==
    /\ b \in Distribution(p)!Bundles /\ b.files \in ran
    /\ b.set \in p.refused \cup p.optional => build[w] = "new"

\* How long after it was replaced a worker's answer may still be of a revision.
Slack(p, w) == IF build[w] = "new" THEN p.handlerTime ELSE 0

ExchangeKept(p, w) ==
    /\ exch[w].pc \in {"idle", "asking", "record", "reply"}
    /\ exch[w].pc # "idle" =>
        /\ exch[w].began \in 0..now /\ now <= exch[w].began + p.handlerTime
        /\ poll[w].pc = "idle" /\ live[w] # p.none /\ Distribution(p)!Started
    /\ exch[w].pc \in {"record", "reply"} =>
        /\ exch[w] = [pc |-> exch[w].pc, began |-> exch[w].began, bundle |-> exch[w].bundle]
        /\ Proper(p, w, exch[w].bundle) /\ NotReplaced(exch[w].bundle.rev, exch[w].began)

PollKept(p, w) ==
    /\ poll[w].pc \in {"idle", "fetch", "install", "prune"}
    /\ poll[w].pc # "idle" =>
        /\ poll[w] = [pc |-> poll[w].pc, bundle |-> poll[w].bundle, time |-> poll[w].time,
                      before |-> poll[w].before]
        /\ live[w] # p.none /\ Proper(p, w, poll[w].bundle) /\ poll[w].time \in 0..now
        /\ NotReplaced(poll[w].bundle.rev, poll[w].time - Slack(p, w))
    /\ poll[w].pc \in {"install", "prune"} =>
        stored[w] = [bundle |-> poll[w].bundle, sync |-> poll[w].time]
    /\ poll[w].pc \in {"install", "prune"} => Distribution(p)!Complete(w, poll[w].bundle.files)
    /\ poll[w].pc = "prune" => live[w].bundle = poll[w].bundle

\* What is stored, and what runs, has all its files and its lease.
StoredKept(p, w) ==
    stored[w] # p.none =>
        /\ Proper(p, w, stored[w].bundle) /\ Distribution(p)!Complete(w, stored[w].bundle.files)
        /\ stored[w].sync \in 0..now /\ NotReplaced(stored[w].bundle.rev, stored[w].sync - Slack(p, w))

LiveKept(p, w) ==
    live[w] # p.none /\ live[w].bundle # p.none =>
        /\ live[w] \in Distribution(p)!Leases
        /\ Proper(p, w, live[w].bundle) /\ Distribution(p)!Complete(w, live[w].bundle.files)
        /\ live[w].until <= now + p.maxStale
        /\ NotReplaced(live[w].bundle.rev, live[w].until - p.maxStale - Slack(p, w))

WorkerKept(p, w) ==
    /\ build[w] \in {"old", "new"} /\ disk[w] \in [Distribution(p)!Manifests -> SUBSET p.slots]
    /\ ExchangeKept(p, w) /\ PollKept(p, w) /\ StoredKept(p, w) /\ LiveKept(p, w)

Shapes(p) ==
    /\ exch = [w \in p.workers |-> exch[w]] /\ build = [w \in p.workers |-> build[w]]
    /\ disk = [w \in p.workers |-> disk[w]] /\ stored = [w \in p.workers |-> stored[w]]
    /\ live = [w \in p.workers |-> live[w]] /\ poll = [w \in p.workers |-> poll[w]]

DistributionInv(p) ==
    /\ LoadingKept(p) /\ ConsoleKept(p) /\ CaptureKept(p) /\ Shapes(p)
    /\ \A w \in p.workers : WorkerKept(p, w)

\* A step that only adds to the sets that ran and to what came into force.
Onward == /\ ran \subseteq ran' /\ now \in Nat /\ now' \in Nat /\ now <= now'
          /\ inForce \in Seq(Nat) /\ (inForce' = inForce \/ inForce' = Append(inForce, now))

\* From f to g only the entry of w changes.
OnlyAt(p, w, f, g) == g = [v \in p.workers |-> IF v = w THEN g[w] ELSE f[v]]

LEMMA DistributionImplies ==
    ASSUME NEW p, DistributionKept(p), DistributionInv(p)
    PROVE  /\ Distribution(p)!TypeOK /\ Distribution(p)!OneModelSet /\ Distribution(p)!Restartable
           /\ Distribution(p)!StalenessBounded /\ Distribution(p)!NoLostEdit
           /\ Distribution(p)!OnlyReadablePolicies
<1>0. /\ ConsoleKept(p) /\ \A w \in p.workers : WorkerKept(p, w) BY DEF DistributionInv
<1>1. Distribution(p)!TypeOK
  <2>1. \A i \in 1..Len(saved) : saved[i].set \in Distribution(p)!Settings
    <3>1. saved \in Seq(Revisions(p)) BY <1>0 DEF ConsoleKept
    <3>2. \A i \in 1..Len(saved) : saved[i] \in Revisions(p) BY <3>1
    <3> QED BY <3>2 DEF Revisions
  <2>2. \A w \in p.workers : /\ disk[w] \in [Distribution(p)!Manifests -> SUBSET p.slots]
                             /\ live[w] # p.none /\ live[w].bundle # p.none => live[w] \in Distribution(p)!Leases
    BY <1>0 DEF WorkerKept, LiveKept
  <2> QED BY <2>1, <2>2, <1>0 DEF Distribution!TypeOK, ConsoleKept
<1>2. Distribution(p)!OneModelSet
  BY <1>0 DEF Distribution!OneModelSet, ConsoleKept, WorkerKept, LiveKept, Proper
<1>3. Distribution(p)!Restartable BY <1>0 DEF Distribution!Restartable, WorkerKept, StoredKept
<1>4. Distribution(p)!StalenessBounded
  <2> SUFFICES ASSUME NEW w \in p.workers, Distribution(p)!Ready(w), Len(inForce) > live[w].bundle.rev
      PROVE  now <= inForce[live[w].bundle.rev + 1] + p.maxStale + (IF build[w] = "new" THEN p.handlerTime ELSE 0)
    BY DEF Distribution!StalenessBounded
  <2>1. live[w] # p.none /\ live[w].bundle # p.none /\ live[w].until >= now BY DEF Distribution!Ready
  <2>2. LiveKept(p, w) BY <1>0 DEF WorkerKept
  <2>3. PICK a : a = live[w] OBVIOUS
  <2>4. a.until \in Nat /\ a.bundle.rev \in Nat
    BY <2>1, <2>2, <2>3 DEF LiveKept, DistributionKept, Distribution!Leases, Distribution!Bundles
  <2>5. PICK slack : slack = Slack(p, w) OBVIOUS
  <2>6. slack \in Nat BY <2>5 DEF Slack, DistributionKept
  <2>7. a.bundle.rev < Len(inForce) => a.until - p.maxStale - slack <= inForce[a.bundle.rev + 1]
    BY <2>1, <2>2, <2>3, <2>5 DEF LiveKept, NotReplaced
  <2>8. now \in Nat /\ inForce \in Seq(Nat) /\ p.maxStale \in Nat BY <1>0 DEF ConsoleKept, DistributionKept
  <2>9. a.bundle.rev < Len(inForce) BY <2>3, <2>4, <2>8
  <2>10. inForce[a.bundle.rev + 1] \in Nat
    <3>1. a.bundle.rev + 1 \in 1..Len(inForce) BY <2>4, <2>8, <2>9
    <3> QED BY <3>1, <2>8
  <2>11. PICK f \in Nat : f = inForce[a.bundle.rev + 1] BY <2>10
  <2>12. PICK u \in Nat : u = a.until BY <2>4
  <2>13. u - p.maxStale - slack <= f /\ u >= now BY <2>1, <2>3, <2>7, <2>9, <2>11, <2>12
  <2>14. now <= f + p.maxStale + slack BY <2>6, <2>8, <2>13
  <2> QED BY <2>3, <2>5, <2>11, <2>14 DEF Slack
<1>5. Distribution(p)!NoLostEdit BY <1>0 DEF Distribution!NoLostEdit, ConsoleKept
<1>6. Distribution(p)!OnlyReadablePolicies
  BY <1>0 DEF Distribution!OnlyReadablePolicies, WorkerKept, StoredKept, Proper
<1> QED BY <1>1, <1>2, <1>3, <1>4, <1>5, <1>6

LEMMA DistributionInit ==
    ASSUME NEW p, DistributionKept(p), Distribution(p)!Init
    PROVE  DistributionInv(p)
<1>0. /\ now = 0 /\ source = [s \in p.slots |-> 0] /\ saved = <<>> /\ inForce = <<>> /\ ran = {}
      /\ active = Distribution(p)!Down /\ loading = p.none /\ saving = p.none /\ held = 0
      /\ cache = p.none /\ capture = p.none
      /\ exch = [w \in p.workers |-> [pc |-> "idle"]] /\ build \in [p.workers -> {"old", "new"}]
      /\ disk = [w \in p.workers |-> [m \in Distribution(p)!Manifests |-> {}]]
      /\ stored = [w \in p.workers |-> p.none] /\ live = [w \in p.workers |-> p.none]
      /\ poll = [w \in p.workers |-> [pc |-> "idle"]]
  BY DEF Distribution!Init, Distribution!Idle
<1>1. LoadingKept(p) BY <1>0 DEF LoadingKept
<1>2. CaptureKept(p) BY <1>0 DEF CaptureKept
<1>3. Shapes(p) BY <1>0 DEF Shapes
<1>4. ConsoleKept(p)
  <2>1. active.rev = 0 BY <1>0 DEF Distribution!Down
  <2>2. source \in Distribution(p)!Manifests BY <1>0 DEF DistributionKept, Distribution!Manifests
  <2>3. Distribution(p)!Engines = 1 BY <1>0, <2>1 DEF Distribution!Engines
  <2>4. saved \in Seq(Revisions(p)) /\ inForce \in Seq(Nat) /\ Len(saved) = 0 /\ Len(inForce) = 0 BY <1>0
  <2>5. ~Distribution(p)!Started BY <1>0 DEF Distribution!Started
  <2> QED BY <1>0, <2>2, <2>3, <2>4, <2>5 DEF ConsoleKept, DistributionKept
<1>5. ASSUME NEW w \in p.workers PROVE WorkerKept(p, w)
  <2>1. disk[w] \in [Distribution(p)!Manifests -> SUBSET p.slots] BY <1>0
  <2>2. build[w] \in {"old", "new"} BY <1>0
  <2>3. exch[w].pc = "idle" /\ poll[w].pc = "idle" /\ stored[w] = p.none /\ live[w] = p.none BY <1>0
  <2> QED BY <2>1, <2>2, <2>3 DEF WorkerKept, ExchangeKept, PollKept, StoredKept, LiveKept
<1> QED BY <1>1, <1>2, <1>3, <1>4, <1>5 DEF DistributionInv

\* A revision that was not replaced before t is not after a step that comes later.
LEMMA NotReplacedStays ==
    ASSUME NEW rev, NEW t, NEW u \in Int, NotReplaced(rev, t), u <= t, t <= now, Onward
    PROVE  NotReplaced(rev, u)'
<1>0. /\ rev \in Nat /\ t \in Int /\ rev <= Len(inForce) /\ (rev < Len(inForce) => t <= inForce[rev + 1])
      /\ inForce \in Seq(Nat) /\ now \in Nat
  BY DEF NotReplaced, Onward
<1>1. rev < Len(inForce) => inForce[rev + 1] \in Nat
  <2>1. rev < Len(inForce) => rev + 1 \in 1..Len(inForce) BY <1>0
  <2> QED BY <1>0, <2>1
<1>2. CASE inForce' = inForce BY <1>0, <1>1, <1>2 DEF NotReplaced
<1>3. CASE inForce' = Append(inForce, now)
  <2>1. /\ Len(inForce') = Len(inForce) + 1 /\ inForce'[Len(inForce) + 1] = now
        /\ \A i \in 1..Len(inForce) : inForce'[i] = inForce[i]
    BY <1>0, <1>3
  <2>2. CASE rev = Len(inForce) BY <1>0, <2>1, <2>2 DEF NotReplaced
  <2>3. CASE rev < Len(inForce)
    <3>1. rev + 1 \in 1..Len(inForce) BY <1>0, <2>3
    <3>2. inForce'[rev + 1] = inForce[rev + 1] BY <3>1, <2>1
    <3> QED BY <1>0, <1>1, <2>1, <2>3, <3>2 DEF NotReplaced
  <2> QED BY <1>0, <2>2, <2>3
<1> QED BY <1>2, <1>3 DEF Onward

\* A bundle stays proper while its worker keeps its build or gets the new one.
LEMMA ProperStays ==
    ASSUME NEW p, NEW w, NEW b, Proper(p, w, b), ran \subseteq ran', build'[w] \in {build[w], "new"}
    PROVE  Proper(p, w, b)'
  BY DEF Proper, Distribution!Bundles, Distribution!Settings, Distribution!Manifests

LEMMA ExchangeStays ==
    ASSUME NEW p, NEW w \in p.workers, DistributionKept(p), ExchangeKept(p, w), Onward,
           exch'[w] = exch[w], exch[w].pc # "idle" =>
             /\ poll'[w] = poll[w] /\ live'[w] = live[w] /\ build'[w] = build[w]
             /\ now' <= exch[w].began + p.handlerTime /\ Distribution(p)!Started'
    PROVE  ExchangeKept(p, w)'
<1>0. PICK e : e = exch[w] OBVIOUS
<1>1. CASE e.pc = "idle" BY <1>0, <1>1 DEF ExchangeKept
<1>2. CASE e.pc # "idle"
  <2>1. /\ e.pc \in {"asking", "record", "reply"} /\ e.began \in 0..now /\ poll[w].pc = "idle" /\ live[w] # p.none
    BY <1>0, <1>2 DEF ExchangeKept
  <2>2. e.began \in 0..now' BY <2>1 DEF Onward
  <2>3. ASSUME e.pc \in {"record", "reply"}
        PROVE  /\ e = [pc |-> e.pc, began |-> e.began, bundle |-> e.bundle]
               /\ Proper(p, w, e.bundle)' /\ NotReplaced(e.bundle.rev, e.began)'
    <3>1. /\ e = [pc |-> e.pc, began |-> e.began, bundle |-> e.bundle]
          /\ Proper(p, w, e.bundle) /\ NotReplaced(e.bundle.rev, e.began)
      BY <2>3, <1>0 DEF ExchangeKept
    <3>2. build'[w] = build[w] BY <1>0, <1>2
    <3>3. Proper(p, w, e.bundle)' BY <3>1, <3>2, ProperStays DEF Onward
    <3>4. PICK t \in Int : t = e.began BY <2>1 DEF Onward
    <3>5. t <= t /\ t <= now BY <3>4, <2>1 DEF Onward
    <3>6. NotReplaced(e.bundle.rev, t)' BY <3>1, <3>4, <3>5, NotReplacedStays
    <3> QED BY <3>1, <3>3, <3>4, <3>6
  <2>4. exch'[w] = e /\ poll'[w].pc = "idle" /\ live'[w] # p.none /\ now' <= e.began + p.handlerTime
        /\ Distribution(p)!Started'
    BY <1>0, <1>2, <2>1
  <2> QED BY <1>2, <2>1, <2>2, <2>3, <2>4 DEF ExchangeKept
<1> QED BY <1>1, <1>2

\* How far back the answer of a worker goes.
LEMMA SlackFacts ==
    ASSUME NEW p, NEW w, DistributionKept(p)
    PROVE  /\ Slack(p, w) \in Nat /\ Slack(p, w)' \in Nat
           /\ build'[w] \in {build[w], "new"} => Slack(p, w) <= Slack(p, w)'
  BY DEF Slack, DistributionKept

LEMMA PollStays ==
    ASSUME NEW p, NEW w \in p.workers, DistributionKept(p), PollKept(p, w), Onward,
           poll'[w] = poll[w],
           poll[w].pc # "idle" =>
             /\ live'[w] = live[w] /\ build'[w] = build[w] /\ stored'[w] = stored[w]
             /\ \A m \in Distribution(p)!Manifests : disk[w][m] = p.slots => disk'[w][m] = p.slots
    PROVE  PollKept(p, w)'
<1>0. PICK e : e = poll[w] OBVIOUS
<1>1. CASE e.pc = "idle" BY <1>0, <1>1 DEF PollKept
<1>2. CASE e.pc # "idle"
  <2>1. /\ e.pc \in {"fetch", "install", "prune"} /\ e.time \in 0..now /\ live[w] # p.none
        /\ e = [pc |-> e.pc, bundle |-> e.bundle, time |-> e.time, before |-> e.before]
        /\ Proper(p, w, e.bundle) /\ NotReplaced(e.bundle.rev, e.time - Slack(p, w))
    BY <1>0, <1>2 DEF PollKept
  <2>2. e.time \in 0..now' BY <2>1 DEF Onward
  <2>3. build'[w] = build[w] /\ live'[w] = live[w] /\ stored'[w] = stored[w] BY <1>0, <1>2
  <2>4. Proper(p, w, e.bundle)' BY <2>1, <2>3, ProperStays DEF Onward
  <2>5. PICK k \in Nat : k = Slack(p, w) BY SlackFacts
  <2>6. Slack(p, w)' = k BY <2>3, <2>5 DEF Slack
  <2>7. e.time - k \in Int /\ e.time - k <= now BY <2>1, <2>5 DEF Onward
  <2>8. NotReplaced(e.bundle.rev, e.time - k)' BY <2>1, <2>5, <2>7, NotReplacedStays
  <2>9. e.pc \in {"install", "prune"} => disk'[w][e.bundle.files] = p.slots
    <3>1. e.bundle.files \in Distribution(p)!Manifests BY <2>1 DEF Proper, Distribution!Bundles
    <3> QED BY <3>1, <1>0, <1>2 DEF PollKept, Distribution!Complete
  <2>10. /\ e.pc \in {"install", "prune"} => stored'[w] = [bundle |-> e.bundle, sync |-> e.time]
         /\ e.pc = "prune" => live'[w].bundle = e.bundle
    BY <1>0, <2>3 DEF PollKept
  <2>11. poll'[w] = e /\ live'[w] # p.none BY <1>0, <2>1, <2>3
  <2> QED BY <2>1, <2>2, <2>4, <2>6, <2>8, <2>9, <2>10, <2>11 DEF PollKept, Distribution!Complete
<1> QED BY <1>1, <1>2

LEMMA StoredStays ==
    ASSUME NEW p, NEW w \in p.workers, DistributionKept(p), StoredKept(p, w), Onward,
           stored'[w] = stored[w], build'[w] \in {build[w], "new"},
           stored[w] # p.none =>
             (disk[w][stored[w].bundle.files] = p.slots => disk'[w][stored[w].bundle.files] = p.slots)
    PROVE  StoredKept(p, w)'
<1>0. PICK e : e = stored[w] OBVIOUS
<1>1. CASE e = p.none BY <1>0, <1>1 DEF StoredKept
<1>2. CASE e # p.none
  <2>1. /\ Proper(p, w, e.bundle) /\ disk[w][e.bundle.files] = p.slots /\ e.sync \in 0..now
        /\ NotReplaced(e.bundle.rev, e.sync - Slack(p, w))
    BY <1>0, <1>2 DEF StoredKept, Distribution!Complete
  <2>2. e.sync \in 0..now' BY <2>1 DEF Onward
  <2>3. disk'[w][e.bundle.files] = p.slots BY <1>0, <1>2, <2>1
  <2>4. Proper(p, w, e.bundle)' BY <2>1, ProperStays DEF Onward
  <2>5. PICK k \in Nat : k = Slack(p, w) BY SlackFacts
  <2>6. PICK l \in Nat : l = Slack(p, w)' BY SlackFacts
  <2>7. k <= l BY <2>5, <2>6, SlackFacts
  <2>8. e.sync - l \in Int /\ e.sync - l <= e.sync - k /\ e.sync - k <= now BY <2>1, <2>7 DEF Onward
  <2>9. NotReplaced(e.bundle.rev, e.sync - l)' BY <2>1, <2>5, <2>8, NotReplacedStays
  <2> QED BY <1>0, <2>2, <2>3, <2>4, <2>6, <2>9 DEF StoredKept, Distribution!Complete
<1> QED BY <1>1, <1>2

LEMMA LiveStays ==
    ASSUME NEW p, NEW w \in p.workers, DistributionKept(p), LiveKept(p, w), Onward,
           live'[w] = live[w], build'[w] = build[w],
           live[w] # p.none /\ live[w].bundle # p.none =>
             (disk[w][live[w].bundle.files] = p.slots => disk'[w][live[w].bundle.files] = p.slots)
    PROVE  LiveKept(p, w)'
<1>0. PICK e : e = live[w] OBVIOUS
<1>1. CASE e = p.none \/ e.bundle = p.none BY <1>0, <1>1 DEF LiveKept
<1>2. CASE e # p.none /\ e.bundle # p.none
  <2>1. /\ e \in Distribution(p)!Leases /\ Proper(p, w, e.bundle) /\ disk[w][e.bundle.files] = p.slots
        /\ e.until <= now + p.maxStale
        /\ NotReplaced(e.bundle.rev, e.until - p.maxStale - Slack(p, w))
    BY <1>0, <1>2 DEF LiveKept, Distribution!Complete
  <2>2. e.until \in Nat /\ p.maxStale \in Nat BY <2>1 DEF DistributionKept, Distribution!Leases
  <2>3. e.until <= now' + p.maxStale BY <2>1, <2>2 DEF Onward
  <2>4. disk'[w][e.bundle.files] = p.slots BY <1>0, <1>2, <2>1
  <2>5. Proper(p, w, e.bundle)' BY <2>1, ProperStays DEF Onward
  <2>6. PICK k \in Nat : k = Slack(p, w) BY SlackFacts
  <2>7. Slack(p, w)' = k BY <2>6 DEF Slack
  <2>8. e.until - p.maxStale - k \in Int /\ e.until - p.maxStale - k <= now BY <2>1, <2>2, <2>6 DEF Onward
  <2>9. NotReplaced(e.bundle.rev, e.until - p.maxStale - k)'
    <3>1. PICK t \in Int : t = e.until - p.maxStale - k BY <2>8
    <3>2. t <= t /\ t <= now BY <3>1, <2>8
    <3>3. NotReplaced(e.bundle.rev, t)' BY <2>1, <2>6, <3>1, <3>2, NotReplacedStays
    <3> QED BY <3>1, <3>3
  <2>10. live'[w] = e /\ (e \in Distribution(p)!Leases)' BY <1>0, <2>1
  <2> QED BY <2>3, <2>4, <2>5, <2>7, <2>9, <2>10 DEF LiveKept, Distribution!Complete
<1> QED BY <1>1, <1>2

\* Whoever is not part of a step that goes onward keeps its records.
LEMMA WorkerStays ==
    ASSUME NEW p, NEW w \in p.workers, DistributionKept(p), WorkerKept(p, w), Onward,
           exch'[w] = exch[w], build'[w] = build[w], disk'[w] = disk[w], stored'[w] = stored[w],
           live'[w] = live[w], poll'[w] = poll[w],
           exch[w].pc # "idle" => now' <= exch[w].began + p.handlerTime /\ Distribution(p)!Started'
    PROVE  WorkerKept(p, w)'
<1>1. ExchangeKept(p, w) /\ PollKept(p, w) /\ StoredKept(p, w) /\ LiveKept(p, w) BY DEF WorkerKept
<1>2. ExchangeKept(p, w)' BY <1>1, ExchangeStays
<1>3. PollKept(p, w)' BY <1>1, PollStays
<1>4. StoredKept(p, w)' BY <1>1, StoredStays
<1>5. LiveKept(p, w)' BY <1>1, LiveStays
<1>6. build'[w] \in {"old", "new"} /\ disk'[w] \in [Distribution(p)!Manifests -> SUBSET p.slots] BY DEF WorkerKept
<1> QED BY <1>2, <1>3, <1>4, <1>5, <1>6 DEF WorkerKept

LEMMA WorkersStay ==
    ASSUME NEW p, DistributionKept(p), DistributionInv(p), Onward, UNCHANGED Distribution(p)!workers,
           \A w \in p.workers : exch[w].pc # "idle" =>
             now' <= exch[w].began + p.handlerTime /\ Distribution(p)!Started'
    PROVE  Shapes(p)' /\ \A w \in p.workers : WorkerKept(p, w)'
<1>1. UNCHANGED <<exch, build, disk, stored, live, poll>> BY DEF Distribution!workers
<1>2. Shapes(p)' BY <1>1 DEF DistributionInv, Shapes
<1>3. ASSUME NEW w \in p.workers PROVE WorkerKept(p, w)'
  BY <1>1, WorkerStays DEF DistributionInv
<1> QED BY <1>2, <1>3

\* The same for a step of the coordinator that takes no time and does not stop it.
LEMMA WorkersIdle ==
    ASSUME NEW p, DistributionKept(p), DistributionInv(p), Onward, UNCHANGED <<now, Distribution(p)!workers>>,
           Distribution(p)!Started => Distribution(p)!Started'
    PROVE  Shapes(p)' /\ \A w \in p.workers : WorkerKept(p, w)'
<1>1. \A w \in p.workers : exch[w].pc # "idle" => now <= exch[w].began + p.handlerTime /\ Distribution(p)!Started
  BY DEF DistributionInv, WorkerKept, ExchangeKept
<1>2. \A w \in p.workers : exch[w].pc # "idle" => now' <= exch[w].began + p.handlerTime /\ Distribution(p)!Started'
  BY <1>1
<1> QED BY <1>2, WorkersStay

LEMMA ManifestFacts ==
    ASSUME NEW p, DistributionKept(p), NEW m \in Distribution(p)!Manifests
    PROVE  /\ DOMAIN m = p.slots /\ \A s \in p.slots : m[s] \in Nat /\ m[s] <= p.maxVersion
  BY DEF DistributionKept, Distribution!Manifests

LEMMA LoadingStays ==
    ASSUME NEW p, DistributionKept(p), LoadingKept(p), loading' = loading \/ loading' = p.none,
           UNCHANGED saving,
           source \in Distribution(p)!Manifests, source' \in Distribution(p)!Manifests,
           \A s \in p.slots : source[s] <= source'[s]
    PROVE  LoadingKept(p)'
<1>1. CASE loading' = p.none BY <1>1 DEF LoadingKept
<1>2. CASE loading' = loading /\ loading # p.none
  <2>1. PICK l : l = loading OBVIOUS
  <2>2. PICK a : a = source OBVIOUS
  <2>3. PICK b : b = source' OBVIOUS
  <2>4. /\ l = [kind |-> l.kind, models |-> l.models, hash |-> l.hash, bytes |-> l.bytes, again |-> l.again]
        /\ l.kind # "template" => l.models \in Distribution(p)!Manifests
        /\ \A s \in DOMAIN l.hash : s \in p.slots /\ l.hash[s] \in 0..a[s]
        /\ \A s \in DOMAIN l.bytes : s \in DOMAIN l.hash /\ l.bytes[s] \in l.hash[s]..a[s]
        /\ \A s \in DOMAIN l.again : s \in DOMAIN l.bytes /\ l.again[s] \in l.bytes[s]..a[s]
    BY <1>2, <2>1, <2>2 DEF LoadingKept
  <2>5. \A s \in p.slots : a[s] \in Nat /\ b[s] \in Nat /\ a[s] <= b[s] BY <2>2, <2>3, ManifestFacts
  <2>6. \A s \in DOMAIN l.hash : s \in p.slots /\ l.hash[s] \in 0..b[s] BY <2>4, <2>5
  <2>7. \A s \in DOMAIN l.bytes : s \in DOMAIN l.hash /\ l.bytes[s] \in l.hash[s]..b[s] BY <2>4, <2>5
  <2>8. \A s \in DOMAIN l.again : s \in DOMAIN l.bytes /\ l.again[s] \in l.bytes[s]..b[s] BY <2>4, <2>5, <2>7
  <2>9. loading' = l /\ (saving' # p.none => ~saving'.done) BY <1>2, <2>1 DEF LoadingKept
  <2> QED BY <2>3, <2>4, <2>6, <2>7, <2>8, <2>9 DEF LoadingKept
<1> QED BY <1>1, <1>2

LEMMA CaptureStays ==
    ASSUME NEW p, DistributionKept(p), DistributionInv(p), Onward, capture' = capture \/ capture' = p.none,
           capture' # p.none /\ capture.by[1] = "sync" => exch'[capture.by[2]] = exch[capture.by[2]]
    PROVE  CaptureKept(p)'
<1>1. CASE capture' = p.none BY <1>1 DEF CaptureKept
<1>2. CASE capture' = capture /\ capture # p.none
  <2>1. PICK c : c = capture OBVIOUS
  <2>2. /\ c = [by |-> c.by, snap |-> c.snap, hash |-> c.hash]
        /\ c.snap \in Actives(p) /\ c.snap.models \in ran
        /\ c.by = <<c.by[1], c.by[2]>> /\ c.by[2] \in p.workers
        /\ c.by[1] = "sync" => exch[c.by[2]].pc = "asking" /\ NotReplaced(c.snap.rev, exch[c.by[2]].began)
    BY <1>2, <2>1 DEF DistributionInv, CaptureKept
  <2>3. ASSUME c.by[1] = "sync" PROVE exch'[c.by[2]].pc = "asking" /\ NotReplaced(c.snap.rev, exch[c.by[2]].began)'
    <3>1. exch'[c.by[2]] = exch[c.by[2]] BY <1>2, <2>1, <2>3
    <3>2. PICK t : t = exch[c.by[2]].began OBVIOUS
    <3>3. t \in 0..now BY <2>2, <2>3, <3>2 DEF DistributionInv, WorkerKept, ExchangeKept
    <3>4. t \in Int /\ t <= t /\ t <= now BY <3>3 DEF Onward
    <3>5. NotReplaced(c.snap.rev, t)' BY <2>2, <2>3, <3>2, <3>4, NotReplacedStays
    <3> QED BY <2>2, <2>3, <3>1, <3>2, <3>5
  <2>4. capture' = c /\ ran \subseteq ran' BY <1>2, <2>1 DEF Onward
  <2>5. (c.snap \in Actives(p))' BY <2>2
  <2> QED BY <2>2, <2>3, <2>4, <2>5 DEF CaptureKept
<1> QED BY <1>1, <1>2

\* A step that leaves the revisions, the engine in force and the save alone.
LEMMA ConsoleStays ==
    ASSUME NEW p, DistributionKept(p), ConsoleKept(p), now' \in 0..p.maxNow,
           source' \in Distribution(p)!Manifests, UNCHANGED <<saved, inForce, ran, active, saving>>,
           held' = held \/ held' \in 0..held,
           \/ cache' = cache
           \/ Distribution(p)!Started /\ cache' \in Distribution(p)!Bundles /\ cache'.files \in ran,
           capture' = capture \/ capture' = p.none \/ Distribution(p)!Started
    PROVE  ConsoleKept(p)'
<1>1. PICK h \in Nat : h = held BY DEF ConsoleKept
<1>2. PICK g \in Nat : g = held' /\ g <= h BY <1>1
<1>3. PICK e : e = Distribution(p)!Engines OBVIOUS
<1>4. PICK d : d = Distribution(p)!Engines' OBVIOUS
<1>5. PICK r \in Nat : r = IF active.rev > 0 THEN 1 ELSE 0 OBVIOUS
<1>6. e = 1 + r + h /\ d = 1 + r + g BY <1>1, <1>2, <1>3, <1>4, <1>5 DEF Distribution!Engines
<1>7. PICK k \in Nat : k = IF saving = p.none THEN 0 ELSE 1 OBVIOUS
<1>8. e + k <= p.maxEngines BY <1>3, <1>7 DEF ConsoleKept
<1>9. d + k <= p.maxEngines
  <2>1. PICK m \in Nat : m = p.maxEngines BY DEF DistributionKept
  <2>2. 1 + r + h + k <= m BY <1>6, <1>8, <2>1
  <2>3. g <= h BY <1>2
  <2>4. 1 + r + g + k <= m BY <2>2, <2>3
  <2> QED BY <1>6, <2>1, <2>4
<1>10. Distribution(p)!Engines' + (IF saving' = p.none THEN 0 ELSE 1) <= p.maxEngines BY <1>4, <1>7, <1>9
<1>11. Distribution(p)!Started' <=> Distribution(p)!Started BY DEF Distribution!Started, Distribution!Down
<1>12. held' \in Nat /\ (held = 0 => held' = 0) BY <1>1, <1>2
<1>13. cache' # p.none => cache' \in Distribution(p)!Bundles /\ cache'.files \in ran BY DEF ConsoleKept
<1>14. IF Distribution(p)!Started'
       THEN /\ active' \in Actives(p) /\ active'.models \in ran' /\ active'.rev = Len(inForce')
            /\ saving' = p.none => Len(saved') = active'.rev
       ELSE saving' = p.none /\ held' = 0 /\ cache' = p.none /\ capture' = p.none
  BY <1>11, <1>12 DEF ConsoleKept
<1>15. saving' # p.none =>
        /\ saving' \in Distribution(p)!Saves /\ saving'.models \in ran' /\ saving'.base = active'.rev
        /\ Distribution(p)!Effective(saving'.set)
        /\ IF saving'.done THEN Len(saved') = active'.rev + 1
           ELSE Len(saved') = active'.rev /\ Len(saved') < p.maxRevision
  BY DEF ConsoleKept
<1>16. /\ ran' \subseteq Distribution(p)!Manifests /\ saved' \in Seq(Revisions(p)) /\ Len(saved') <= p.maxRevision
       /\ inForce' \in Seq(Nat) /\ Len(inForce') <= Len(saved') /\ Len(saved') <= Len(inForce') + 1
       /\ \A i \in 1..Len(saved') : saved'[i].base = i - 1 /\ Distribution(p)!Effective(saved'[i].set)
  BY DEF ConsoleKept
<1> QED BY <1>10, <1>12, <1>13, <1>14, <1>15, <1>16 DEF ConsoleKept, Distribution!Effective

\* What every step of a single part starts from.
LEMMA DistributionFacts ==
    ASSUME NEW p, DistributionKept(p), DistributionInv(p)
    PROVE  /\ LoadingKept(p) /\ ConsoleKept(p) /\ CaptureKept(p) /\ Shapes(p)
           /\ \A w \in p.workers : WorkerKept(p, w)
           /\ now \in Nat /\ now <= p.maxNow /\ p.maxNow \in Nat /\ source \in Distribution(p)!Manifests
           /\ \A s \in p.slots : source[s] \in Nat /\ source[s] <= source[s]
           /\ inForce \in Seq(Nat)
<1>1. /\ LoadingKept(p) /\ ConsoleKept(p) /\ CaptureKept(p) /\ Shapes(p)
      /\ \A w \in p.workers : WorkerKept(p, w)
  BY DEF DistributionInv
<1>2. /\ now \in Nat /\ now <= p.maxNow /\ p.maxNow \in Nat /\ source \in Distribution(p)!Manifests
      /\ inForce \in Seq(Nat)
  BY <1>1 DEF ConsoleKept, DistributionKept
<1>3. \A s \in p.slots : source[s] \in Nat BY <1>2, ManifestFacts
<1>4. \A s \in p.slots : source[s] <= source[s] BY <1>3
<1> QED BY <1>1, <1>2, <1>3, <1>4

LEMMA ReplaceKeeps ==
    ASSUME NEW p, DistributionKept(p), DistributionInv(p), NEW s \in p.slots, Distribution(p)!Replace(s)
    PROVE  DistributionInv(p)'
<1>0. /\ source[s] < p.maxVersion /\ source' = [source EXCEPT ![s] = source[s] + 1]
      /\ UNCHANGED <<now, saved, inForce, ran, active, loading, saving, held, cache, capture, Distribution(p)!workers>>
  BY DEF Distribution!Replace
<1>1. source' \in Distribution(p)!Manifests /\ \A t \in p.slots : source[t] <= source'[t]
  <2>1. source \in [p.slots -> 0..p.maxVersion] /\ p.maxVersion \in Nat
    BY DistributionFacts DEF Distribution!Manifests, DistributionKept
  <2>2. \A t \in p.slots : source'[t] \in 0..p.maxVersion /\ source[t] <= source'[t] BY <1>0, <2>1
  <2> QED BY <1>0, <2>1, <2>2 DEF Distribution!Manifests
<1>2. Onward /\ now' \in 0..p.maxNow BY <1>0, DistributionFacts DEF Onward
<1>3. UNCHANGED exch BY <1>0 DEF Distribution!workers
<1>4. LoadingKept(p)' BY <1>0, <1>1, DistributionFacts, LoadingStays
<1>5. ConsoleKept(p)' BY <1>0, <1>1, <1>2, DistributionFacts, ConsoleStays
<1>6. CaptureKept(p)' BY <1>0, <1>2, <1>3, CaptureStays
<1>7. Distribution(p)!Started => Distribution(p)!Started' BY <1>0 DEF Distribution!Started, Distribution!Down
<1>8. Shapes(p)' /\ \A w \in p.workers : WorkerKept(p, w)' BY <1>0, <1>2, <1>7, WorkersIdle
<1> QED BY <1>4, <1>5, <1>6, <1>8 DEF DistributionInv

LEMMA DistributionTickKeeps ==
    ASSUME NEW p, DistributionKept(p), DistributionInv(p), Distribution(p)!Tick
    PROVE  DistributionInv(p)'
<1>0. /\ now < p.maxNow /\ \A w \in p.workers : exch[w].pc # "idle" => now - exch[w].began < p.handlerTime
      /\ now' = now + 1 /\ UNCHANGED Distribution(p)!workers
      /\ UNCHANGED <<source, saved, inForce, ran, active, loading, saving, held, cache, capture>>
  BY DEF Distribution!Tick, Distribution!coordinator
<1>1. now' \in 0..p.maxNow /\ Onward BY <1>0, DistributionFacts DEF Onward
<1>2. UNCHANGED exch BY <1>0 DEF Distribution!workers
<1>3. \A w \in p.workers : exch[w].pc # "idle" =>
        now' <= exch[w].began + p.handlerTime /\ Distribution(p)!Started'
  <2> SUFFICES ASSUME NEW w \in p.workers, exch[w].pc # "idle"
      PROVE  now' <= exch[w].began + p.handlerTime /\ Distribution(p)!Started'
    OBVIOUS
  <2>1. exch[w].began \in 0..now /\ Distribution(p)!Started BY DEF DistributionInv, WorkerKept, ExchangeKept
  <2>2. PICK b \in Nat : b = exch[w].began BY <2>1, DistributionFacts
  <2>3. now - b < p.handlerTime BY <1>0, <2>2
  <2>4. PICK h \in Nat : h = p.handlerTime BY DEF DistributionKept
  <2>5. PICK n \in Nat : n = now BY DistributionFacts
  <2>6. n + 1 <= b + h BY <2>3, <2>4, <2>5
  <2>7. now' <= b + p.handlerTime BY <1>0, <2>4, <2>5, <2>6
  <2>8. Distribution(p)!Started' BY <1>0, <2>1 DEF Distribution!Started, Distribution!Down
  <2> QED BY <2>2, <2>7, <2>8
<1>4. LoadingKept(p)' BY <1>0, DistributionFacts, LoadingStays
<1>5. ConsoleKept(p)' BY <1>0, <1>1, DistributionFacts, ConsoleStays
<1>6. CaptureKept(p)' BY <1>0, <1>1, <1>2, CaptureStays
<1>7. Shapes(p)' /\ \A w \in p.workers : WorkerKept(p, w)' BY <1>0, <1>1, <1>3, WorkersStay
<1> QED BY <1>4, <1>5, <1>6, <1>7 DEF DistributionInv

\* A step of the coordinator that takes no time and leaves revisions, engines and
\* publication alone keeps the invariant but for what is being loaded and captured.
LEMMA CoordinatorStays ==
    ASSUME NEW p, DistributionKept(p), DistributionInv(p), held' = held \/ held' \in 0..held,
           UNCHANGED <<now, source, saved, inForce, ran, active, saving, cache, Distribution(p)!workers>>
    PROVE  /\ UNCHANGED capture \/ Distribution(p)!Started => ConsoleKept(p)'
           /\ Shapes(p)' /\ \A w \in p.workers : WorkerKept(p, w)'
           /\ UNCHANGED loading => LoadingKept(p)'
           /\ UNCHANGED capture => CaptureKept(p)'
<1>2. Onward BY DistributionFacts DEF Onward
<1>3. UNCHANGED exch BY DEF Distribution!workers
<1>4. UNCHANGED loading => LoadingKept(p)' BY DistributionFacts, LoadingStays
<1>5. now' \in 0..p.maxNow /\ source' \in Distribution(p)!Manifests BY DistributionFacts
<1>6. UNCHANGED capture \/ Distribution(p)!Started => ConsoleKept(p)' BY <1>5, DistributionFacts, ConsoleStays
<1>7. UNCHANGED capture => CaptureKept(p)' BY <1>2, <1>3, CaptureStays
<1>8. Distribution(p)!Started => Distribution(p)!Started' BY DEF Distribution!Started, Distribution!Down
<1>9. Shapes(p)' /\ \A w \in p.workers : WorkerKept(p, w)' BY <1>2, <1>8, WorkersIdle
<1> QED BY <1>4, <1>6, <1>7, <1>9

LEMMA QuietKeeps ==
    ASSUME NEW p, DistributionKept(p), DistributionInv(p),
           Distribution(p)!SessionEnds \/ \E w \in p.workers : Distribution(p)!Enable(w) \/ Distribution(p)!RetiredEnds(w)
    PROVE  DistributionInv(p)'
<1>0. held \in Nat BY DistributionFacts DEF ConsoleKept
<1>1. CASE Distribution(p)!SessionEnds
  <2>1. /\ held' \in 0..held
        /\ UNCHANGED <<now, source, saved, inForce, ran, active, saving, cache, Distribution(p)!workers, loading, capture>>
    BY <1>0, <1>1 DEF Distribution!SessionEnds
  <2> QED BY <2>1, CoordinatorStays DEF DistributionInv
<1>2. ASSUME NEW w \in p.workers, Distribution(p)!Enable(w) PROVE DistributionInv(p)'
  <2>1. UNCHANGED <<now, source, saved, inForce, ran, active, saving, cache, held, Distribution(p)!workers, loading, capture>>
    BY <1>2 DEF Distribution!Enable
  <2> QED BY <2>1, CoordinatorStays DEF DistributionInv
<1>3. ASSUME NEW w \in p.workers, Distribution(p)!RetiredEnds(w) PROVE DistributionInv(p)'
  <2>1. /\ UNCHANGED <<now, source, saved, inForce, ran, active, saving, cache, held, loading, capture>>
        /\ UNCHANGED <<exch, build, disk, stored, live, poll>>
    BY <1>3 DEF Distribution!RetiredEnds, Distribution!coordinator
  <2>2. Onward BY <2>1, DistributionFacts DEF Onward
  <2>3. LoadingKept(p)' BY <2>1, DistributionFacts, LoadingStays
  <2>4. now' \in 0..p.maxNow /\ source' \in Distribution(p)!Manifests BY <2>1, DistributionFacts
  <2>5. ConsoleKept(p)' BY <2>1, <2>4, DistributionFacts, ConsoleStays
  <2>6. CaptureKept(p)' BY <2>1, <2>2, CaptureStays
  <2>7. Shapes(p)' BY <2>1, DistributionFacts DEF Shapes
  <2>8. ASSUME NEW v \in p.workers PROVE WorkerKept(p, v)'
    <3>1. WorkerKept(p, v) BY DistributionFacts
    <3>2. exch[v].pc # "idle" => now' <= exch[v].began + p.handlerTime /\ Distribution(p)!Started'
      BY <2>1, <3>1 DEF WorkerKept, ExchangeKept, Distribution!Started, Distribution!Down
    <3> QED BY <2>1, <2>2, <3>1, <3>2, WorkerStays
  <2> QED BY <2>3, <2>5, <2>6, <2>7, <2>8 DEF DistributionInv
<1> QED BY <1>1, <1>2, <1>3

LEMMA BuildingKept ==
    ASSUME NEW p, NEW kind, NEW models, kind = "template" \/ models \in Distribution(p)!Manifests,
           loading' = Distribution(p)!Building(kind, models), saving' # p.none => ~saving'.done
    PROVE  LoadingKept(p)'
<1>1. PICK l : l = Distribution(p)!Building(kind, models) OBVIOUS
<1>2. /\ l = [kind |-> l.kind, models |-> l.models, hash |-> l.hash, bytes |-> l.bytes, again |-> l.again]
      /\ l.kind = kind /\ l.models = models /\ DOMAIN l.hash = {} /\ DOMAIN l.bytes = {} /\ DOMAIN l.again = {}
  BY <1>1 DEF Distribution!Building, Distribution!Nothing
<1>3. loading' = l BY <1>1
<1> QED BY <1>2, <1>3 DEF LoadingKept

\* An engine whose files hash the same before and after they were read has read those
\* files: each pass saw a version that is no older than the one before it.
LEMMA LoadedSteady ==
    ASSUME NEW p, DistributionKept(p), DistributionInv(p), Distribution(p)!Built
    PROVE  /\ Distribution(p)!Models(loading.hash) \in Distribution(p)!Manifests
           /\ Distribution(p)!Steady =>
                Distribution(p)!Models(loading.bytes) = Distribution(p)!Models(loading.hash)
<1>1. PICK l : l = loading OBVIOUS
<1>2. PICK needed : needed = Distribution(p)!Needed OBVIOUS
<1>3. /\ l # p.none /\ DOMAIN l.again = needed BY <1>1, <1>2 DEF Distribution!Built
<1>4. /\ l.kind # "template" => l.models \in Distribution(p)!Manifests
      /\ \A s \in DOMAIN l.hash : s \in p.slots /\ l.hash[s] \in 0..source[s]
      /\ \A s \in DOMAIN l.bytes : s \in DOMAIN l.hash /\ l.bytes[s] \in l.hash[s]..source[s]
      /\ \A s \in DOMAIN l.again : s \in DOMAIN l.bytes /\ l.again[s] \in l.bytes[s]..source[s]
  BY <1>1, <1>3, DistributionFacts DEF LoadingKept
<1>5. needed \subseteq p.slots /\ (l.kind = "template" => needed = p.slots)
  BY <1>1, <1>2 DEF Distribution!Needed, DistributionKept
<1>6. \A s \in p.slots : source[s] \in Nat /\ source[s] <= p.maxVersion
  BY DistributionFacts, ManifestFacts
<1>7. p.maxVersion \in Nat BY DEF DistributionKept
<1>8. Distribution(p)!Models(loading.hash) =
        [s \in p.slots |-> IF s \in needed THEN l.hash[s] ELSE l.models[s]]
  BY <1>1, <1>2 DEF Distribution!Models
<1>9. Distribution(p)!Models(loading.bytes) =
        [s \in p.slots |-> IF s \in needed THEN l.bytes[s] ELSE l.models[s]]
  BY <1>1, <1>2 DEF Distribution!Models
<1>10. \A s \in needed : l.hash[s] \in 0..p.maxVersion BY <1>3, <1>4, <1>6, <1>7
<1>11. \A s \in p.slots : s \notin needed => l.models[s] \in 0..p.maxVersion
  BY <1>4, <1>5, <1>7, ManifestFacts
<1>12. Distribution(p)!Models(loading.hash) \in Distribution(p)!Manifests
  BY <1>8, <1>10, <1>11 DEF Distribution!Manifests
<1>13. ASSUME Distribution(p)!Steady, NEW s \in needed PROVE l.bytes[s] = l.hash[s]
  <2>1. l.hash = l.again BY <1>1, <1>13 DEF Distribution!Steady
  <2>2. /\ s \in DOMAIN l.again /\ s \in DOMAIN l.bytes /\ s \in DOMAIN l.hash /\ source[s] \in Nat
        /\ l.hash[s] \in 0..source[s] /\ l.bytes[s] \in l.hash[s]..source[s] /\ l.again[s] \in l.bytes[s]..source[s]
    BY <1>3, <1>4, <1>5, <1>6
  <2> QED BY <2>1, <2>2
<1> QED BY <1>8, <1>9, <1>12, <1>13

LEMMA BootKeeps ==
    ASSUME NEW p, DistributionKept(p), DistributionInv(p), Distribution(p)!Boot
    PROVE  DistributionInv(p)'
<1>0. /\ loading' = Distribution(p)!Building("template", Distribution(p)!Nothing) /\ ~Distribution(p)!Started
      /\ UNCHANGED <<now, source, saved, inForce, ran, active, saving, held, cache, capture, Distribution(p)!workers>>
  BY DEF Distribution!Boot
<1>1. saving' = p.none BY <1>0, DistributionFacts DEF ConsoleKept
<1>2. LoadingKept(p)' BY <1>0, <1>1, BuildingKept
<1> QED BY <1>0, <1>2, CoordinatorStays DEF DistributionInv

\* A pass over the files reads a version no older than the passes before it did.
LEMMA LoadKeeps ==
    ASSUME NEW p, DistributionKept(p), DistributionInv(p), NEW s \in p.slots, Distribution(p)!Load(s)
    PROVE  DistributionInv(p)'
<1>0. /\ loading # p.none /\ s \in Distribution(p)!Needed
      /\ UNCHANGED <<now, source, saved, inForce, ran, active, saving, held, cache, capture, Distribution(p)!workers>>
  BY DEF Distribution!Load
<1>1. PICK l : l = loading OBVIOUS
<1>2. /\ l = [kind |-> l.kind, models |-> l.models, hash |-> l.hash, bytes |-> l.bytes, again |-> l.again]
      /\ l.kind # "template" => l.models \in Distribution(p)!Manifests
      /\ \A t \in DOMAIN l.hash : t \in p.slots /\ l.hash[t] \in 0..source[t]
      /\ \A t \in DOMAIN l.bytes : t \in DOMAIN l.hash /\ l.bytes[t] \in l.hash[t]..source[t]
      /\ \A t \in DOMAIN l.again : t \in DOMAIN l.bytes /\ l.again[t] \in l.bytes[t]..source[t]
  BY <1>0, <1>1, DistributionFacts DEF LoadingKept
<1>3. PICK pass \in {"hash", "bytes", "again"} :
        /\ s \notin DOMAIN loading[pass]
        /\ pass # "hash" => DOMAIN loading.hash = Distribution(p)!Needed
        /\ pass = "again" => DOMAIN loading.bytes = Distribution(p)!Needed
        /\ loading' = [loading EXCEPT ![pass] =
             [t \in DOMAIN loading[pass] \cup {s} |-> IF t = s THEN source[s] ELSE loading[pass][t]]]
  BY DEF Distribution!Load, Distribution!Digest
<1>4. PICK k : k = loading' OBVIOUS
<1>5. source[s] \in Nat /\ (saving' # p.none => ~saving'.done) BY <1>0, DistributionFacts DEF LoadingKept
<1>6. LoadingKept(p)'
  <2>1. CASE pass = "hash"
    <3>1. k = [l EXCEPT !.hash = [t \in DOMAIN l.hash \cup {s} |-> IF t = s THEN source[s] ELSE l.hash[t]]]
      BY <1>1, <1>3, <1>4, <2>1
    <3>2. /\ k = [kind |-> k.kind, models |-> k.models, hash |-> k.hash, bytes |-> k.bytes, again |-> k.again]
          /\ k.kind = l.kind /\ k.models = l.models /\ k.bytes = l.bytes /\ k.again = l.again
          /\ k.hash = [t \in DOMAIN l.hash \cup {s} |-> IF t = s THEN source[s] ELSE l.hash[t]]
      BY <1>2, <3>1
    <3>3. s \notin DOMAIN l.hash BY <1>1, <1>3, <2>1
    <3>4. \A t \in DOMAIN k.hash : t \in p.slots /\ k.hash[t] \in 0..source[t] BY <1>2, <1>5, <3>2
    <3>5. \A t \in DOMAIN k.bytes : t \in DOMAIN k.hash /\ k.bytes[t] \in k.hash[t]..source[t] BY <1>2, <3>2, <3>3
    <3> QED BY <1>0, <1>2, <1>4, <1>5, <3>2, <3>4, <3>5 DEF LoadingKept
  <2>2. CASE pass = "bytes"
    <3>1. k = [l EXCEPT !.bytes = [t \in DOMAIN l.bytes \cup {s} |-> IF t = s THEN source[s] ELSE l.bytes[t]]]
      BY <1>1, <1>3, <1>4, <2>2
    <3>2. /\ k = [kind |-> k.kind, models |-> k.models, hash |-> k.hash, bytes |-> k.bytes, again |-> k.again]
          /\ k.kind = l.kind /\ k.models = l.models /\ k.hash = l.hash /\ k.again = l.again
          /\ k.bytes = [t \in DOMAIN l.bytes \cup {s} |-> IF t = s THEN source[s] ELSE l.bytes[t]]
      BY <1>2, <3>1
    <3>3. s \notin DOMAIN l.bytes /\ s \in DOMAIN l.hash BY <1>0, <1>1, <1>3, <2>2
    <3>4. \A t \in DOMAIN k.bytes : t \in DOMAIN k.hash /\ k.bytes[t] \in k.hash[t]..source[t] BY <1>2, <1>5, <3>2, <3>3
    <3>5. \A t \in DOMAIN k.again : t \in DOMAIN k.bytes /\ k.again[t] \in k.bytes[t]..source[t] BY <1>2, <3>2, <3>3
    <3> QED BY <1>0, <1>2, <1>4, <1>5, <3>2, <3>4, <3>5 DEF LoadingKept
  <2>3. CASE pass = "again"
    <3>1. k = [l EXCEPT !.again = [t \in DOMAIN l.again \cup {s} |-> IF t = s THEN source[s] ELSE l.again[t]]]
      BY <1>1, <1>3, <1>4, <2>3
    <3>2. /\ k = [kind |-> k.kind, models |-> k.models, hash |-> k.hash, bytes |-> k.bytes, again |-> k.again]
          /\ k.kind = l.kind /\ k.models = l.models /\ k.hash = l.hash /\ k.bytes = l.bytes
          /\ k.again = [t \in DOMAIN l.again \cup {s} |-> IF t = s THEN source[s] ELSE l.again[t]]
      BY <1>2, <3>1
    <3>3. s \in DOMAIN l.bytes BY <1>0, <1>1, <1>3, <2>3
    <3>4. \A t \in DOMAIN k.again : t \in DOMAIN k.bytes /\ k.again[t] \in k.bytes[t]..source[t] BY <1>2, <1>5, <3>2, <3>3
    <3> QED BY <1>0, <1>2, <1>4, <1>5, <3>2, <3>4 DEF LoadingKept
  <2> QED BY <2>1, <2>2, <2>3
<1> QED BY <1>0, <1>6, CoordinatorStays DEF DistributionInv

LEMMA CaptureKeeps ==
    ASSUME NEW p, DistributionKept(p), DistributionInv(p), NEW s \in p.slots, Distribution(p)!Capture(s)
    PROVE  DistributionInv(p)'
<1>0. /\ Distribution(p)!Started
      /\ UNCHANGED <<now, source, saved, inForce, ran, active, loading, saving, held, cache, Distribution(p)!workers>>
  BY DEF Distribution!Capture
<1>1. PICK c \in IF capture # p.none THEN {capture}
                 ELSE {[by |-> r, snap |-> active, hash |-> Distribution(p)!Nothing] : r \in Distribution(p)!Requests} :
        capture' = [c EXCEPT !.hash =
           [t \in DOMAIN c.hash \cup {s} |-> IF t = s THEN source[s] ELSE c.hash[t]]]
  BY DEF Distribution!Capture, Distribution!Digest
<1>2. /\ c = [by |-> c.by, snap |-> c.snap, hash |-> c.hash]
      /\ c.snap \in Actives(p) /\ c.snap.models \in ran
      /\ c.by = <<c.by[1], c.by[2]>> /\ c.by[2] \in p.workers
      /\ c.by[1] = "sync" => exch[c.by[2]].pc = "asking" /\ NotReplaced(c.snap.rev, exch[c.by[2]].began)
  <2>1. CASE capture # p.none BY <1>1, <2>1, DistributionFacts DEF CaptureKept
  <2>2. CASE capture = p.none
    <3>1. PICK r \in Distribution(p)!Requests : c = [by |-> r, snap |-> active, hash |-> Distribution(p)!Nothing]
      BY <1>1, <2>2
    <3>2. c.by = r /\ c.snap = active /\ c = [by |-> c.by, snap |-> c.snap, hash |-> c.hash] BY <3>1
    <3>3. /\ r = <<r[1], r[2]>> /\ r[2] \in p.workers /\ (r[1] = "sync" => exch[r[2]].pc = "asking")
      BY <3>1 DEF Distribution!Requests
    <3>4. active \in Actives(p) /\ active.models \in ran /\ active.rev = Len(inForce)
      BY <1>0, DistributionFacts DEF ConsoleKept
    <3>5. r[1] = "sync" => exch[r[2]].began \in 0..now
      BY <3>3, DistributionFacts DEF WorkerKept, ExchangeKept
    <3>6. Len(inForce) \in Nat BY DistributionFacts
    <3>7. r[1] = "sync" => NotReplaced(active.rev, exch[r[2]].began)
      BY <3>4, <3>5, <3>6, DistributionFacts DEF NotReplaced
    <3> QED BY <3>2, <3>3, <3>4, <3>7
  <2> QED BY <2>1, <2>2
<1>3. PICK d : d = capture' OBVIOUS
<1>4. /\ d = [by |-> d.by, snap |-> d.snap, hash |-> d.hash] /\ d.by = c.by /\ d.snap = c.snap
  BY <1>1, <1>2, <1>3
<1>5. UNCHANGED <<exch, ran, inForce>> BY <1>0 DEF Distribution!workers
<1>6. c.by[1] = "sync" => NotReplaced(c.snap.rev, exch[c.by[2]].began)' BY <1>2, <1>5 DEF NotReplaced
<1>7. (c.snap \in Actives(p))' BY <1>2
<1>8. CaptureKept(p)' BY <1>2, <1>3, <1>4, <1>5, <1>6, <1>7 DEF CaptureKept
<1> QED BY <1>0, <1>8, CoordinatorStays DEF DistributionInv

\* What the console keeps, spelled out for the steps that change it.
LEMMA ConsoleFacts ==
    ASSUME NEW p, DistributionKept(p), DistributionInv(p)
    PROVE  /\ saved \in Seq(Revisions(p)) /\ Len(saved) \in Nat /\ Len(inForce) \in Nat /\ Len(saved) <= p.maxRevision
           /\ p.maxRevision \in Nat /\ p.maxEngines \in Nat
           /\ Len(inForce) <= Len(saved) /\ Len(saved) <= Len(inForce) + 1
           /\ \A i \in 1..Len(saved) : saved[i].base = i - 1 /\ Distribution(p)!Effective(saved[i].set)
           /\ held \in Nat /\ ran \subseteq Distribution(p)!Manifests
           /\ Distribution(p)!Started =>
                /\ active \in Actives(p) /\ active.models \in ran /\ active.rev = Len(inForce)
                /\ active.rev \in Nat
                /\ saving = p.none => Len(saved) = active.rev
           /\ ~Distribution(p)!Started => saving = p.none /\ held = 0 /\ cache = p.none /\ capture = p.none
           /\ saving # p.none =>
                /\ Distribution(p)!Started /\ saving \in Distribution(p)!Saves /\ saving.models \in ran
                /\ saving.base = active.rev /\ Distribution(p)!Effective(saving.set)
                /\ saving.done => Len(saved) = active.rev + 1
                /\ ~saving.done => Len(saved) = active.rev /\ Len(saved) < p.maxRevision
           /\ Distribution(p)!Engines = 1 + (IF active.rev > 0 THEN 1 ELSE 0) + held
           /\ Distribution(p)!Engines' = 1 + (IF active'.rev > 0 THEN 1 ELSE 0) + held'
           /\ Distribution(p)!Engines + (IF saving = p.none THEN 0 ELSE 1) <= p.maxEngines
           /\ cache # p.none => cache \in Distribution(p)!Bundles /\ cache.files \in ran
<1>1. ConsoleKept(p) BY DistributionFacts
<1>2. p.maxRevision \in Nat /\ p.maxEngines \in Nat BY DEF DistributionKept
<1>3. saved \in Seq(Revisions(p)) /\ inForce \in Seq(Nat) BY <1>1 DEF ConsoleKept
<1>4. Len(saved) \in Nat /\ Len(inForce) \in Nat BY <1>3
<1>5. Distribution(p)!Started =>
        /\ active \in Actives(p) /\ active.models \in ran /\ active.rev = Len(inForce)
        /\ saving = p.none => Len(saved) = active.rev
  BY <1>1 DEF ConsoleKept
<1>6. ~Distribution(p)!Started => saving = p.none /\ held = 0 /\ cache = p.none /\ capture = p.none
  BY <1>1 DEF ConsoleKept
<1>7. saving # p.none =>
        /\ Distribution(p)!Started /\ saving \in Distribution(p)!Saves /\ saving.models \in ran
        /\ saving.base = active.rev /\ Distribution(p)!Effective(saving.set)
        /\ saving.done => Len(saved) = active.rev + 1
        /\ ~saving.done => Len(saved) = active.rev /\ Len(saved) < p.maxRevision
  BY <1>1, <1>6 DEF ConsoleKept
<1>8. /\ Distribution(p)!Engines = 1 + (IF active.rev > 0 THEN 1 ELSE 0) + held
      /\ Distribution(p)!Engines' = 1 + (IF active'.rev > 0 THEN 1 ELSE 0) + held'
  BY DEF Distribution!Engines
<1>9. /\ Len(saved) <= p.maxRevision /\ Len(inForce) <= Len(saved) /\ Len(saved) <= Len(inForce) + 1
      /\ \A i \in 1..Len(saved) : saved[i].base = i - 1 /\ Distribution(p)!Effective(saved[i].set)
      /\ held \in Nat /\ ran \subseteq Distribution(p)!Manifests
      /\ Distribution(p)!Engines + (IF saving = p.none THEN 0 ELSE 1) <= p.maxEngines
      /\ cache # p.none => cache \in Distribution(p)!Bundles /\ cache.files \in ran
  BY <1>1 DEF ConsoleKept
<1> QED BY <1>2, <1>3, <1>4, <1>5, <1>6, <1>7, <1>8, <1>9

LEMMA SaveKeeps ==
    ASSUME NEW p, DistributionKept(p), DistributionInv(p), NEW base \in 0..p.maxRevision,
           NEW set \in Distribution(p)!Settings, Distribution(p)!Save(base, set)
    PROVE  DistributionInv(p)'
<1>0. /\ Distribution(p)!Started /\ saving = p.none /\ Len(saved) < p.maxRevision
      /\ base = active.rev /\ Distribution(p)!Effective(set) /\ Distribution(p)!Engines < p.maxEngines
      /\ saving' = [base |-> base, set |-> set, models |-> active.models, done |-> FALSE]
      /\ loading' = Distribution(p)!Building("save", active.models)
      /\ UNCHANGED <<now, source, saved, inForce, ran, active, held, cache, capture, Distribution(p)!workers>>
  BY DEF Distribution!Save
<1>1. active \in Actives(p) /\ active.models \in ran /\ active.rev = Len(inForce) /\ Len(saved) = active.rev
  BY <1>0, ConsoleFacts
<1>2. active.models \in Distribution(p)!Manifests BY <1>1, ConsoleFacts
<1>3. PICK s : s = saving' OBVIOUS
<1>4. /\ s \in Distribution(p)!Saves /\ s.models \in ran /\ s.base = active.rev /\ s.set = set /\ ~s.done
  BY <1>0, <1>1, <1>2, <1>3 DEF Distribution!Saves
<1>5. s # p.none BY <1>4 DEF DistributionKept
<1>6. Distribution(p)!Started' BY <1>0 DEF Distribution!Started, Distribution!Down
<1>7. LoadingKept(p)' BY <1>0, <1>2, <1>3, <1>4, BuildingKept
<1>8. Distribution(p)!Engines' + 1 <= p.maxEngines
  <2>1. Distribution(p)!Engines' = Distribution(p)!Engines BY <1>0 DEF Distribution!Engines
  <2>2. PICK r \in Nat : r = IF active.rev > 0 THEN 1 ELSE 0 OBVIOUS
  <2>3. Distribution(p)!Engines = 1 + r + held /\ held \in Nat /\ p.maxEngines \in Nat BY <2>2, ConsoleFacts
  <2> QED BY <1>0, <2>1, <2>3
<1>9. ConsoleKept(p)'
  <2>1. /\ now' \in 0..p.maxNow /\ source' \in Distribution(p)!Manifests BY <1>0, DistributionFacts
  <2>2. /\ ran' \subseteq Distribution(p)!Manifests /\ saved' \in Seq(Revisions(p)) /\ Len(saved') <= p.maxRevision
        /\ inForce' \in Seq(Nat) /\ Len(inForce') <= Len(saved') /\ Len(saved') <= Len(inForce') + 1
        /\ \A i \in 1..Len(saved') : saved'[i].base = i - 1 /\ Distribution(p)!Effective(saved'[i].set)
        /\ held' \in Nat
    BY <1>0, ConsoleFacts, DistributionFacts DEF Distribution!Effective
  <2>3. /\ active' \in Actives(p) /\ active'.models \in ran' /\ active'.rev = Len(inForce') BY <1>0, <1>1
  <2>4. /\ saving' = s /\ Len(saved') = active'.rev /\ Len(saved') < p.maxRevision /\ s.base = active'.rev
        /\ s.models \in ran' /\ Distribution(p)!Effective(s.set)
    BY <1>0, <1>1, <1>3, <1>4
  <2>5. cache' # p.none => cache' \in Distribution(p)!Bundles /\ cache'.files \in ran' BY <1>0, ConsoleFacts
  <2> QED BY <1>4, <1>5, <1>6, <1>8, <2>1, <2>2, <2>3, <2>4, <2>5 DEF ConsoleKept, Distribution!Effective
<1>10. Onward /\ UNCHANGED exch BY <1>0, DistributionFacts DEF Onward, Distribution!workers
<1>11. CaptureKept(p)' BY <1>0, <1>10, CaptureStays
<1>12. Shapes(p)' /\ \A w \in p.workers : WorkerKept(p, w)' BY <1>0, <1>6, <1>10, WorkersIdle
<1> QED BY <1>7, <1>9, <1>11, <1>12 DEF DistributionInv

LEMMA SaveBuiltKeeps ==
    ASSUME NEW p, DistributionKept(p), DistributionInv(p), Distribution(p)!SaveBuilt
    PROVE  DistributionInv(p)'
<1>0. /\ saving # p.none /\ Distribution(p)!Built /\ loading' = p.none
      /\ UNCHANGED <<now, source, saved, inForce, active, held, cache, capture, Distribution(p)!workers>>
  BY DEF Distribution!SaveBuilt
<1>1. \/ /\ Distribution(p)!Steady
         /\ saving' = [saving EXCEPT !.models = Distribution(p)!Models(loading.hash)]
         /\ ran' = ran \cup {Distribution(p)!Models(loading.bytes)}
      \/ saving' = p.none /\ ran' = ran
  BY DEF Distribution!SaveBuilt
<1>2. PICK m : m = Distribution(p)!Models(loading.hash) OBVIOUS
<1>3. m \in Distribution(p)!Manifests /\ (Distribution(p)!Steady => Distribution(p)!Models(loading.bytes) = m)
  BY <1>0, <1>2, LoadedSteady
<1>4. PICK s : s = saving OBVIOUS
<1>5. /\ s \in Distribution(p)!Saves /\ s.models \in ran /\ s.base = active.rev /\ Distribution(p)!Effective(s.set)
      /\ Distribution(p)!Started /\ (s.done => Len(saved) = active.rev + 1)
      /\ (~s.done => Len(saved) = active.rev /\ Len(saved) < p.maxRevision)
  BY <1>0, <1>4, ConsoleFacts
<1>6. Distribution(p)!Started' BY <1>0, <1>5 DEF Distribution!Started, Distribution!Down
<1>7. LoadingKept(p)' BY <1>0 DEF LoadingKept
<1>8. ran \subseteq ran' /\ ran' \subseteq Distribution(p)!Manifests BY <1>1, <1>3, ConsoleFacts
<1>9. Onward /\ UNCHANGED exch BY <1>0, <1>8, DistributionFacts DEF Onward, Distribution!workers
<1>10. CaptureKept(p)' BY <1>0, <1>9, CaptureStays
<1>11. Shapes(p)' /\ \A w \in p.workers : WorkerKept(p, w)' BY <1>0, <1>6, <1>9, WorkersIdle
<1>12. PICK t : t = saving' OBVIOUS
<1>13. CASE t # p.none
  <2>1. t = [s EXCEPT !.models = m] /\ m \in ran' BY <1>1, <1>2, <1>3, <1>4, <1>12, <1>13
  <2>2. /\ t \in Distribution(p)!Saves /\ t.models = m /\ t.base = s.base /\ t.set = s.set /\ t.done = s.done
    BY <1>3, <1>5, <2>1 DEF Distribution!Saves
  <2>3. /\ now' \in 0..p.maxNow /\ source' \in Distribution(p)!Manifests BY <1>0, DistributionFacts
  <2>4. /\ saved' \in Seq(Revisions(p)) /\ Len(saved') <= p.maxRevision
        /\ inForce' \in Seq(Nat) /\ Len(inForce') <= Len(saved') /\ Len(saved') <= Len(inForce') + 1
        /\ \A i \in 1..Len(saved') : saved'[i].base = i - 1 /\ Distribution(p)!Effective(saved'[i].set)
        /\ held' \in Nat
    BY <1>0, ConsoleFacts, DistributionFacts DEF Distribution!Effective
  <2>5. /\ active' \in Actives(p) /\ active'.models \in ran' /\ active'.rev = Len(inForce')
    BY <1>0, <1>5, <1>8, ConsoleFacts
  <2>6. /\ t.models \in ran' /\ t.base = active'.rev /\ Distribution(p)!Effective(t.set)
        /\ (t.done => Len(saved') = active'.rev + 1)
        /\ (~t.done => Len(saved') = active'.rev /\ Len(saved') < p.maxRevision)
    BY <1>0, <1>5, <2>1, <2>2
  <2>7. Distribution(p)!Engines' + 1 <= p.maxEngines
    <3>1. Distribution(p)!Engines' = Distribution(p)!Engines BY <1>0 DEF Distribution!Engines
    <3>2. Distribution(p)!Engines + 1 <= p.maxEngines BY <1>0, ConsoleFacts
    <3> QED BY <3>1, <3>2
  <2>8. cache' # p.none => cache' \in Distribution(p)!Bundles /\ cache'.files \in ran' BY <1>0, <1>8, ConsoleFacts
  <2>9. ConsoleKept(p)'
    BY <1>6, <1>8, <1>12, <1>13, <2>2, <2>3, <2>4, <2>5, <2>6, <2>7, <2>8 DEF ConsoleKept, Distribution!Effective
  <2> QED BY <1>7, <1>10, <1>11, <2>9 DEF DistributionInv
<1>14. CASE t = p.none
  <2>0. ~s.done BY <1>0, <1>4, DistributionFacts DEF LoadingKept, Distribution!Built
  <2>1. /\ now' \in 0..p.maxNow /\ source' \in Distribution(p)!Manifests BY <1>0, DistributionFacts
  <2>2. /\ saved' \in Seq(Revisions(p)) /\ Len(saved') <= p.maxRevision
        /\ inForce' \in Seq(Nat) /\ Len(inForce') <= Len(saved') /\ Len(saved') <= Len(inForce') + 1
        /\ \A i \in 1..Len(saved') : saved'[i].base = i - 1 /\ Distribution(p)!Effective(saved'[i].set)
        /\ held' \in Nat
    BY <1>0, ConsoleFacts, DistributionFacts DEF Distribution!Effective
  <2>3. /\ active' \in Actives(p) /\ active'.models \in ran' /\ active'.rev = Len(inForce') /\ Len(saved') = active'.rev
    BY <1>0, <1>5, <1>8, <2>0, ConsoleFacts
  <2>4. Distribution(p)!Engines' + 0 <= p.maxEngines
    <3>1. Distribution(p)!Engines' = Distribution(p)!Engines BY <1>0 DEF Distribution!Engines
    <3>2. PICK r \in Nat : r = IF active.rev > 0 THEN 1 ELSE 0 OBVIOUS
    <3>3. Distribution(p)!Engines = 1 + r + held /\ held \in Nat /\ p.maxEngines \in Nat
          /\ Distribution(p)!Engines + 1 <= p.maxEngines
      BY <1>0, <3>2, ConsoleFacts
    <3> QED BY <3>1, <3>3
  <2>5. cache' # p.none => cache' \in Distribution(p)!Bundles /\ cache'.files \in ran' BY <1>0, <1>8, ConsoleFacts
  <2>6. ConsoleKept(p)'
    BY <1>6, <1>8, <1>12, <1>14, <2>1, <2>2, <2>3, <2>4, <2>5 DEF ConsoleKept, Distribution!Effective
  <2> QED BY <1>7, <1>10, <1>11, <2>6 DEF DistributionInv
<1> QED BY <1>13, <1>14

LEMMA SaveCommitKeeps ==
    ASSUME NEW p, DistributionKept(p), DistributionInv(p), Distribution(p)!SaveCommit
    PROVE  DistributionInv(p)'
<1>0. /\ saving # p.none /\ loading = p.none /\ ~saving.done
      /\ UNCHANGED <<now, source, inForce, ran, active, loading, held, cache, capture, Distribution(p)!workers>>
  BY DEF Distribution!SaveCommit
<1>1. PICK s : s = saving OBVIOUS
<1>2. \/ /\ saved' = Append(saved, [set |-> s.set, base |-> s.base])
         /\ saving' = [s EXCEPT !.done = TRUE]
      \/ saving' = p.none /\ saved' = saved
  BY <1>1 DEF Distribution!SaveCommit
<1>3. /\ s \in Distribution(p)!Saves /\ s.models \in ran /\ s.base = active.rev /\ Distribution(p)!Effective(s.set)
      /\ Distribution(p)!Started /\ Len(saved) = active.rev /\ Len(saved) < p.maxRevision
      /\ active \in Actives(p) /\ active.models \in ran /\ active.rev = Len(inForce)
  BY <1>0, <1>1, ConsoleFacts
<1>4. Distribution(p)!Started' BY <1>0, <1>3 DEF Distribution!Started, Distribution!Down
<1>5. LoadingKept(p)' BY <1>0 DEF LoadingKept
<1>6. Onward /\ UNCHANGED exch BY <1>0, DistributionFacts DEF Onward, Distribution!workers
<1>7. CaptureKept(p)' BY <1>0, <1>6, CaptureStays
<1>8. Shapes(p)' /\ \A w \in p.workers : WorkerKept(p, w)' BY <1>0, <1>4, <1>6, WorkersIdle
<1>9. /\ now' \in 0..p.maxNow /\ source' \in Distribution(p)!Manifests /\ ran' \subseteq Distribution(p)!Manifests
      /\ inForce' \in Seq(Nat) /\ held' \in Nat
      /\ active' \in Actives(p) /\ active'.models \in ran' /\ active'.rev = Len(inForce')
      /\ cache' # p.none => cache' \in Distribution(p)!Bundles /\ cache'.files \in ran'
  BY <1>0, <1>3, ConsoleFacts, DistributionFacts
<1>10. Distribution(p)!Engines' + 1 <= p.maxEngines /\ Distribution(p)!Engines' + 0 <= p.maxEngines
  <2>1. Distribution(p)!Engines' = Distribution(p)!Engines BY <1>0 DEF Distribution!Engines
  <2>2. PICK r \in Nat : r = IF active.rev > 0 THEN 1 ELSE 0 OBVIOUS
  <2>3. Distribution(p)!Engines = 1 + r + held /\ held \in Nat /\ p.maxEngines \in Nat
        /\ Distribution(p)!Engines + 1 <= p.maxEngines
    BY <1>0, <2>2, ConsoleFacts
  <2> QED BY <2>1, <2>3
<1>11. CASE saving' = p.none /\ saved' = saved
  <2>1. /\ saved' \in Seq(Revisions(p)) /\ Len(saved') <= p.maxRevision
        /\ Len(inForce') <= Len(saved') /\ Len(saved') <= Len(inForce') + 1
        /\ \A i \in 1..Len(saved') : saved'[i].base = i - 1 /\ Distribution(p)!Effective(saved'[i].set)
        /\ Len(saved') = active'.rev
    BY <1>0, <1>3, <1>11, ConsoleFacts
  <2>2. ConsoleKept(p)' BY <1>4, <1>9, <1>10, <1>11, <2>1 DEF ConsoleKept, Distribution!Effective
  <2> QED BY <1>5, <1>7, <1>8, <2>2 DEF DistributionInv
<1>12. CASE saved' = Append(saved, [set |-> s.set, base |-> s.base]) /\ saving' = [s EXCEPT !.done = TRUE]
  <2>1. PICK t : t = saving' OBVIOUS
  <2>2. /\ t \in Distribution(p)!Saves /\ t.models = s.models /\ t.base = s.base /\ t.set = s.set /\ t.done
    BY <1>3, <1>12, <2>1 DEF Distribution!Saves
  <2>3. t # p.none BY <2>2 DEF DistributionKept
  <2>4. PICK r : r = [set |-> s.set, base |-> s.base] OBVIOUS
  <2>5. r \in Revisions(p) /\ r.set = s.set /\ r.base = s.base
    BY <1>3, <2>4 DEF Revisions, Distribution!Saves
  <2>6. saved \in Seq(Revisions(p)) /\ saved' = Append(saved, r) BY <1>12, <2>4, ConsoleFacts
  <2>7. /\ saved' \in Seq(Revisions(p)) /\ Len(saved') = Len(saved) + 1 /\ saved'[Len(saved) + 1] = r
        /\ \A i \in 1..Len(saved) : saved'[i] = saved[i]
    BY <2>5, <2>6
  <2>8. Len(saved) \in Nat /\ active.rev \in Nat /\ p.maxRevision \in Nat BY <1>3, ConsoleFacts
  <2>9. /\ Len(saved') <= p.maxRevision /\ Len(inForce') <= Len(saved') /\ Len(saved') <= Len(inForce') + 1
        /\ Len(saved') = active'.rev + 1
    BY <1>0, <1>3, <2>7, <2>8
  <2>10. \A i \in 1..Len(saved') : saved'[i].base = i - 1 /\ Distribution(p)!Effective(saved'[i].set)
    <3> SUFFICES ASSUME NEW i \in 1..Len(saved')
        PROVE  saved'[i].base = i - 1 /\ Distribution(p)!Effective(saved'[i].set)
      OBVIOUS
    <3>1. CASE i \in 1..Len(saved)
      <4>1. saved'[i] = saved[i] BY <2>7, <3>1
      <4>2. saved[i].base = i - 1 /\ Distribution(p)!Effective(saved[i].set) BY <3>1, ConsoleFacts
      <4> QED BY <4>1, <4>2
    <3>2. CASE i = Len(saved) + 1
      <4>1. saved'[i] = r BY <2>7, <3>2
      <4>2. r.base = i - 1 BY <1>3, <2>5, <2>8, <3>2
      <4> QED BY <1>3, <2>5, <4>1, <4>2
    <3> QED BY <2>7, <2>8, <3>1, <3>2
  <2>11. t.models \in ran' /\ t.base = active'.rev /\ Distribution(p)!Effective(t.set) BY <1>0, <1>3, <2>2
  <2>12. ConsoleKept(p)'
    BY <1>4, <1>9, <1>10, <2>1, <2>2, <2>3, <2>7, <2>9, <2>10, <2>11 DEF ConsoleKept, Distribution!Effective
  <2> QED BY <1>5, <1>7, <1>8, <2>12 DEF DistributionInv
<1> QED BY <1>2, <1>11, <1>12

LEMMA SaveActivateKeeps ==
    ASSUME NEW p, DistributionKept(p), DistributionInv(p), Distribution(p)!SaveActivate
    PROVE  DistributionInv(p)'
<1>0. /\ saving # p.none /\ saving.done /\ inForce' = Append(inForce, now) /\ saving' = p.none
      /\ active' = [rev |-> Len(saved), set |-> saving.set, models |-> saving.models]
      /\ UNCHANGED <<now, source, saved, ran, loading, cache, capture, Distribution(p)!workers>>
  BY DEF Distribution!SaveActivate
<1>1. PICK h \in Nat : h = held BY ConsoleFacts
<1>2. PICK more \in {0, 1} : held' = held + more /\ (more = 1 => active.rev > 0)
  <2>1. PICK keeps \in BOOLEAN : held' = held + (IF keeps /\ active.rev > 0 THEN 1 ELSE 0)
    BY DEF Distribution!SaveActivate
  <2> QED BY <2>1
<1>3. PICK s : s = saving OBVIOUS
<1>4. /\ s \in Distribution(p)!Saves /\ s.models \in ran
      /\ Distribution(p)!Started /\ Len(saved) = active.rev + 1
      /\ active.rev = Len(inForce) /\ active.rev \in Nat /\ Len(saved) <= p.maxRevision /\ p.maxRevision \in Nat
  BY <1>0, <1>3, ConsoleFacts
<1>5. PICK a : a = active' OBVIOUS
<1>6. a \in Actives(p) /\ a.models \in ran /\ a.rev = Len(saved) /\ a.rev > 0
  BY <1>0, <1>3, <1>4, <1>5 DEF Actives, Distribution!Saves
<1>7. Distribution(p)!Started'
  <2>1. Distribution(p)!Down.rev = 0 BY DEF Distribution!Down
  <2> QED BY <1>5, <1>6, <2>1 DEF Distribution!Started
<1>8. /\ inForce' \in Seq(Nat) /\ Len(inForce') = Len(inForce) + 1 BY <1>0, DistributionFacts
<1>9. Distribution(p)!Engines' + 0 <= p.maxEngines
  <2>1. Distribution(p)!Engines' = 1 + 1 + held' BY <1>5, <1>6, ConsoleFacts
  <2>2. PICK r \in {0, 1} : r = (IF active.rev > 0 THEN 1 ELSE 0) OBVIOUS
  <2>3. more = 1 => r = 1 BY <1>2, <2>2
  <2>4. Distribution(p)!Engines = 1 + r + h /\ Distribution(p)!Engines + 1 <= p.maxEngines
    BY <1>0, <1>1, <2>2, ConsoleFacts
  <2>5. PICK m \in Nat : m = p.maxEngines BY DEF DistributionKept
  <2>6. 1 + r + h + 1 <= m BY <2>4, <2>5
  <2>7. 1 + 1 + (h + more) <= m BY <2>3, <2>6
  <2> QED BY <1>1, <1>2, <2>1, <2>5, <2>7
<1>10. Onward /\ UNCHANGED exch BY <1>0, DistributionFacts DEF Onward, Distribution!workers
<1>11. LoadingKept(p)' BY <1>0, DistributionFacts DEF LoadingKept
<1>12. CaptureKept(p)' BY <1>0, <1>10, CaptureStays
<1>13. Shapes(p)' /\ \A w \in p.workers : WorkerKept(p, w)' BY <1>0, <1>7, <1>10, WorkersIdle
<1>14. /\ now' \in 0..p.maxNow /\ source' \in Distribution(p)!Manifests /\ ran' \subseteq Distribution(p)!Manifests
       /\ saved' \in Seq(Revisions(p)) /\ Len(saved') <= p.maxRevision
       /\ \A i \in 1..Len(saved') : saved'[i].base = i - 1 /\ Distribution(p)!Effective(saved'[i].set)
       /\ cache' # p.none => cache' \in Distribution(p)!Bundles /\ cache'.files \in ran'
  BY <1>0, ConsoleFacts, DistributionFacts
<1>15. held' \in Nat BY <1>1, <1>2
<1>16. Len(inForce') = Len(saved') /\ Len(inForce') <= Len(saved') /\ Len(saved') <= Len(inForce') + 1
  BY <1>0, <1>4, <1>8
<1>17. active' \in Actives(p) /\ active'.models \in ran' /\ active'.rev = Len(inForce') /\ Len(saved') = active'.rev
  BY <1>0, <1>5, <1>6, <1>16
<1>18. ConsoleKept(p)'
  BY <1>0, <1>7, <1>8, <1>9, <1>14, <1>15, <1>16, <1>17 DEF ConsoleKept, Distribution!Effective
<1> QED BY <1>11, <1>12, <1>13, <1>18 DEF DistributionInv

LEMMA DistributionStartKeeps ==
    ASSUME NEW p, DistributionKept(p), DistributionInv(p), Distribution(p)!Start
    PROVE  DistributionInv(p)'
<1>0. /\ ~Distribution(p)!Started /\ Distribution(p)!Built
      /\ UNCHANGED <<now, source, saved, saving, held, cache, capture, Distribution(p)!workers>>
  BY DEF Distribution!Start
<1>1. saving = p.none /\ held = 0 /\ cache = p.none /\ capture = p.none BY <1>0, ConsoleFacts
<1>2. PICK m : m = Distribution(p)!Models(loading.hash) OBVIOUS
<1>3. m \in Distribution(p)!Manifests /\ (Distribution(p)!Steady => Distribution(p)!Models(loading.bytes) = m)
  BY <1>0, <1>2, LoadedSteady
<1>4. \A w \in p.workers : exch[w].pc = "idle" BY <1>0, DistributionFacts DEF WorkerKept, ExchangeKept
<1>5. \/ loading' = p.none /\ UNCHANGED <<active, ran, inForce>>
      \/ /\ ran' = ran \cup {m} /\ loading' = Distribution(p)!Building("first", m)
         /\ UNCHANGED <<active, inForce>>
      \/ /\ ran' = ran \cup {m} /\ loading' = p.none
         /\ active' = [rev |-> Len(saved), models |-> m,
                       set |-> IF saved = <<>> THEN "plain" ELSE saved[Len(saved)].set]
         /\ inForce' = IF Len(inForce) < Len(saved) THEN Append(inForce, now) ELSE inForce
  BY <1>2, <1>3 DEF Distribution!Start
<1>6. ran \subseteq ran' /\ ran' \subseteq Distribution(p)!Manifests BY <1>3, <1>5, ConsoleFacts
<1>7. Onward /\ UNCHANGED exch BY <1>0, <1>5, <1>6, DistributionFacts DEF Onward, Distribution!workers
<1>8. Shapes(p)' /\ \A w \in p.workers : WorkerKept(p, w)' BY <1>0, <1>4, <1>7, WorkersStay
<1>9. CaptureKept(p)' BY <1>0, <1>7, CaptureStays
<1>10. LoadingKept(p)'
  <2>1. CASE loading' = p.none BY <2>1 DEF LoadingKept
  <2>2. CASE loading' = Distribution(p)!Building("first", m) BY <1>0, <1>1, <1>3, <2>2, BuildingKept
  <2> QED BY <1>5, <2>1, <2>2
<1>11. /\ now' \in 0..p.maxNow /\ source' \in Distribution(p)!Manifests
       /\ saved' \in Seq(Revisions(p)) /\ Len(saved') <= p.maxRevision
       /\ \A i \in 1..Len(saved') : saved'[i].base = i - 1 /\ Distribution(p)!Effective(saved'[i].set)
       /\ cache' = p.none /\ capture' = p.none /\ held' = 0 /\ saving' = p.none
  BY <1>0, <1>1, ConsoleFacts, DistributionFacts
<1>12. /\ Len(saved) \in Nat /\ Len(inForce) \in Nat /\ Len(inForce) <= Len(saved) /\ Len(saved) <= Len(inForce) + 1
       /\ Len(saved) <= p.maxRevision /\ p.maxRevision \in Nat
  BY ConsoleFacts
<1>13. inForce' \in Seq(Nat) /\ Len(inForce') <= Len(saved') /\ Len(saved') <= Len(inForce') + 1
       /\ (active' # active => Len(inForce') = Len(saved'))
  <2>1. CASE inForce' = inForce /\ active' = active BY <1>0, <1>12, <2>1, DistributionFacts
  <2>2. CASE inForce' = IF Len(inForce) < Len(saved) THEN Append(inForce, now) ELSE inForce
    <3>1. CASE Len(inForce) < Len(saved)
      <4>1. inForce' \in Seq(Nat) /\ Len(inForce') = Len(inForce) + 1 BY <2>2, <3>1, DistributionFacts
      <4> QED BY <1>0, <1>12, <3>1, <4>1
    <3>2. CASE ~(Len(inForce) < Len(saved)) BY <1>0, <1>12, <2>2, <3>2, DistributionFacts
    <3> QED BY <3>1, <3>2
  <2> QED BY <1>5, <2>1, <2>2
<1>14. Distribution(p)!Engines' + 0 <= p.maxEngines
  <2>1. PICK r \in {0, 1} : r = IF active'.rev > 0 THEN 1 ELSE 0 OBVIOUS
  <2>2. Distribution(p)!Engines' = 1 + r + 0 BY <1>11, <2>1, ConsoleFacts
  <2>3. PICK k \in Nat : k = p.maxEngines /\ k >= 2 BY DEF DistributionKept
  <2> QED BY <2>2, <2>3
<1>15. Distribution(p)!Started' =>
         active' \in Actives(p) /\ active'.models \in ran' /\ active'.rev = Len(saved') /\ active' # active
  <2> SUFFICES ASSUME Distribution(p)!Started'
      PROVE  active' \in Actives(p) /\ active'.models \in ran' /\ active'.rev = Len(saved') /\ active' # active
    OBVIOUS
  <2>1. active' # active BY <1>0 DEF Distribution!Started, Distribution!Down
  <2>2. PICK set : set = IF saved = <<>> THEN "plain" ELSE saved[Len(saved)].set OBVIOUS
  <2>3. active' = [rev |-> Len(saved), models |-> m, set |-> set] /\ m \in ran' BY <1>5, <2>1, <2>2
  <2>4. set \in Distribution(p)!Settings
    <3>1. CASE saved = <<>> BY <2>2, <3>1 DEF Distribution!Settings
    <3>2. CASE saved # <<>>
      <4>1. saved \in Seq(Revisions(p)) BY ConsoleFacts
      <4>2. Len(saved) \in 1..Len(saved) BY <3>2, <4>1
      <4>3. saved[Len(saved)] \in Revisions(p) BY <4>1, <4>2
      <4> QED BY <2>2, <3>2, <4>3 DEF Revisions
    <3> QED BY <3>1, <3>2
  <2>5. [rev |-> Len(saved), models |-> m, set |-> set] \in Actives(p) BY <1>3, <1>12, <2>4 DEF Actives
  <2> QED BY <1>0, <2>1, <2>3, <2>5
<1>16. ConsoleKept(p)'
  <2>1. Distribution(p)!Started' =>
          /\ active' \in Actives(p) /\ active'.models \in ran' /\ active'.rev = Len(inForce')
          /\ saving' = p.none => Len(saved') = active'.rev
    BY <1>13, <1>15
  <2> QED BY <1>6, <1>11, <1>13, <1>14, <2>1 DEF ConsoleKept, Distribution!Effective
<1> QED BY <1>8, <1>9, <1>10, <1>16 DEF DistributionInv

LEMMA DistributionCrashKeeps ==
    ASSUME NEW p, DistributionKept(p), DistributionInv(p), Distribution(p)!Crash
    PROVE  DistributionInv(p)'
<1>0. /\ active' = Distribution(p)!Down /\ loading' = p.none /\ saving' = p.none /\ held' = 0
      /\ cache' = p.none /\ capture' = p.none /\ exch' = [w \in p.workers |-> [pc |-> "idle"]]
      /\ UNCHANGED <<now, source, saved, inForce, ran, build, disk, stored, live, poll>>
  BY DEF Distribution!Crash, Distribution!Idle
<1>1. LoadingKept(p)' /\ CaptureKept(p)' BY <1>0 DEF LoadingKept, CaptureKept
<1>2. ~Distribution(p)!Started' BY <1>0 DEF Distribution!Started, Distribution!Down
<1>3. Onward BY <1>0, DistributionFacts DEF Onward
<1>4. ASSUME NEW w \in p.workers PROVE WorkerKept(p, w)'
  <2>1. WorkerKept(p, w) BY DistributionFacts
  <2>2. exch'[w].pc = "idle" BY <1>0
  <2>3. ExchangeKept(p, w)' BY <2>2 DEF ExchangeKept
  <2>4. PollKept(p, w)' BY <1>0, <1>3, <2>1, PollStays DEF WorkerKept
  <2>5. StoredKept(p, w)' BY <1>0, <1>3, <2>1, StoredStays DEF WorkerKept
  <2>6. LiveKept(p, w)' BY <1>0, <1>3, <2>1, LiveStays DEF WorkerKept
  <2>7. build'[w] \in {"old", "new"} /\ disk'[w] \in [Distribution(p)!Manifests -> SUBSET p.slots]
    BY <1>0, <2>1 DEF WorkerKept
  <2> QED BY <2>3, <2>4, <2>5, <2>6, <2>7 DEF WorkerKept
<1>5. Shapes(p)'
  <2>1. Shapes(p) BY DistributionFacts
  <2>2. exch' = [w \in p.workers |-> exch'[w]] BY <1>0
  <2> QED BY <1>0, <2>1, <2>2 DEF Shapes
<1>6. Distribution(p)!Engines' + 0 <= p.maxEngines
  <2>1. active'.rev = 0 BY <1>0 DEF Distribution!Down
  <2>2. Distribution(p)!Engines' = 1 BY <1>0, <2>1, ConsoleFacts
  <2> QED BY <2>2 DEF DistributionKept
<1>7. /\ now' \in 0..p.maxNow /\ source' \in Distribution(p)!Manifests /\ ran' \subseteq Distribution(p)!Manifests
      /\ saved' \in Seq(Revisions(p)) /\ Len(saved') <= p.maxRevision /\ inForce' \in Seq(Nat)
      /\ Len(inForce') <= Len(saved') /\ Len(saved') <= Len(inForce') + 1
      /\ \A i \in 1..Len(saved') : saved'[i].base = i - 1 /\ Distribution(p)!Effective(saved'[i].set)
  BY <1>0, ConsoleFacts, DistributionFacts
<1>8. ConsoleKept(p)' BY <1>0, <1>2, <1>6, <1>7 DEF ConsoleKept, Distribution!Effective
<1> QED BY <1>1, <1>4, <1>5, <1>8 DEF DistributionInv

LEMMA OnlyAtExcept ==
    ASSUME NEW p, NEW w \in p.workers, NEW f, NEW g, NEW x, f = [v \in p.workers |-> f[v]]
    PROVE  /\ g = f => OnlyAt(p, w, f, g)
           /\ g = [f EXCEPT ![w] = x] => OnlyAt(p, w, f, g) /\ g[w] = x
<1>1. g = f => OnlyAt(p, w, f, g) BY DEF OnlyAt
<1>2. ASSUME g = [f EXCEPT ![w] = x] PROVE OnlyAt(p, w, f, g) /\ g[w] = x
  <2>1. g = [v \in p.workers |-> IF v = w THEN x ELSE f[v]] BY <1>2
  <2>2. g[w] = x BY <2>1
  <2> QED BY <2>1, <2>2 DEF OnlyAt
<1> QED BY <1>1, <1>2

\* A step of one worker, or for one: everyone else keeps what it has.
LEMMA OneWorker ==
    ASSUME NEW p, DistributionKept(p), DistributionInv(p), NEW w \in p.workers,
           UNCHANGED <<now, source, saved, inForce, ran, active, loading, saving, held>>,
           \/ cache' = cache
           \/ Distribution(p)!Started /\ cache' \in Distribution(p)!Bundles /\ cache'.files \in ran,
           capture' = capture \/ capture' = p.none,
           capture' # p.none /\ capture.by[1] = "sync" => exch'[capture.by[2]] = exch[capture.by[2]],
           OnlyAt(p, w, exch, exch'), OnlyAt(p, w, build, build'), OnlyAt(p, w, disk, disk'),
           OnlyAt(p, w, stored, stored'), OnlyAt(p, w, live, live'), OnlyAt(p, w, poll, poll'),
           WorkerKept(p, w)'
    PROVE  DistributionInv(p)'
<1>1. Onward BY DistributionFacts DEF Onward
<1>2. LoadingKept(p)' BY DistributionFacts, LoadingStays
<1>3. now' \in 0..p.maxNow /\ source' \in Distribution(p)!Manifests BY DistributionFacts
<1>4. ConsoleKept(p)' BY <1>3, DistributionFacts, ConsoleStays
<1>5. CaptureKept(p)' BY <1>1, CaptureStays
<1>6. Shapes(p)' BY DEF Shapes, OnlyAt
<1>7. ASSUME NEW v \in p.workers PROVE WorkerKept(p, v)'
  <2>1. CASE v = w BY <2>1
  <2>2. CASE v # w
    <3>1. /\ exch'[v] = exch[v] /\ build'[v] = build[v] /\ disk'[v] = disk[v] /\ stored'[v] = stored[v]
          /\ live'[v] = live[v] /\ poll'[v] = poll[v]
      BY <2>2 DEF OnlyAt
    <3>2. WorkerKept(p, v) BY DistributionFacts
    <3>3. exch[v].pc # "idle" => now' <= exch[v].began + p.handlerTime /\ Distribution(p)!Started'
      BY <3>2 DEF WorkerKept, ExchangeKept, Distribution!Started, Distribution!Down
    <3> QED BY <1>1, <3>1, <3>2, <3>3, WorkerStays
  <2> QED BY <2>1, <2>2
<1> QED BY <1>2, <1>4, <1>5, <1>6, <1>7 DEF DistributionInv

\* What a worker keeps, spelled out for the steps that change it.
LEMMA WorkerFacts ==
    ASSUME NEW p, DistributionKept(p), DistributionInv(p), NEW w \in p.workers
    PROVE  /\ build[w] \in {"old", "new"} /\ disk[w] \in [Distribution(p)!Manifests -> SUBSET p.slots]
           /\ ExchangeKept(p, w) /\ PollKept(p, w) /\ StoredKept(p, w) /\ LiveKept(p, w)
           /\ poll[w].pc # "idle" => exch[w].pc = "idle"
           /\ exch[w].pc # "idle" => Distribution(p)!Started /\ poll[w].pc = "idle" /\ live[w] # p.none
           /\ capture # p.none /\ capture.by[1] = "sync" => exch[capture.by[2]].pc = "asking"
           /\ exch = [v \in p.workers |-> exch[v]] /\ build = [v \in p.workers |-> build[v]]
           /\ disk = [v \in p.workers |-> disk[v]] /\ stored = [v \in p.workers |-> stored[v]]
           /\ live = [v \in p.workers |-> live[v]] /\ poll = [v \in p.workers |-> poll[v]]
<1>1. WorkerKept(p, w) /\ CaptureKept(p) /\ Shapes(p) BY DistributionFacts
<1>2. exch[w].pc # "idle" => Distribution(p)!Started /\ poll[w].pc = "idle" /\ live[w] # p.none
  BY <1>1 DEF WorkerKept, ExchangeKept
<1>3. capture # p.none /\ capture.by[1] = "sync" => exch[capture.by[2]].pc = "asking" BY <1>1 DEF CaptureKept
<1> QED BY <1>1, <1>2, <1>3 DEF WorkerKept, Shapes

\* A step that only changes the exchange of a worker.
LEMMA ExchangeStep ==
    ASSUME NEW p, DistributionKept(p), DistributionInv(p), NEW w \in p.workers,
           UNCHANGED <<now, source, saved, inForce, ran, active, loading, saving, held,
                       build, disk, stored, live, poll>>,
           \/ cache' = cache
           \/ Distribution(p)!Started /\ cache' \in Distribution(p)!Bundles /\ cache'.files \in ran,
           capture' = capture \/ capture' = p.none,
           capture' # p.none /\ capture.by[1] = "sync" => exch'[capture.by[2]] = exch[capture.by[2]],
           OnlyAt(p, w, exch, exch'), ExchangeKept(p, w)'
    PROVE  DistributionInv(p)'
<1>1. Onward BY DistributionFacts DEF Onward
<1>2. PollKept(p, w)' BY <1>1, WorkerFacts, PollStays
<1>3. StoredKept(p, w)' BY <1>1, WorkerFacts, StoredStays
<1>4. LiveKept(p, w)' BY <1>1, WorkerFacts, LiveStays
<1>5. build'[w] \in {"old", "new"} /\ disk'[w] \in [Distribution(p)!Manifests -> SUBSET p.slots] BY WorkerFacts
<1>6. WorkerKept(p, w)' BY <1>2, <1>3, <1>4, <1>5 DEF WorkerKept
<1>7. /\ OnlyAt(p, w, build, build') /\ OnlyAt(p, w, disk, disk') /\ OnlyAt(p, w, stored, stored')
      /\ OnlyAt(p, w, live, live') /\ OnlyAt(p, w, poll, poll')
  BY WorkerFacts, OnlyAtExcept
<1> QED BY <1>6, <1>7, OneWorker

LEMMA AskKeeps ==
    ASSUME NEW p, DistributionKept(p), DistributionInv(p), NEW w \in p.workers, Distribution(p)!Ask(w)
    PROVE  DistributionInv(p)'
<1>0. /\ Distribution(p)!Started /\ live[w] # p.none /\ poll[w].pc = "idle" /\ exch[w].pc = "idle"
      /\ exch' = [exch EXCEPT ![w] = [pc |-> "asking", began |-> now]]
      /\ UNCHANGED <<now, source, saved, inForce, ran, active, loading, saving, held, cache, capture,
                     build, disk, stored, live, poll>>
  BY DEF Distribution!Ask, Distribution!coordinator
<1>1. OnlyAt(p, w, exch, exch') /\ exch'[w] = [pc |-> "asking", began |-> now] BY <1>0, WorkerFacts, OnlyAtExcept
<1>2. exch'[w].pc = "asking" /\ exch'[w].began = now BY <1>1
<1>3. Distribution(p)!Started' BY <1>0 DEF Distribution!Started, Distribution!Down
<1>4. now' \in 0..now' /\ now' <= now' + p.handlerTime BY <1>0, DistributionFacts DEF DistributionKept
<1>5. ExchangeKept(p, w)' BY <1>0, <1>2, <1>3, <1>4 DEF ExchangeKept
<1>6. capture' # p.none /\ capture.by[1] = "sync" => exch'[capture.by[2]] = exch[capture.by[2]]
  <2>1. capture # p.none /\ capture.by[1] = "sync" => capture.by[2] # w BY <1>0, WorkerFacts
  <2>2. capture # p.none => capture.by[2] \in p.workers BY DistributionFacts DEF CaptureKept
  <2> QED BY <1>0, <1>1, <2>1, <2>2 DEF OnlyAt
<1> QED BY <1>0, <1>1, <1>5, <1>6, ExchangeStep

\* The publication for the build of the worker that asked, or a failed poll.
LEMMA ForBuildKeeps ==
    ASSUME NEW p, DistributionKept(p), DistributionInv(p), NEW w \in p.workers, exch[w].pc = "asking",
           NEW b \in Distribution(p)!Bundles, b.files \in ran, NotReplaced(b.rev, exch[w].began),
           exch'[w] = Distribution(p)!ForBuild(w, b), UNCHANGED <<now, inForce, ran, active, build, live, poll>>
    PROVE  ExchangeKept(p, w)'
<1>1. PICK e : e = exch'[w] OBVIOUS
<1>2. PICK t : t = exch[w].began OBVIOUS
<1>3. CASE b.set \in p.refused /\ build[w] = "old"
  <2>1. e.pc = "idle" BY <1>1, <1>3 DEF Distribution!ForBuild, Distribution!Refuses, Distribution!Idle
  <2> QED BY <1>1, <2>1 DEF ExchangeKept
<1>4. CASE ~(b.set \in p.refused /\ build[w] = "old")
  <2>1. PICK a : a = [b EXCEPT !.label = build[w],
                       !.set = IF b.set \in p.optional /\ build[w] = "old" THEN "plain" ELSE b.set]
    OBVIOUS
  <2>2. e = [pc |-> "record", began |-> t, bundle |-> a]
    BY <1>1, <1>2, <1>4, <2>1 DEF Distribution!ForBuild, Distribution!Refuses, Distribution!Stripped
  <2>3. build[w] \in {"old", "new"} BY WorkerFacts
  <2>4. b \in [rev : 0..p.maxRevision, set : Distribution(p)!Settings, files : Distribution(p)!Manifests,
               label : {"old", "new"}]
    BY DEF Distribution!Bundles
  <2>5. "plain" \in Distribution(p)!Settings BY DEF Distribution!Settings
  <2>6. /\ a.set = (IF b.set \in p.optional /\ build[w] = "old" THEN "plain" ELSE b.set)
        /\ a.files = b.files /\ a.rev = b.rev /\ a \in Distribution(p)!Bundles
    BY <2>1, <2>3, <2>4, <2>5 DEF Distribution!Bundles
  <2>7. a.set \in p.refused \cup p.optional => build[w] = "new"
    BY <1>4, <2>3, <2>6 DEF DistributionKept
  <2>8. Proper(p, w, a)' BY <2>6, <2>7 DEF Proper
  <2>9. NotReplaced(a.rev, t)' BY <1>2, <2>6 DEF NotReplaced
  <2>10. /\ t \in 0..now' /\ now' <= t + p.handlerTime /\ poll'[w].pc = "idle" /\ live'[w] # p.none
         /\ Distribution(p)!Started'
    BY <1>2, WorkerFacts DEF ExchangeKept, Distribution!Started, Distribution!Down
  <2>11. e.pc = "record" /\ e.began = t /\ e.bundle = a /\ e = [pc |-> e.pc, began |-> e.began, bundle |-> e.bundle]
    BY <2>2
  <2> QED BY <1>1, <2>8, <2>9, <2>10, <2>11 DEF ExchangeKept
<1> QED BY <1>3, <1>4

LEMMA DistributionAnswerKeeps ==
    ASSUME NEW p, DistributionKept(p), DistributionInv(p), NEW w \in p.workers, Distribution(p)!Answer(w)
    PROVE  DistributionInv(p)'
<1>0. /\ exch[w].pc = "asking" /\ cache # p.none /\ cache.rev = active.rev /\ capture = p.none
      /\ exch' = [exch EXCEPT ![w] = Distribution(p)!ForBuild(w, cache)]
      /\ UNCHANGED <<now, source, saved, inForce, ran, active, loading, saving, held, cache, capture,
                     build, disk, stored, live, poll>>
  BY DEF Distribution!Answer, Distribution!coordinator, Distribution!Fresh
<1>1. OnlyAt(p, w, exch, exch') /\ exch'[w] = Distribution(p)!ForBuild(w, cache) BY <1>0, WorkerFacts, OnlyAtExcept
<1>2. Distribution(p)!Started BY <1>0, WorkerFacts
<1>3. cache \in Distribution(p)!Bundles /\ cache.files \in ran /\ cache.rev = Len(inForce) /\ Len(inForce) \in Nat
  BY <1>0, <1>2, ConsoleFacts
<1>4. exch[w].began \in 0..now BY <1>0, WorkerFacts DEF ExchangeKept
<1>5. NotReplaced(cache.rev, exch[w].began) BY <1>3, <1>4, DistributionFacts DEF NotReplaced
<1>6. ExchangeKept(p, w)' BY <1>0, <1>1, <1>3, <1>5, ForBuildKeeps
<1> QED BY <1>0, <1>1, <1>6, ExchangeStep

LEMMA PublishKeeps ==
    ASSUME NEW p, DistributionKept(p), DistributionInv(p), Distribution(p)!Publish
    PROVE  DistributionInv(p)'
<1>1. PICK c : c = capture OBVIOUS
<1>2. PICK b : b = Distribution(p)!Bundle(c.snap.rev, c.snap.set, c.hash) OBVIOUS
<1>3. PICK w : w = c.by[2] OBVIOUS
<1>4. PICK asked \in BOOLEAN : asked <=> c.by[1] = "sync" /\ exch[w].pc = "asking" OBVIOUS
<1>5. /\ c # p.none /\ capture' = p.none
      /\ IF c.hash = c.snap.models
         THEN /\ cache' = b
              /\ exch' = IF asked THEN [exch EXCEPT ![w] = Distribution(p)!ForBuild(w, b)] ELSE exch
         ELSE /\ exch' = IF asked THEN [exch EXCEPT ![w] = Distribution(p)!Idle] ELSE exch
              /\ UNCHANGED cache
      /\ UNCHANGED <<now, source, saved, inForce, ran, active, loading, saving, held,
                     build, disk, stored, live, poll>>
  BY <1>1, <1>2, <1>3, <1>4 DEF Distribution!Publish, Distribution!Resident
<1>6. /\ c.snap \in Actives(p) /\ c.snap.models \in ran /\ w \in p.workers
      /\ c.by[1] = "sync" => exch[w].pc = "asking" /\ NotReplaced(c.snap.rev, exch[w].began)
  BY <1>1, <1>3, <1>5, DistributionFacts DEF CaptureKept
<1>7. Distribution(p)!Started BY <1>1, <1>5, ConsoleFacts
<1>8. c.hash = c.snap.models => b \in Distribution(p)!Bundles /\ b.files \in ran
  BY <1>2, <1>6 DEF Distribution!Bundle, Distribution!Bundles, Actives
<1>9. b.rev = c.snap.rev BY <1>2 DEF Distribution!Bundle
<1>10. CASE ~asked
  <2>1. exch' = exch BY <1>5, <1>10
  <2>2. OnlyAt(p, w, exch, exch') BY <1>6, <2>1, WorkerFacts, OnlyAtExcept
  <2>3. Onward BY <1>5, DistributionFacts DEF Onward
  <2>4. exch[w].pc # "idle" =>
          /\ poll'[w] = poll[w] /\ live'[w] = live[w] /\ build'[w] = build[w]
          /\ now' <= exch[w].began + p.handlerTime /\ Distribution(p)!Started'
    BY <1>5, <1>6, WorkerFacts DEF ExchangeKept, Distribution!Started, Distribution!Down
  <2>5. ExchangeKept(p, w)' BY <1>6, <2>1, <2>3, <2>4, WorkerFacts, ExchangeStays
  <2> QED BY <1>5, <1>6, <1>7, <1>8, <2>2, <2>5, ExchangeStep
<1>11. CASE asked /\ c.hash = c.snap.models
  <2>0. exch' = [exch EXCEPT ![w] = Distribution(p)!ForBuild(w, b)] BY <1>5, <1>11
  <2>1. OnlyAt(p, w, exch, exch') /\ exch'[w] = Distribution(p)!ForBuild(w, b)
    BY <1>6, <2>0, WorkerFacts, OnlyAtExcept
  <2>2. exch[w].pc = "asking" /\ NotReplaced(b.rev, exch[w].began) BY <1>4, <1>6, <1>9, <1>11
  <2>3. ExchangeKept(p, w)' BY <1>5, <1>6, <1>8, <1>11, <2>1, <2>2, ForBuildKeeps
  <2> QED BY <1>5, <1>6, <1>7, <1>8, <1>11, <2>1, <2>3, ExchangeStep
<1>12. CASE asked /\ c.hash # c.snap.models
  <2>0. exch' = [exch EXCEPT ![w] = Distribution(p)!Idle] BY <1>5, <1>12
  <2>1. OnlyAt(p, w, exch, exch') /\ exch'[w] = Distribution(p)!Idle
    BY <1>6, <2>0, WorkerFacts, OnlyAtExcept
  <2>2. ExchangeKept(p, w)' BY <2>1 DEF ExchangeKept, Distribution!Idle
  <2> QED BY <1>5, <1>6, <1>12, <2>1, <2>2, ExchangeStep
<1> QED BY <1>10, <1>11, <1>12

LEMMA RecordKeeps ==
    ASSUME NEW p, DistributionKept(p), DistributionInv(p), NEW w \in p.workers, Distribution(p)!Record(w)
    PROVE  DistributionInv(p)'
<1>0. /\ exch[w].pc = "record"
      /\ exch' = [exch EXCEPT ![w].pc = "reply"] \/ exch' = [exch EXCEPT ![w] = Distribution(p)!Idle]
      /\ UNCHANGED <<now, source, saved, inForce, ran, active, loading, saving, held, cache, capture,
                     build, disk, stored, live, poll>>
  BY DEF Distribution!Record
<1>1. PICK e : e = exch[w] OBVIOUS
<1>2. PICK f : f = exch'[w] OBVIOUS
<1>3. OnlyAt(p, w, exch, exch') /\ (f = [e EXCEPT !.pc = "reply"] \/ f = Distribution(p)!Idle)
  <2>1. exch' = [exch EXCEPT ![w] = [e EXCEPT !.pc = "reply"]] \/ exch' = [exch EXCEPT ![w] = Distribution(p)!Idle]
    BY <1>0, <1>1
  <2>2. PICK x : exch' = [exch EXCEPT ![w] = x] /\ (x = [e EXCEPT !.pc = "reply"] \/ x = Distribution(p)!Idle)
    BY <2>1
  <2>3. OnlyAt(p, w, exch, exch') /\ exch'[w] = x BY <2>2, WorkerFacts, OnlyAtExcept
  <2> QED BY <1>2, <2>2, <2>3
<1>4. /\ e.began \in 0..now /\ now <= e.began + p.handlerTime /\ poll[w].pc = "idle" /\ live[w] # p.none
      /\ Distribution(p)!Started /\ e = [pc |-> e.pc, began |-> e.began, bundle |-> e.bundle]
      /\ Proper(p, w, e.bundle) /\ NotReplaced(e.bundle.rev, e.began)
  BY <1>0, <1>1, WorkerFacts DEF ExchangeKept
<1>5. Proper(p, w, e.bundle)' /\ NotReplaced(e.bundle.rev, e.began)' BY <1>0, <1>4 DEF Proper, NotReplaced
<1>6. Distribution(p)!Started' BY <1>0, <1>4 DEF Distribution!Started, Distribution!Down
<1>7. ExchangeKept(p, w)'
  <2>1. CASE f = Distribution(p)!Idle BY <1>2, <2>1 DEF ExchangeKept, Distribution!Idle
  <2>2. CASE f = [e EXCEPT !.pc = "reply"]
    <3>1. f.pc = "reply" /\ f.began = e.began /\ f.bundle = e.bundle
          /\ f = [pc |-> f.pc, began |-> f.began, bundle |-> f.bundle]
      BY <1>4, <2>2
    <3> QED BY <1>0, <1>2, <1>4, <1>5, <1>6, <3>1 DEF ExchangeKept
  <2> QED BY <1>3, <2>1, <2>2
<1>8. capture' # p.none /\ capture.by[1] = "sync" => exch'[capture.by[2]] = exch[capture.by[2]]
  <2>1. capture # p.none /\ capture.by[1] = "sync" => capture.by[2] # w BY <1>0, WorkerFacts
  <2>2. capture # p.none => capture.by[2] \in p.workers BY DistributionFacts DEF CaptureKept
  <2> QED BY <1>0, <1>3, <2>1, <2>2 DEF OnlyAt
<1> QED BY <1>0, <1>3, <1>7, <1>8, ExchangeStep

LEMMA AbandonKeeps ==
    ASSUME NEW p, DistributionKept(p), DistributionInv(p), NEW w \in p.workers, Distribution(p)!Abandon(w)
    PROVE  DistributionInv(p)'
<1>0. /\ exch' = [exch EXCEPT ![w] = Distribution(p)!Idle]
      /\ capture' = IF capture # p.none /\ capture.by \in {<<"sync", w>>} THEN p.none ELSE capture
      /\ UNCHANGED <<now, source, saved, inForce, ran, active, loading, saving, held, cache,
                     build, disk, stored, live, poll>>
  BY DEF Distribution!Abandon, Distribution!Cancelled
<1>1. OnlyAt(p, w, exch, exch') /\ exch'[w] = Distribution(p)!Idle BY <1>0, WorkerFacts, OnlyAtExcept
<1>2. ExchangeKept(p, w)' BY <1>1 DEF ExchangeKept, Distribution!Idle
<1>3. capture' # p.none /\ capture.by[1] = "sync" => exch'[capture.by[2]] = exch[capture.by[2]]
  <2>1. capture # p.none => capture.by = <<capture.by[1], capture.by[2]>> /\ capture.by[2] \in p.workers
    BY DistributionFacts DEF CaptureKept
  <2>2. capture' # p.none /\ capture.by[1] = "sync" => capture.by[2] # w BY <1>0, <2>1
  <2>3. capture' # p.none => capture # p.none BY <1>0
  <2> QED BY <1>1, <2>1, <2>2, <2>3 DEF OnlyAt
<1> QED BY <1>0, <1>1, <1>2, <1>3, ExchangeStep

\* The answer is of a revision that was in force when the exchange began, or, for an
\* older build, still is.
LEMMA ReplyKeeps ==
    ASSUME NEW p, DistributionKept(p), DistributionInv(p), NEW w \in p.workers, Distribution(p)!Reply(w)
    PROVE  DistributionInv(p)'
<1>1. PICK e : e = exch[w] OBVIOUS
<1>2. PICK answered \in BOOLEAN :
        answered <=> nodes[w].enabled /\ (build[w] = "old" => active.rev = e.bundle.rev)
  OBVIOUS
<1>3. PICK q : q = [pc |-> "fetch", bundle |-> e.bundle, time |-> now, before |-> stored[w]] OBVIOUS
<1>0. /\ e.pc = "reply" /\ exch' = [exch EXCEPT ![w] = Distribution(p)!Idle]
      /\ poll' = IF answered THEN [poll EXCEPT ![w] = q] ELSE poll
      /\ UNCHANGED <<now, source, saved, inForce, ran, active, loading, saving, held, cache, capture,
                     build, disk, stored, live>>
  BY <1>1, <1>2, <1>3 DEF Distribution!Reply, Distribution!coordinator
<1>4. OnlyAt(p, w, exch, exch') /\ exch'[w] = Distribution(p)!Idle BY <1>0, WorkerFacts, OnlyAtExcept
<1>5. /\ e.began \in 0..now /\ now <= e.began + p.handlerTime /\ poll[w].pc = "idle" /\ live[w] # p.none
      /\ Distribution(p)!Started /\ Proper(p, w, e.bundle) /\ NotReplaced(e.bundle.rev, e.began)
  BY <1>0, <1>1, WorkerFacts DEF ExchangeKept
<1>6. Onward BY <1>0, DistributionFacts DEF Onward
<1>7. ExchangeKept(p, w)' BY <1>4 DEF ExchangeKept, Distribution!Idle
<1>8. OnlyAt(p, w, poll, poll') /\ PollKept(p, w)'
  <2>1. CASE ~answered
    <3>1. poll' = poll BY <1>0, <2>1
    <3>2. poll'[w] = poll[w] BY <3>1
    <3>3. PollKept(p, w)' BY <1>5, <1>6, <3>2, WorkerFacts, PollStays
    <3> QED BY <3>1, <3>3, WorkerFacts, OnlyAtExcept
  <2>2. CASE answered
    <3>1. poll' = [poll EXCEPT ![w] = q] BY <1>0, <2>2
    <3>2. OnlyAt(p, w, poll, poll') /\ poll'[w] = q BY <3>1, WorkerFacts, OnlyAtExcept
    <3>3. q.pc = "fetch" /\ q.bundle = e.bundle /\ q.time = now
          /\ q = [pc |-> q.pc, bundle |-> q.bundle, time |-> q.time, before |-> q.before]
      BY <1>3
    <3>4. Proper(p, w, e.bundle)' BY <1>0, <1>5 DEF Proper
    <3>5. PICK n \in Nat : n = now BY DistributionFacts
    <3>6. PICK h \in Nat : h = p.handlerTime BY DEF DistributionKept
    <3>7. PICK t \in Nat : t = e.began BY <1>5, <3>5
    <3>8. t <= n /\ n <= t + h BY <1>5, <3>5, <3>6, <3>7
    <3>9. NotReplaced(e.bundle.rev, n - Slack(p, w))'
      <4>1. CASE build[w] = "new"
        <5>1. Slack(p, w)' = h BY <1>0, <3>6, <4>1 DEF Slack
        <5>2. n - h \in Int /\ n - h <= t BY <3>8
        <5>3. t <= now BY <3>5, <3>8
        <5>4. NotReplaced(e.bundle.rev, t) BY <1>5, <3>7
        <5>5. NotReplaced(e.bundle.rev, n - h)' BY <1>6, <5>2, <5>3, <5>4, NotReplacedStays
        <5> QED BY <5>1, <5>5
      <4>2. CASE build[w] = "old"
        <5>1. Slack(p, w)' = 0 BY <1>0, <4>2 DEF Slack
        <5>2. e.bundle.rev = Len(inForce) /\ Len(inForce) \in Nat BY <1>2, <1>5, <2>2, <4>2, ConsoleFacts
        <5>3. n - 0 \in Int OBVIOUS
        <5>4. NotReplaced(e.bundle.rev, n - 0)' BY <1>0, <5>2, <5>3 DEF NotReplaced
        <5> QED BY <5>1, <5>4
      <4> QED BY <4>1, <4>2, WorkerFacts
    <3>10. q.time \in 0..now' /\ live'[w] # p.none BY <1>0, <1>5, <3>3, <3>5
    <3>11. NotReplaced(q.bundle.rev, q.time - Slack(p, w))' BY <3>3, <3>5, <3>9
    <3>12. PollKept(p, w)' BY <3>2, <3>3, <3>4, <3>10, <3>11 DEF PollKept
    <3> QED BY <3>2, <3>12
  <2> QED BY <2>1, <2>2
<1>9. StoredKept(p, w)' BY <1>0, <1>6, WorkerFacts, StoredStays
<1>10. LiveKept(p, w)' BY <1>0, <1>6, WorkerFacts, LiveStays
<1>11. build'[w] \in {"old", "new"} /\ disk'[w] \in [Distribution(p)!Manifests -> SUBSET p.slots] BY <1>0, WorkerFacts
<1>12. WorkerKept(p, w)' BY <1>7, <1>8, <1>9, <1>10, <1>11 DEF WorkerKept
<1>13. /\ OnlyAt(p, w, build, build') /\ OnlyAt(p, w, disk, disk') /\ OnlyAt(p, w, stored, stored')
       /\ OnlyAt(p, w, live, live')
  BY <1>0, WorkerFacts, OnlyAtExcept
<1>14. capture' # p.none /\ capture.by[1] = "sync" => exch'[capture.by[2]] = exch[capture.by[2]]
  <2>1. capture # p.none /\ capture.by[1] = "sync" => capture.by[2] # w BY <1>0, <1>1, WorkerFacts
  <2>2. capture # p.none => capture.by[2] \in p.workers BY DistributionFacts DEF CaptureKept
  <2> QED BY <1>0, <1>4, <2>1, <2>2 DEF OnlyAt
<1> QED BY <1>0, <1>4, <1>8, <1>12, <1>13, <1>14, OneWorker

\* A step of a worker's poll: the coordinator and the exchanges keep what they have.
LEMMA PollStep ==
    ASSUME NEW p, DistributionKept(p), DistributionInv(p), NEW w \in p.workers, exch[w].pc = "idle",
           UNCHANGED <<now, source, saved, inForce, ran, active, loading, saving, held, cache, exch>>,
           capture' = capture \/ capture' = p.none,
           OnlyAt(p, w, build, build'), OnlyAt(p, w, disk, disk'), OnlyAt(p, w, stored, stored'),
           OnlyAt(p, w, live, live'), OnlyAt(p, w, poll, poll'),
           build'[w] \in {"old", "new"}, disk'[w] \in [Distribution(p)!Manifests -> SUBSET p.slots],
           PollKept(p, w)', StoredKept(p, w)', LiveKept(p, w)'
    PROVE  DistributionInv(p)'
<1>1. ExchangeKept(p, w)' BY DEF ExchangeKept
<1>2. OnlyAt(p, w, exch, exch') BY WorkerFacts, OnlyAtExcept
<1>3. WorkerKept(p, w)' BY <1>1 DEF WorkerKept
<1> QED BY <1>2, <1>3, OneWorker

LEMMA PollFailsKeeps ==
    ASSUME NEW p, DistributionKept(p), DistributionInv(p), NEW w \in p.workers, Distribution(p)!PollFails(w)
    PROVE  DistributionInv(p)'
<1>0. /\ poll[w].pc = "fetch" /\ poll' = [poll EXCEPT ![w] = Distribution(p)!Idle]
      /\ capture' = capture \/ capture' = p.none
      /\ UNCHANGED <<now, source, saved, inForce, ran, active, loading, saving, held, cache, exch,
                     build, disk, stored, live>>
  BY DEF Distribution!PollFails, Distribution!Cancelled
<1>1. OnlyAt(p, w, poll, poll') /\ poll'[w] = Distribution(p)!Idle BY <1>0, WorkerFacts, OnlyAtExcept
<1>2. PollKept(p, w)' BY <1>1 DEF PollKept, Distribution!Idle
<1>3. Onward /\ exch[w].pc = "idle" BY <1>0, DistributionFacts, WorkerFacts DEF Onward
<1>4. StoredKept(p, w)' BY <1>0, <1>3, WorkerFacts, StoredStays
<1>5. LiveKept(p, w)' BY <1>0, <1>3, WorkerFacts, LiveStays
<1>6. build'[w] \in {"old", "new"} /\ disk'[w] \in [Distribution(p)!Manifests -> SUBSET p.slots] BY <1>0, WorkerFacts
<1>7. /\ OnlyAt(p, w, build, build') /\ OnlyAt(p, w, disk, disk') /\ OnlyAt(p, w, stored, stored')
      /\ OnlyAt(p, w, live, live')
  BY <1>0, WorkerFacts, OnlyAtExcept
<1> QED BY <1>0, <1>1, <1>2, <1>3, <1>4, <1>5, <1>6, <1>7, PollStep

\* What a poll that goes on carries.
LEMMA PollFacts ==
    ASSUME NEW p, DistributionKept(p), DistributionInv(p), NEW w \in p.workers, poll[w].pc # "idle"
    PROVE  /\ poll[w] = [pc |-> poll[w].pc, bundle |-> poll[w].bundle, time |-> poll[w].time, before |-> poll[w].before]
           /\ live[w] # p.none /\ Proper(p, w, poll[w].bundle) /\ poll[w].time \in 0..now
           /\ NotReplaced(poll[w].bundle.rev, poll[w].time - Slack(p, w))
           /\ poll[w].bundle.files \in Distribution(p)!Manifests /\ poll[w].bundle # p.none
           /\ exch[w].pc = "idle"
<1>1. PollKept(p, w) /\ exch[w].pc = "idle" BY WorkerFacts
<1>2. Proper(p, w, poll[w].bundle) BY <1>1 DEF PollKept
<1>3. poll[w].bundle \in Distribution(p)!Bundles BY <1>2 DEF Proper
<1>4. poll[w].bundle.files \in Distribution(p)!Manifests BY <1>3 DEF Distribution!Bundles
<1>5. poll[w].bundle # p.none BY <1>3 DEF DistributionKept
<1> QED BY <1>1, <1>2, <1>4, <1>5 DEF PollKept

LEMMA FetchKeeps ==
    ASSUME NEW p, DistributionKept(p), DistributionInv(p), NEW w \in p.workers, NEW s \in p.slots,
           Distribution(p)!Fetch(w, s)
    PROVE  DistributionInv(p)'
<1>1. PICK m : m = poll[w].bundle.files OBVIOUS
<1>0. /\ poll[w].pc = "fetch"
      /\ \/ disk' = [disk EXCEPT ![w][m] = disk[w][m] \cup {s}] /\ UNCHANGED poll
         \/ poll' = [poll EXCEPT ![w] = Distribution(p)!Idle] /\ UNCHANGED disk
      /\ UNCHANGED <<now, source, saved, inForce, ran, active, loading, saving, held, cache, capture, exch,
                     build, stored, live>>
  BY <1>1 DEF Distribution!Fetch, Distribution!coordinator
<1>2. m \in Distribution(p)!Manifests /\ exch[w].pc = "idle" BY <1>0, <1>1, PollFacts
<1>3. PICK d : d = disk[w] OBVIOUS
<1>4. PICK x : x = [d EXCEPT ![m] = d[m] \cup {s}] OBVIOUS
<1>5. d \in [Distribution(p)!Manifests -> SUBSET p.slots] BY <1>3, WorkerFacts
<1>6. x \in [Distribution(p)!Manifests -> SUBSET p.slots] BY <1>2, <1>4, <1>5
<1>7. \A f \in Distribution(p)!Manifests : d[f] = p.slots => x[f] = p.slots BY <1>2, <1>4, <1>5
<1>8. OnlyAt(p, w, disk, disk') /\ (disk'[w] = x \/ disk'[w] = d)
  <2>1. CASE disk' = [disk EXCEPT ![w][m] = disk[w][m] \cup {s}]
    <3>1. disk' = [disk EXCEPT ![w] = x] BY <1>3, <1>4, <2>1
    <3> QED BY <3>1, WorkerFacts, OnlyAtExcept
  <2>2. CASE disk' = disk BY <1>3, <2>2, WorkerFacts, OnlyAtExcept
  <2> QED BY <1>0, <2>1, <2>2
<1>9. \A f \in Distribution(p)!Manifests : disk[w][f] = p.slots => disk'[w][f] = p.slots BY <1>3, <1>7, <1>8
<1>10. Onward BY <1>0, DistributionFacts DEF Onward
<1>11. OnlyAt(p, w, poll, poll') /\ PollKept(p, w)'
  <2>1. CASE poll' = poll
    <3>1. poll'[w] = poll[w] BY <2>1
    <3>2. PollKept(p, w)' BY <1>0, <1>9, <1>10, <3>1, WorkerFacts, PollStays
    <3> QED BY <2>1, <3>2, WorkerFacts, OnlyAtExcept
  <2>2. CASE poll' = [poll EXCEPT ![w] = Distribution(p)!Idle]
    <3>1. OnlyAt(p, w, poll, poll') /\ poll'[w] = Distribution(p)!Idle BY <2>2, WorkerFacts, OnlyAtExcept
    <3> QED BY <3>1 DEF PollKept, Distribution!Idle
  <2> QED BY <1>0, <2>1, <2>2
<1>12. StoredKept(p, w)'
  <2>1. stored[w] # p.none => stored[w].bundle.files \in Distribution(p)!Manifests
    BY WorkerFacts DEF StoredKept, Proper, Distribution!Bundles
  <2> QED BY <1>0, <1>9, <1>10, <2>1, WorkerFacts, StoredStays
<1>13. LiveKept(p, w)'
  <2>1. live[w] # p.none /\ live[w].bundle # p.none => live[w].bundle.files \in Distribution(p)!Manifests
    BY WorkerFacts DEF LiveKept, Proper, Distribution!Bundles
  <2> QED BY <1>0, <1>9, <1>10, <2>1, WorkerFacts, LiveStays
<1>14. build'[w] \in {"old", "new"} /\ disk'[w] \in [Distribution(p)!Manifests -> SUBSET p.slots]
  BY <1>0, <1>5, <1>6, <1>8, WorkerFacts
<1>15. /\ OnlyAt(p, w, build, build') /\ OnlyAt(p, w, stored, stored') /\ OnlyAt(p, w, live, live')
  BY <1>0, WorkerFacts, OnlyAtExcept
<1> QED BY <1>0, <1>2, <1>8, <1>11, <1>12, <1>13, <1>14, <1>15, PollStep

LEMMA DistributionApplyKeeps ==
    ASSUME NEW p, DistributionKept(p), DistributionInv(p), NEW w \in p.workers, Distribution(p)!Apply(w)
    PROVE  DistributionInv(p)'
<1>1. PICK q : q = poll[w] OBVIOUS
<1>2. PICK r : r = [bundle |-> q.bundle, sync |-> q.time] OBVIOUS
<1>0. /\ q.pc = "fetch" /\ (live[w].bundle = q.bundle \/ disk[w][q.bundle.files] = p.slots)
      /\ stored' = [stored EXCEPT ![w] = r] /\ poll' = [poll EXCEPT ![w].pc = "install"]
      /\ UNCHANGED <<now, source, saved, inForce, ran, active, loading, saving, held, cache, capture, exch,
                     build, disk, live>>
  BY <1>1, <1>2 DEF Distribution!Apply, Distribution!coordinator, Distribution!Same, Distribution!Complete
<1>3. /\ q = [pc |-> q.pc, bundle |-> q.bundle, time |-> q.time, before |-> q.before]
      /\ live[w] # p.none /\ Proper(p, w, q.bundle) /\ q.time \in 0..now
      /\ NotReplaced(q.bundle.rev, q.time - Slack(p, w)) /\ q.bundle # p.none /\ exch[w].pc = "idle"
  BY <1>0, <1>1, PollFacts
<1>4. disk[w][q.bundle.files] = p.slots
  <2>1. CASE live[w].bundle = q.bundle BY <1>3, <2>1, WorkerFacts DEF LiveKept, Distribution!Complete
  <2> QED BY <1>0, <2>1
<1>5. PICK x : x = [q EXCEPT !.pc = "install"] OBVIOUS
<1>6. /\ x.pc = "install" /\ x.bundle = q.bundle /\ x.time = q.time
      /\ x = [pc |-> x.pc, bundle |-> x.bundle, time |-> x.time, before |-> x.before]
  BY <1>3, <1>5
<1>7. OnlyAt(p, w, poll, poll') /\ poll'[w] = x
  <2>1. poll' = [poll EXCEPT ![w] = x] BY <1>0, <1>1, <1>5
  <2> QED BY <2>1, WorkerFacts, OnlyAtExcept
<1>8. OnlyAt(p, w, stored, stored') /\ stored'[w] = r BY <1>0, WorkerFacts, OnlyAtExcept
<1>9. Proper(p, w, q.bundle)' BY <1>0, <1>3 DEF Proper
<1>10. NotReplaced(q.bundle.rev, q.time - Slack(p, w))' BY <1>0, <1>3 DEF NotReplaced, Slack
<1>11. r.bundle = q.bundle /\ r.sync = q.time BY <1>2
<1>12. disk'[w][q.bundle.files] = p.slots /\ live'[w] # p.none /\ q.time \in 0..now' BY <1>0, <1>3, <1>4
<1>13. PollKept(p, w)'
  BY <1>2, <1>6, <1>7, <1>8, <1>9, <1>10, <1>12 DEF PollKept, Distribution!Complete
<1>14. StoredKept(p, w)' BY <1>8, <1>9, <1>10, <1>11, <1>12 DEF StoredKept, Distribution!Complete
<1>15. Onward BY <1>0, DistributionFacts DEF Onward
<1>16. LiveKept(p, w)' BY <1>0, <1>15, WorkerFacts, LiveStays
<1>17. build'[w] \in {"old", "new"} /\ disk'[w] \in [Distribution(p)!Manifests -> SUBSET p.slots] BY <1>0, WorkerFacts
<1>18. /\ OnlyAt(p, w, build, build') /\ OnlyAt(p, w, disk, disk') /\ OnlyAt(p, w, live, live')
  BY <1>0, WorkerFacts, OnlyAtExcept
<1> QED BY <1>0, <1>3, <1>7, <1>8, <1>13, <1>14, <1>16, <1>17, <1>18, PollStep

LEMMA InstallKeeps ==
    ASSUME NEW p, DistributionKept(p), DistributionInv(p), NEW w \in p.workers, Distribution(p)!Install(w)
    PROVE  DistributionInv(p)'
<1>1. PICK q : q = poll[w] OBVIOUS
<1>2. PICK l : l = [bundle |-> q.bundle, until |-> q.time + p.maxStale] OBVIOUS
<1>0. /\ q.pc = "install" /\ live' = [live EXCEPT ![w] = l] /\ poll' = [poll EXCEPT ![w].pc = "prune"]
      /\ UNCHANGED <<now, source, saved, inForce, ran, active, loading, saving, held, cache, capture, exch,
                     build, disk, stored>>
  BY <1>1, <1>2 DEF Distribution!Install, Distribution!coordinator
<1>3. /\ q = [pc |-> q.pc, bundle |-> q.bundle, time |-> q.time, before |-> q.before]
      /\ Proper(p, w, q.bundle) /\ q.time \in 0..now
      /\ NotReplaced(q.bundle.rev, q.time - Slack(p, w)) /\ q.bundle # p.none /\ exch[w].pc = "idle"
  BY <1>0, <1>1, PollFacts
<1>4. disk[w][q.bundle.files] = p.slots /\ stored[w] = [bundle |-> q.bundle, sync |-> q.time]
  BY <1>0, <1>1, WorkerFacts DEF PollKept, Distribution!Complete
<1>5. PICK x : x = [q EXCEPT !.pc = "prune"] OBVIOUS
<1>6. /\ x.pc = "prune" /\ x.bundle = q.bundle /\ x.time = q.time
      /\ x = [pc |-> x.pc, bundle |-> x.bundle, time |-> x.time, before |-> x.before]
  BY <1>3, <1>5
<1>7. OnlyAt(p, w, poll, poll') /\ poll'[w] = x
  <2>1. poll' = [poll EXCEPT ![w] = x] BY <1>0, <1>1, <1>5
  <2> QED BY <2>1, WorkerFacts, OnlyAtExcept
<1>8. OnlyAt(p, w, live, live') /\ live'[w] = l BY <1>0, WorkerFacts, OnlyAtExcept
<1>9. Proper(p, w, q.bundle)' BY <1>0, <1>3 DEF Proper
<1>10. PICK k \in Nat : k = Slack(p, w) BY SlackFacts
<1>11. Slack(p, w)' = k BY <1>0, <1>10 DEF Slack
<1>12. NotReplaced(q.bundle.rev, q.time - k)' BY <1>0, <1>3, <1>10 DEF NotReplaced
<1>13. PICK n \in Nat : n = now /\ n <= p.maxNow BY DistributionFacts
<1>14. PICK t \in Nat : t = q.time /\ t <= n BY <1>3, <1>13
<1>15. PICK z \in Nat : z = p.maxStale BY DEF DistributionKept
<1>16. l.bundle = q.bundle /\ l.until = t + z /\ l = [bundle |-> q.bundle, until |-> t + z] BY <1>2, <1>14, <1>15
<1>17. l \in Distribution(p)!Leases
  <2>1. q.bundle \in Distribution(p)!Bundles BY <1>3 DEF Proper
  <2>2. PICK y \in Nat : y = p.maxNow BY DistributionFacts
  <2>3. t + z \in 0..(y + z) BY <1>13, <1>14, <2>2
  <2> QED BY <1>15, <1>16, <2>1, <2>2, <2>3 DEF Distribution!Leases
<1>18. l # p.none BY <1>17 DEF DistributionKept
<1>19. l.until <= now' + p.maxStale BY <1>0, <1>13, <1>14, <1>15, <1>16
<1>20. t + z - z - k = t - k OBVIOUS
<1>21. NotReplaced(l.bundle.rev, l.until - p.maxStale - Slack(p, w))'
  BY <1>11, <1>12, <1>14, <1>15, <1>16, <1>20
<1>22. disk'[w][q.bundle.files] = p.slots /\ q.time \in 0..now' BY <1>0, <1>3, <1>4
<1>23. LiveKept(p, w)'
  BY <1>8, <1>9, <1>16, <1>17, <1>19, <1>21, <1>22 DEF LiveKept, Distribution!Complete
<1>24. PollKept(p, w)'
  <2>1. NotReplaced(x.bundle.rev, x.time - Slack(p, w))' BY <1>6, <1>11, <1>12
  <2>2. stored'[w] = [bundle |-> x.bundle, sync |-> x.time] /\ live'[w].bundle = x.bundle /\ live'[w] # p.none
    BY <1>0, <1>4, <1>6, <1>8, <1>16, <1>18
  <2> QED BY <1>6, <1>7, <1>9, <1>22, <2>1, <2>2 DEF PollKept, Distribution!Complete
<1>25. Onward BY <1>0, DistributionFacts DEF Onward
<1>26. StoredKept(p, w)' BY <1>0, <1>25, WorkerFacts, StoredStays
<1>27. build'[w] \in {"old", "new"} /\ disk'[w] \in [Distribution(p)!Manifests -> SUBSET p.slots] BY <1>0, WorkerFacts
<1>28. /\ OnlyAt(p, w, build, build') /\ OnlyAt(p, w, disk, disk') /\ OnlyAt(p, w, stored, stored')
  BY <1>0, WorkerFacts, OnlyAtExcept
<1> QED BY <1>0, <1>3, <1>7, <1>8, <1>23, <1>24, <1>26, <1>27, <1>28, PollStep

\* prune_models keeps the directory of the bundle that runs and is stored.
LEMMA DistributionPruneKeeps ==
    ASSUME NEW p, DistributionKept(p), DistributionInv(p), NEW w \in p.workers, Distribution(p)!Prune(w)
    PROVE  DistributionInv(p)'
<1>1. PICK q : q = poll[w] OBVIOUS
<1>2. PICK keep : keep = {q.bundle.files} \cup (IF q.before = p.none THEN {} ELSE {q.before.bundle.files}) OBVIOUS
<1>3. PICK d : d = disk[w] OBVIOUS
<1>4. PICK x : x = [m \in Distribution(p)!Manifests |-> IF m \in keep THEN d[m] ELSE {}] OBVIOUS
<1>0. /\ q.pc = "prune" /\ disk' = [disk EXCEPT ![w] = x] /\ poll' = [poll EXCEPT ![w] = Distribution(p)!Idle]
      /\ UNCHANGED <<now, source, saved, inForce, ran, active, loading, saving, held, cache, capture, exch,
                     build, stored, live>>
  BY <1>1, <1>2, <1>3, <1>4 DEF Distribution!Prune, Distribution!coordinator
<1>5. /\ q.bundle.files \in Distribution(p)!Manifests /\ exch[w].pc = "idle" BY <1>0, <1>1, PollFacts
<1>6. /\ stored[w].bundle = q.bundle /\ live[w].bundle = q.bundle /\ d[q.bundle.files] = p.slots
  <2>1. stored[w] = [bundle |-> q.bundle, sync |-> q.time] BY <1>0, <1>1, WorkerFacts DEF PollKept
  <2>2. live[w].bundle = q.bundle /\ d[q.bundle.files] = p.slots
    BY <1>0, <1>1, <1>3, WorkerFacts DEF PollKept, Distribution!Complete
  <2> QED BY <2>1, <2>2
<1>7. OnlyAt(p, w, disk, disk') /\ disk'[w] = x BY <1>0, WorkerFacts, OnlyAtExcept
<1>8. d \in [Distribution(p)!Manifests -> SUBSET p.slots] BY <1>3, WorkerFacts
<1>9. x \in [Distribution(p)!Manifests -> SUBSET p.slots] /\ x[q.bundle.files] = p.slots
  BY <1>2, <1>4, <1>5, <1>6, <1>8
<1>10. OnlyAt(p, w, poll, poll') /\ poll'[w] = Distribution(p)!Idle BY <1>0, WorkerFacts, OnlyAtExcept
<1>11. PollKept(p, w)' BY <1>10 DEF PollKept, Distribution!Idle
<1>12. Onward BY <1>0, DistributionFacts DEF Onward
<1>13. StoredKept(p, w)' BY <1>0, <1>6, <1>7, <1>9, <1>12, WorkerFacts, StoredStays
<1>14. LiveKept(p, w)' BY <1>0, <1>6, <1>7, <1>9, <1>12, WorkerFacts, LiveStays
<1>15. build'[w] \in {"old", "new"} /\ disk'[w] \in [Distribution(p)!Manifests -> SUBSET p.slots]
  BY <1>0, <1>7, <1>9, WorkerFacts
<1>16. /\ OnlyAt(p, w, build, build') /\ OnlyAt(p, w, stored, stored') /\ OnlyAt(p, w, live, live')
  BY <1>0, WorkerFacts, OnlyAtExcept
<1> QED BY <1>0, <1>5, <1>7, <1>10, <1>11, <1>13, <1>14, <1>15, <1>16, PollStep

LEMMA WorkerStopsKeeps ==
    ASSUME NEW p, DistributionKept(p), DistributionInv(p), NEW w \in p.workers, Distribution(p)!WorkerStops(w)
    PROVE  DistributionInv(p)'
<1>0. /\ live' = [live EXCEPT ![w] = p.none] /\ poll' = [poll EXCEPT ![w] = Distribution(p)!Idle]
      /\ exch' = [exch EXCEPT ![w] = Distribution(p)!Idle]
      /\ capture' = IF capture # p.none /\ capture.by \in {<<"sync", w>>, <<"file", w>>} THEN p.none ELSE capture
      /\ UNCHANGED <<now, source, saved, inForce, ran, active, loading, saving, held, cache, build, disk, stored>>
  BY DEF Distribution!WorkerStops, Distribution!Cancelled
<1>1. OnlyAt(p, w, live, live') /\ live'[w] = p.none BY <1>0, WorkerFacts, OnlyAtExcept
<1>2. OnlyAt(p, w, poll, poll') /\ poll'[w] = Distribution(p)!Idle BY <1>0, WorkerFacts, OnlyAtExcept
<1>3. OnlyAt(p, w, exch, exch') /\ exch'[w] = Distribution(p)!Idle BY <1>0, WorkerFacts, OnlyAtExcept
<1>4. ExchangeKept(p, w)' BY <1>3 DEF ExchangeKept, Distribution!Idle
<1>5. PollKept(p, w)' BY <1>2 DEF PollKept, Distribution!Idle
<1>6. LiveKept(p, w)' BY <1>1 DEF LiveKept
<1>7. Onward BY <1>0, DistributionFacts DEF Onward
<1>8. StoredKept(p, w)' BY <1>0, <1>7, WorkerFacts, StoredStays
<1>9. build'[w] \in {"old", "new"} /\ disk'[w] \in [Distribution(p)!Manifests -> SUBSET p.slots] BY <1>0, WorkerFacts
<1>10. WorkerKept(p, w)' BY <1>4, <1>5, <1>6, <1>8, <1>9 DEF WorkerKept
<1>11. /\ OnlyAt(p, w, build, build') /\ OnlyAt(p, w, disk, disk') /\ OnlyAt(p, w, stored, stored')
  BY <1>0, WorkerFacts, OnlyAtExcept
<1>12. capture' # p.none /\ capture.by[1] = "sync" => exch'[capture.by[2]] = exch[capture.by[2]]
  <2>1. capture # p.none => capture.by = <<capture.by[1], capture.by[2]>> /\ capture.by[2] \in p.workers
    BY DistributionFacts DEF CaptureKept
  <2>2. capture' # p.none /\ capture.by[1] = "sync" => capture.by[2] # w BY <1>0, <2>1
  <2>3. capture' # p.none => capture # p.none BY <1>0
  <2> QED BY <1>3, <2>1, <2>2, <2>3 DEF OnlyAt
<1> QED BY <1>0, <1>1, <1>2, <1>3, <1>10, <1>11, <1>12, OneWorker

\* The lease of a worker that starts again continues from the stored date.
LEMMA WorkerStartsKeeps ==
    ASSUME NEW p, DistributionKept(p), DistributionInv(p), NEW w \in p.workers, Distribution(p)!WorkerStarts(w)
    PROVE  DistributionInv(p)'
<1>1. PICK r : r = stored[w] OBVIOUS
<1>2. PICK l : l = IF r = p.none THEN [bundle |-> p.none, until |-> 0]
                   ELSE [bundle |-> r.bundle, until |-> r.sync + p.maxStale]
  OBVIOUS
<1>3. PICK b \in {build[w], "new"} : build' = [build EXCEPT ![w] = b] BY DEF Distribution!WorkerStarts
<1>0. /\ live[w] = p.none /\ live' = [live EXCEPT ![w] = l]
      /\ UNCHANGED <<now, source, saved, inForce, ran, active, loading, saving, held, cache, capture, exch,
                     disk, stored, poll>>
  BY <1>1, <1>2 DEF Distribution!WorkerStarts, Distribution!coordinator
<1>4. OnlyAt(p, w, live, live') /\ live'[w] = l BY <1>0, WorkerFacts, OnlyAtExcept
<1>5. OnlyAt(p, w, build, build') /\ build'[w] = b BY <1>3, WorkerFacts, OnlyAtExcept
<1>6. exch[w].pc = "idle" /\ poll[w].pc = "idle"
  BY <1>0, WorkerFacts DEF PollKept
<1>7. PollKept(p, w)' BY <1>0, <1>6 DEF PollKept
<1>8. Onward BY <1>0, DistributionFacts DEF Onward
<1>9. StoredKept(p, w)' BY <1>0, <1>3, <1>5, <1>8, WorkerFacts, StoredStays
<1>10. LiveKept(p, w)'
  <2>1. CASE r = p.none
    <3>1. l.bundle = p.none BY <1>2, <2>1
    <3> QED BY <1>4, <3>1 DEF LiveKept
  <2>2. CASE r # p.none
    <3>1. l = [bundle |-> r.bundle, until |-> r.sync + p.maxStale] BY <1>2, <2>2
    <3>2. stored'[w] = r BY <1>0, <1>1
    <3>3. /\ Proper(p, w, r.bundle)' /\ disk'[w][r.bundle.files] = p.slots
          /\ r.sync \in 0..now' /\ NotReplaced(r.bundle.rev, r.sync - Slack(p, w))'
      BY <1>9, <2>2, <3>2 DEF StoredKept, Distribution!Complete
    <3>4. PICK n \in Nat : n = now' /\ n <= p.maxNow BY <1>0, DistributionFacts
    <3>5. PICK t \in Nat : t = r.sync /\ t <= n BY <3>3, <3>4
    <3>6. PICK z \in Nat : z = p.maxStale BY DEF DistributionKept
    <3>7. PICK k \in Nat : k = Slack(p, w)' BY SlackFacts
    <3>8. l.bundle = r.bundle /\ l.until = t + z /\ l = [bundle |-> r.bundle, until |-> t + z] BY <3>1, <3>5, <3>6
    <3>9. l \in Distribution(p)!Leases
      <4>1. r.bundle \in Distribution(p)!Bundles BY <3>3 DEF Proper
      <4>2. PICK y \in Nat : y = p.maxNow BY DistributionFacts
      <4>3. t + z \in 0..(y + z) BY <3>4, <3>5, <4>2
      <4> QED BY <3>6, <3>8, <4>1, <4>2, <4>3 DEF Distribution!Leases
    <3>10. l.until <= now' + p.maxStale BY <3>4, <3>5, <3>6, <3>8
    <3>11. t + z - z - k = t - k OBVIOUS
    <3>12. NotReplaced(l.bundle.rev, l.until - p.maxStale - Slack(p, w))'
      <4>1. NotReplaced(r.bundle.rev, t - k)' BY <3>3, <3>5, <3>7
      <4> QED BY <3>6, <3>7, <3>8, <3>11, <4>1
    <3> QED BY <1>4, <3>3, <3>8, <3>9, <3>10, <3>12 DEF LiveKept, Distribution!Complete
  <2> QED BY <2>1, <2>2
<1>11. build'[w] \in {"old", "new"} /\ disk'[w] \in [Distribution(p)!Manifests -> SUBSET p.slots]
  BY <1>0, <1>3, <1>5, WorkerFacts
<1>12. /\ OnlyAt(p, w, disk, disk') /\ OnlyAt(p, w, stored, stored') /\ OnlyAt(p, w, poll, poll')
  BY <1>0, WorkerFacts, OnlyAtExcept
<1> QED BY <1>0, <1>4, <1>5, <1>6, <1>7, <1>9, <1>10, <1>11, <1>12, PollStep

LEMMA DistributionStep ==
    ASSUME NEW p, DistributionKept(p), DistributionInv(p), [Distribution(p)!Next]_(Distribution(p)!vars)
    PROVE  DistributionInv(p)'
<1>1. ASSUME UNCHANGED Distribution(p)!vars PROVE DistributionInv(p)'
  <2>1. UNCHANGED <<now, source, saved, inForce, ran, active, saving, cache, held, Distribution(p)!workers, loading, capture>>
    BY <1>1 DEF Distribution!vars, Distribution!coordinator
  <2> QED BY <2>1, CoordinatorStays DEF DistributionInv
<1>2. ASSUME NEW s \in p.slots, Distribution(p)!Replace(s) \/ Distribution(p)!Load(s) \/ Distribution(p)!Capture(s)
      PROVE  DistributionInv(p)'
  BY <1>2, ReplaceKeeps, LoadKeeps, CaptureKeeps
<1>3. ASSUME NEW base \in 0..p.maxRevision, NEW set \in Distribution(p)!Settings, Distribution(p)!Save(base, set)
      PROVE  DistributionInv(p)'
  BY <1>3, SaveKeeps
<1>4. ASSUME NEW w \in p.workers, NEW s \in p.slots, Distribution(p)!Fetch(w, s) PROVE DistributionInv(p)'
  BY <1>4, FetchKeeps
<1>5. ASSUME NEW w \in p.workers,
             \/ Distribution(p)!Enable(w) \/ Distribution(p)!RetiredEnds(w) \/ Distribution(p)!Ask(w)
             \/ Distribution(p)!Answer(w) \/ Distribution(p)!Record(w) \/ Distribution(p)!Reply(w)
             \/ Distribution(p)!Abandon(w)
      PROVE  DistributionInv(p)'
  BY <1>5, QuietKeeps, AskKeeps, DistributionAnswerKeeps, RecordKeeps, ReplyKeeps, AbandonKeeps
<1>6. ASSUME NEW w \in p.workers,
             \/ Distribution(p)!PollFails(w) \/ Distribution(p)!Apply(w) \/ Distribution(p)!Install(w)
             \/ Distribution(p)!Prune(w) \/ Distribution(p)!WorkerStops(w) \/ Distribution(p)!WorkerStarts(w)
      PROVE  DistributionInv(p)'
  BY <1>6, PollFailsKeeps, DistributionApplyKeeps, InstallKeeps, DistributionPruneKeeps, WorkerStopsKeeps,
     WorkerStartsKeeps
<1>7. ASSUME \/ Distribution(p)!Tick \/ Distribution(p)!Boot \/ Distribution(p)!Start \/ Distribution(p)!SaveBuilt
             \/ Distribution(p)!SaveCommit
      PROVE  DistributionInv(p)'
  BY <1>7, DistributionTickKeeps, BootKeeps, DistributionStartKeeps, SaveBuiltKeeps, SaveCommitKeeps
<1>8. ASSUME \/ Distribution(p)!SaveActivate \/ Distribution(p)!SessionEnds \/ Distribution(p)!Crash
             \/ Distribution(p)!Publish
      PROVE  DistributionInv(p)'
  BY <1>8, SaveActivateKeeps, QuietKeeps, DistributionCrashKeeps, PublishKeeps
<1> QED BY <1>1, <1>2, <1>3, <1>4, <1>5, <1>6, <1>7, <1>8 DEF Distribution!Next

\* Whatever is replaced, saved, published or crashes: a worker runs a model set a
\* coordinator engine was built from, as a whole; it can restart from what it stored;
\* it accepts mail under a policy replaced at most a lease (and one exchange) ago; no
\* edit is lost; no older build stores a policy it cannot read (src/control.rs,
\* src/cluster/artifacts.rs, src/cluster/worker.rs, src/api/cluster.rs).
THEOREM PoliciesDistributed ==
    ASSUME NEW p, DistributionKept(p)
    PROVE  Distribution(p)!Spec =>
            [](/\ Distribution(p)!TypeOK /\ Distribution(p)!OneModelSet /\ Distribution(p)!Restartable
               /\ Distribution(p)!StalenessBounded /\ Distribution(p)!NoLostEdit
               /\ Distribution(p)!OnlyReadablePolicies)
<1>1. Distribution(p)!Init => DistributionInv(p) BY DistributionInit
<1>2. DistributionInv(p) /\ [Distribution(p)!Next]_(Distribution(p)!vars) => DistributionInv(p)' BY DistributionStep
<1>3. DistributionInv(p) => /\ Distribution(p)!TypeOK /\ Distribution(p)!OneModelSet /\ Distribution(p)!Restartable
                            /\ Distribution(p)!StalenessBounded /\ Distribution(p)!NoLostEdit
                            /\ Distribution(p)!OnlyReadablePolicies
  BY DistributionImplies
<1> QED BY <1>1, <1>2, <1>3, PTL DEF Distribution!Spec

LEMMA PublicationKept ==
    /\ DistributionKept(ModelDistribution) /\ DistributionKept(LeaseDistribution)
    /\ DistributionKept(EditDistribution) /\ DistributionKept(RereadDistribution)
    /\ PairKept(WorkerReady) /\ PairKept(CoordinatorReady)
<1>1. DistributionKept(ModelDistribution)
  BY RecordsApart DEF DistributionKept, ModelDistribution
<1>2. DistributionKept(LeaseDistribution)
  BY RecordsApart DEF DistributionKept, LeaseDistribution
<1>3. DistributionKept(EditDistribution)
  BY RecordsApart DEF DistributionKept, EditDistribution
<1>4. DistributionKept(RereadDistribution)
  BY RecordsApart DEF DistributionKept, RereadDistribution
<1>5. PairKept(WorkerReady) BY DEF PairKept, WorkerReady
<1>6. PairKept(CoordinatorReady) BY DEF PairKept, CoordinatorReady
<1> QED BY <1>1, <1>2, <1>3, <1>4, <1>5, <1>6

\* Every instance of policy distribution and of the pair's validation: whole model
\* sets, restartable workers, bounded staleness, no lost edit, and no claim of
\* readiness without the peer's and the authority's (src/control.rs,
\* src/cluster/artifacts.rs, src/maintenance.rs).
THEOREM PublicationProved == Spec => []PublicationSafe
<1> DEFINE R == /\ Chosen("models") => DistributionInv(ModelDistribution)
                /\ Chosen("leases") => DistributionInv(LeaseDistribution)
                /\ Chosen("edits") => DistributionInv(EditDistribution)
                /\ Chosen("rereads") => DistributionInv(RereadDistribution)
                /\ Chosen("readiness") => PairInv(WorkerReady)
                /\ Chosen("authority") => PairInv(CoordinatorReady)
<1>1. Init => R
  <2>1. Init /\ Chosen("models") => DistributionInv(ModelDistribution)
    BY PublicationKept, DistributionInit DEF Init, Chosen
  <2>2. Init /\ Chosen("leases") => DistributionInv(LeaseDistribution)
    BY PublicationKept, DistributionInit DEF Init, Chosen
  <2>3. Init /\ Chosen("edits") => DistributionInv(EditDistribution)
    BY PublicationKept, DistributionInit DEF Init, Chosen
  <2>4. Init /\ Chosen("rereads") => DistributionInv(RereadDistribution)
    BY PublicationKept, DistributionInit DEF Init, Chosen
  <2>5. Init /\ Chosen("readiness") => PairInv(WorkerReady) BY PublicationKept, PairInit DEF Init, Chosen
  <2>6. Init /\ Chosen("authority") => PairInv(CoordinatorReady) BY PublicationKept, PairInit DEF Init, Chosen
  <2> QED BY <2>1, <2>2, <2>3, <2>4, <2>5, <2>6
<1>2. R /\ [Next]_vars => R'
  <2> SUFFICES ASSUME R, [Next]_vars PROVE R' OBVIOUS
  <2>1. ASSUME Chosen("models") PROVE DistributionInv(ModelDistribution)'
    <3>1. [Distribution(ModelDistribution)!Next]_(Distribution(ModelDistribution)!vars)
      BY <2>1 DEF Next, vars, Distribution!vars, Distribution!coordinator, Distribution!workers, Chosen
    <3> QED BY <2>1, <3>1, PublicationKept, DistributionStep
  <2>2. ASSUME Chosen("leases") PROVE DistributionInv(LeaseDistribution)'
    <3>1. [Distribution(LeaseDistribution)!Next]_(Distribution(LeaseDistribution)!vars)
      BY <2>2 DEF Next, vars, Distribution!vars, Distribution!coordinator, Distribution!workers, Chosen
    <3> QED BY <2>2, <3>1, PublicationKept, DistributionStep
  <2>3. ASSUME Chosen("edits") PROVE DistributionInv(EditDistribution)'
    <3>1. [Distribution(EditDistribution)!Next]_(Distribution(EditDistribution)!vars)
      BY <2>3 DEF Next, vars, Distribution!vars, Distribution!coordinator, Distribution!workers, Chosen
    <3> QED BY <2>3, <3>1, PublicationKept, DistributionStep
  <2>4. ASSUME Chosen("rereads") PROVE DistributionInv(RereadDistribution)'
    <3>1. [Distribution(RereadDistribution)!Next]_(Distribution(RereadDistribution)!vars)
      BY <2>4 DEF Next, vars, Distribution!vars, Distribution!coordinator, Distribution!workers, Chosen
    <3> QED BY <2>4, <3>1, PublicationKept, DistributionStep
  <2>5. ASSUME Chosen("readiness") PROVE PairInv(WorkerReady)'
    <3>1. [MaintenanceCheck(WorkerReady)!Next]_(MaintenanceCheck(WorkerReady)!vars)
      BY <2>5 DEF Next, vars, MaintenanceCheck!vars, Chosen
    <3> QED BY <2>5, <3>1, PublicationKept, PairStep
  <2>6. ASSUME Chosen("authority") PROVE PairInv(CoordinatorReady)'
    <3>1. [MaintenanceCheck(CoordinatorReady)!Next]_(MaintenanceCheck(CoordinatorReady)!vars)
      BY <2>6 DEF Next, vars, MaintenanceCheck!vars, Chosen
    <3> QED BY <2>6, <3>1, PublicationKept, PairStep
  <2> QED BY <2>1, <2>2, <2>3, <2>4, <2>5, <2>6, ChoiceStep
<1>3. R => PublicationSafe
  <2>1. R => DistributionSafe BY PublicationKept, DistributionImplies DEF DistributionSafe, Chosen
  <2>2. R => MaintenanceCheckSafe BY PublicationKept, PairImplies DEF MaintenanceCheckSafe, Chosen
  <2> QED BY <2>1, <2>2 DEF PublicationSafe
<1> QED BY <1>1, <1>2, <1>3, PTL DEF Spec
=============================================================================
