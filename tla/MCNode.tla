------------------------------- MODULE MCNode -------------------------------
(***************************************************************************)
(* A node's queue, or a rollout of a new policy that two nodes take part   *)
(* in.  A behaviour chooses one of them; the other stays in its initial    *)
(* state.                                                                  *)
(***************************************************************************)
EXTENDS MCMailQueue

CONSTANTS mx1, mx2, s1

VARIABLES
    component,
    journal, approved, past, polls, disk, active, fence, closed, run, step, sess, faults

Rollout ==
    INSTANCE ActivationProofs
    WITH Nodes <- {mx1, mx2}, Owner <- mx1, Sessions <- {<<mx2, s1>>}, Revocable <- TRUE,
         MaxSeq <- 2, MaxFaults <- 1, MaxEvents <- 2

rollout == <<journal, approved, past, polls, disk, active, fence, closed, run, step, sess, faults>>
all     == <<component, vars, rollout>>

QueueInit == component = "queue" /\ Init /\ Rollout!Init
QueueNext == component = "queue" /\ Next /\ UNCHANGED <<component, rollout>>

RolloutInit == component = "rollout" /\ Init /\ Rollout!Init
RolloutNext == component = "rollout" /\ Rollout!Next /\ UNCHANGED <<component, vars>>

NodeInit == QueueInit \/ RolloutInit
NodeNext == QueueNext \/ RolloutNext
NodeSpec == NodeInit /\ [][NodeNext]_all

\* The queue under the fairness of its relay, its supervisor and the clock.
FairQueue == QueueInit /\ [][QueueNext]_all /\ Fairness

-----------------------------------------------------------------------------
\* A gate that is open admits mail under the committed policy only, so two nodes
\* are never open on different policies.
OneOpenPolicy == component = "rollout" => Rollout!OneOpenPolicy

\* What was staged, committed and released is what every node runs.
ReleasedEverywhere == component = "rollout" => Rollout!ReleasedEverywhere

\* Once a node's readiness is recorded, and until the rollout ends, its gate is
\* closed, nobody is being accepted behind it and its storage says so.
ReadyMeansFenced == component = "rollout" => Rollout!ReadyMeansFenced

\* The abstract promise: the cluster accepts mail under one policy at a time, and
\* it is switched while nobody is accepting.
AtomicSwitch ==
    Rollout!Switched!Init /\ [][component = "rollout" => Rollout!Switched!Step]_all
=============================================================================
