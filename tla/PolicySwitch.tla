---------------------------- MODULE PolicySwitch ----------------------------
(***************************************************************************)
(* What coordinated activation promises (docs/coordinated-activation.md):  *)
(* the whole cluster accepts mail under one policy at a time, and the      *)
(* policy changes only while no acceptance is in progress anywhere.        *)
(***************************************************************************)
CONSTANTS Sessions, Policies, First, Nobody

VARIABLES
    policy,   \* the committed policy of the cluster
    lease     \* the policy a session is accepting under, or Nobody

Init == policy = First /\ lease = [s \in Sessions |-> Nobody]

Accept(s) ==
    /\ lease[s] = Nobody
    /\ lease' = [lease EXCEPT ![s] = policy]
    /\ UNCHANGED policy

\* Acceptances end one by one, or all those of a node at once when it crashes.
Done(gone) ==
    /\ lease' = [s \in Sessions |-> IF s \in gone THEN Nobody ELSE lease[s]]
    /\ UNCHANGED policy

Switch(p) ==
    /\ \A s \in Sessions : lease[s] = Nobody
    /\ policy' = p
    /\ UNCHANGED lease

Next ==
    \/ \E s \in Sessions : Accept(s)
    \/ \E gone \in SUBSET Sessions : Done(gone)
    \/ \E p \in Policies : Switch(p)

Step == [Next]_<<policy, lease>>

Spec == Init /\ [][Next]_<<policy, lease>>
=============================================================================
