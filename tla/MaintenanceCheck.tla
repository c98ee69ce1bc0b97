------------------------- MODULE MaintenanceCheck --------------------------
(***************************************************************************)
(* Validation of a candidate release on a reserved pair of nodes           *)
(* (src/maintenance.rs, central/policies.rs validate_maintenance_policy).  *)
(* Each node runs a restricted process under a root authorization that     *)
(* names an operation and an expiry.  Its observer probes the peer; its    *)
(* handlers answer the peer's probes and the supervisor's question whether *)
(* the pair is ready.  Requests are slow, lost or answered too late, and a *)
(* process may be stopped and started under another operation meanwhile.   *)
(*                                                                         *)
(* Times are ages: how many ticks ago something happened, up to Old.       *)
(***************************************************************************)
EXTENDS Integers

CONSTANTS
    Coordinator, Worker,   \* the pair
    Operations,            \* of each node: the maintenance operations it is started for
    Probes,                \* probes followed: <<n, "replica">>, <<Worker, "policy">>
    Asked,                 \* nodes whose readiness is asked
    Fresh,                 \* how long an observation counts
    Rpc                    \* time limit of a request, for either side

VARIABLES
    central,     \* whether the authority's settled policy is the planned one
    unsettled,   \* how long it has not been
    proc,        \* of every node: its process, with what it observed
    round,       \* of every node: the observer's probes of this round
    req,         \* of every probe: the request under way
    health,      \* of every node: a readiness question under way
    proved       \* history: when a node last checked itself for the peer, and for which operation

vars == <<central, unsettled, proc, round, req, health, proved>>

Nodes == {Coordinator, Worker}
Peer(n) == IF n = Coordinator THEN Worker ELSE Coordinator
ProbesOf(n) == {p \in Probes : p[1] = n}

None == [none |-> TRUE]
Off  == [op |-> 0]
Never == -1
Old  == Fresh + Rpc + 1
Older(a) == IF a = Never \/ a = Old THEN a ELSE a + 1

On(n) == proc[n] # Off
\* live, by the wall clock and by the monotonic one.
Live(n) == On(n) /\ proc[n].live

\* local: the selection and the installed policy are the plan's (nothing on a held
\* node changes them); the coordinator also asks the authority.
Local(n) == Live(n) /\ (n = Coordinator => central)

Init ==
    /\ central = TRUE /\ unsettled = Never
    /\ proc = [n \in Nodes |-> Off] /\ round = [n \in Nodes |-> << >>]
    /\ req = [p \in Probes |-> None]
    /\ health = [n \in Nodes |-> None]
    /\ proved = [n \in Nodes |-> [op |-> 0, age |-> Old]]

-----------------------------------------------------------------------------
(* The process                                                              *)

\* serve: the authorization is still valid and the local check passes.
Start(n, op) ==
    /\ ~On(n) /\ op \in Operations[n] /\ (n = Coordinator => central)
    /\ proc' = [proc EXCEPT ![n] = [op |-> op, live |-> TRUE, replica |-> Never, policy |-> Never]]
    /\ UNCHANGED <<central, unsettled, round, req, health, proved>>

\* The authorization ends; handlers that are running see it.
Expire(n) ==
    /\ Live(n) /\ proc' = [proc EXCEPT ![n].live = FALSE]
    /\ UNCHANGED <<central, unsettled, round, req, health, proved>>

\* Expiry, a signal or a failure ends the process, with the requests it serves.
Stop(n) ==
    /\ On(n) /\ proc' = [proc EXCEPT ![n] = Off] /\ round' = [round EXCEPT ![n] = << >>]
    /\ health' = [health EXCEPT ![n] = None]
    /\ req' = [p \in Probes |->
                 IF req[p] # None /\ Peer(p[1]) = n /\ req[p].at = "serving" THEN None ELSE req[p]]
    /\ UNCHANGED <<central, unsettled, proved>>

-----------------------------------------------------------------------------
(* The observer                                                             *)

\* Mutant: a failed round leaves the other observation.
ClearedOne(n) ==
    [proc EXCEPT ![n].replica = IF "replica" \in DOMAIN round[n] /\ round[n]["replica"] = "ok" THEN @ ELSE Never]

\* Never retain a previous observation across a failed check.
Cleared(n) == [proc EXCEPT ![n].replica = Never, ![n].policy = Never]

\* A round starts with the local check; then all probes go out together.
Observe(n) ==
    /\ Live(n) /\ round[n] = << >> /\ ProbesOf(n) # {}
    /\ IF Local(n)
       THEN /\ round' = [round EXCEPT ![n] = [k \in {p[2] : p \in ProbesOf(n)} |-> "wait"]]
            /\ req' = [p \in Probes |->
                 IF p \in ProbesOf(n) THEN [op |-> proc[n].op, at |-> "sent", sent |-> 0, began |-> 0]
                 ELSE req[p]]
            /\ UNCHANGED proc
       ELSE proc' = Cleared(n) /\ UNCHANGED <<round, req>>
    /\ UNCHANGED <<central, unsettled, health, proved>>

\* Mutant: any operation of the pair will do.
BoundLoosely(n, op) == Live(n)

\* check_probe: the operation, the pair, the policy and the executables are the plan's.
Bound(n, op) == Live(n) /\ proc[n].op = op

Waits(n, k) == On(n) /\ <<n, k>> \in Probes /\ round[n] # << >> /\ round[n][k] = "wait"

\* The answer to this request, in time: the observation is dated now.
Receive(n, k) ==
    /\ Waits(n, k)
    /\ LET r == req[<<n, k>>] IN
       /\ r # None /\ r.at = "replied" /\ r.sent <= Rpc
       /\ round' = [round EXCEPT ![n][k] = IF Bound(n, r.op) THEN "ok" ELSE "failed"]
       /\ proc' = [proc EXCEPT ![n][k] = IF Bound(n, r.op) THEN 0 ELSE Never]
    /\ req' = [req EXCEPT ![<<n, k>>] = None]
    /\ UNCHANGED <<central, unsettled, health, proved>>

\* A refusal, a lost connection or the time limit; the request may still arrive.
ProbeFails(n, k) ==
    /\ Waits(n, k)
    /\ round' = [round EXCEPT ![n][k] = "failed"] /\ proc' = [proc EXCEPT ![n][k] = Never]
    /\ UNCHANGED <<central, unsettled, req, health, proved>>

EndRound(n) ==
    /\ On(n) /\ round[n] # << >> /\ \A k \in DOMAIN round[n] : round[n][k] # "wait"
    /\ round' = [round EXCEPT ![n] = << >>]
    /\ proc' = IF \E k \in DOMAIN round[n] : round[n][k] = "failed" THEN Cleared(n) ELSE proc
    /\ UNCHANGED <<central, unsettled, req, health, proved>>

-----------------------------------------------------------------------------
(* Handlers                                                                 *)

\* A probe reaches the peer, which checks it and itself; a refused one ends here.
Serve(p) ==
    LET n == Peer(p[1]) IN
    /\ req[p] # None /\ req[p].at = "sent" /\ On(n)
    /\ IF Bound(n, req[p].op) /\ Local(n)
       THEN /\ req' = [req EXCEPT ![p].at = "serving", ![p].began = 0]
            /\ proved' = [proved EXCEPT ![n] = [op |-> proc[n].op, age |-> 0]]
       ELSE req' = [req EXCEPT ![p] = None] /\ UNCHANGED proved
    /\ UNCHANGED <<central, unsettled, proc, round, health>>

\* validate_maintenance_policy, with the worker's credential.
Confirmed(p) == p[2] = "policy" => central

\* The answer goes out within the time limit and the authorization; on the
\* coordinator a policy probe is its own observation of the policy too.
Answer(p) ==
    LET n == Peer(p[1]) IN
    /\ req[p] # None /\ req[p].at = "serving" /\ Live(n) /\ Confirmed(p)
    /\ req' = [req EXCEPT ![p].at = "replied", ![p].began = 0]
    /\ proc' = IF p[2] = "policy" THEN [proc EXCEPT ![n].policy = 0] ELSE proc
    /\ UNCHANGED <<central, unsettled, round, health, proved>>

\* Refused or lost.
Drop(p) ==
    /\ req[p] # None /\ req' = [req EXCEPT ![p] = None]
    /\ UNCHANGED <<central, unsettled, proc, round, health, proved>>

\* health: the local check first, what was observed when that is done.
AskReady(n) ==
    /\ n \in Asked /\ Live(n) /\ health[n] = None
    /\ health' = [health EXCEPT ![n] = [local |-> Local(n), age |-> 0]]
    /\ UNCHANGED <<central, unsettled, proc, round, req, proved>>
EndAsk(n) ==
    /\ health[n] # None /\ health' = [health EXCEPT ![n] = None]
    /\ UNCHANGED <<central, unsettled, proc, round, req, proved>>

\* Mutant: an observation counts as long as the authorization.
FreshWhileLive(n, k) == proc[n][k] # Never

IsFresh(n, k) == proc[n][k] # Never /\ proc[n][k] <= Fresh

\* What a node may answer now: ready.
Ready(n) == Live(n) /\ health[n] # None /\ health[n].local /\ IsFresh(n, "replica") /\ IsFresh(n, "policy")

-----------------------------------------------------------------------------
(* The authority and the clock                                              *)

\* A rollout is staged or aborted elsewhere.
ChangePolicy ==
    /\ central' = ~central /\ unsettled' = IF central THEN 0 ELSE Never
    /\ UNCHANGED <<proc, round, req, health, proved>>

\* guard cancels a handler that takes too long; nobody waits for a late answer.
Tick ==
    /\ unsettled' = Older(unsettled)
    /\ proc' = [n \in Nodes |-> IF ~On(n) THEN Off
                                ELSE [proc[n] EXCEPT !.replica = Older(@), !.policy = Older(@)]]
    /\ req' = [p \in Probes |->
         IF req[p] = None THEN None
         ELSE IF req[p].at = "serving" /\ req[p].began >= Rpc THEN None
         ELSE IF req[p].at = "replied" /\ req[p].sent >= Rpc THEN None
         ELSE [req[p] EXCEPT !.sent = IF @ > Rpc THEN @ ELSE @ + 1,
                             !.began = IF req[p].at = "serving" THEN @ + 1 ELSE @]]
    /\ health' = [n \in Nodes |-> IF health[n] = None \/ health[n].age >= Rpc THEN None
                                  ELSE [health[n] EXCEPT !.age = @ + 1]]
    /\ proved' = [n \in Nodes |-> [proved[n] EXCEPT !.age = Older(@)]]
    /\ UNCHANGED <<central, round>>

Next ==
    \/ \E n \in Nodes : \/ \E op \in Operations[n] : Start(n, op)
                        \/ Expire(n) \/ Stop(n) \/ Observe(n) \/ EndRound(n) \/ AskReady(n) \/ EndAsk(n)
                        \/ \E k \in {"replica", "policy"} : Receive(n, k) \/ ProbeFails(n, k)
    \/ \E p \in Probes : Serve(p) \/ Answer(p) \/ Drop(p)
    \/ ChangePolicy \/ Tick

Spec == Init /\ [][Next]_vars

-----------------------------------------------------------------------------
(* Properties                                                               *)

\* A node that says it is ready has had its peer check itself, for the same
\* operation, no longer ago than an observation counts plus one request -
\* whatever arrived late, failed or was restarted in between.
ReadyMeansPeerReady ==
    \A n \in Nodes : Ready(n) => proved[Peer(n)].op = proc[n].op /\ proved[Peer(n)].age <= Fresh + Rpc

\* ... and the authority's settled policy was the planned one no longer ago than
\* that; for the coordinator, no longer ago than its own answer takes.
ReadyMeansPolicySettled ==
    \A n \in Nodes : Ready(n) => unsettled <= IF n = Coordinator THEN Rpc ELSE Fresh + Rpc

\* A worker whose last round failed has nothing left of the rounds before.
FailureClearsBoth ==
    On(Worker) /\ round[Worker] = << >> /\ Worker \in Asked =>
        (proc[Worker].replica = Never <=> proc[Worker].policy = Never)
=============================================================================
