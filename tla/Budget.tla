------------------------------- MODULE Budget -------------------------------
(***************************************************************************)
(* Spending one paid resource (LLM euros per month, requests to a          *)
(* reputation provider per day or minute) from several MX nodes under one  *)
(* limit (src/cluster/budget.rs, Budget in src/llm.rs, Client::reserve in  *)
(* src/protection/providers.rs).                                           *)
(*                                                                         *)
(* The authority keeps a ledger per window and charges it with every       *)
(* credit it issues; a worker spends only from the credits in its wallet.  *)
(* A worker asks for credit in its polls.  A poll the worker gave up on    *)
(* may be handled later, or again; its reply is lost.                      *)
(***************************************************************************)
EXTENDS Naturals, FiniteSets, FiniteSetsExt

CONSTANTS
    Workers,     \* the nodes that spend from wallets
    Jobs,        \* identities of concurrent reservations
    Limits,      \* limits an administrator may set, 0 for none
    Costs,       \* what one reservation may cost
    Chunk,       \* one increment of credit
    Margin,      \* a worker asks when less than this is left
    Refundable,  \* TRUE for the LLM: the actual cost is settled afterwards
    MaxWindow,   \* bound: windows
    MaxPolls,    \* bound: different polls that may still be handled
    MaxSpend     \* bound: units spent per ledger while there is no limit

Windows == 0..MaxWindow
Nodes   == Workers \cup {"authority"}

VARIABLES
    now,      \* the current window
    limit,    \* the authority's policy
    policy,   \* the policy each worker runs, which may lag
    used,     \* the authority's ledger: llm_months.accounted, quota.*_used
    alloc,    \* cluster_allocations: credit issued to a worker in a window
    held,     \* ha-recovery-budget-hold exists
    backup,   \* a checkpoint of the authority's database
    wallet,   \* cluster_wallet of each worker
    lease,    \* cluster_unlimited_lease of each worker, not expired
    spent,    \* each worker's own ledger
    job,      \* open reservations
    call,     \* the poll a worker waits for, a set of at most one
    reply,    \* the reply on its way to that poll
    polls,    \* polls ever sent
    high,     \* history: the highest limit of each window
    metered,  \* history: units reserved under a limit, per node and window
    restored  \* history: the authority was restored from its checkpoint

authority == <<limit, used, alloc, held, backup>>
worker    == <<policy, wallet, lease, spent>>
network   == <<call, reply, polls>>
history   == <<high, metered, restored>>
vars      == <<now, authority, worker, job, network, history>>

NoCredit == [amount |-> 0, unlimited |-> FALSE, known |-> FALSE]
NoJob    == [node |-> "none", win |-> 0, cost |-> 0, metered |-> FALSE]
Larger(a, b)   == IF a > b THEN a ELSE b
Smaller(a, b)  == IF a < b THEN a ELSE b
Left(a, b)     == IF a > b THEN a - b ELSE 0       \* saturating_sub
Zeros          == [w \in Windows |-> 0]

Init ==
    /\ now = 0 /\ limit \in Limits
    /\ policy = [n \in Workers |-> limit]
    /\ used = Zeros
    /\ alloc = [n \in Workers |-> Zeros]
    /\ held = FALSE
    /\ backup = [used |-> used, alloc |-> alloc]
    /\ wallet = [n \in Workers |-> [w \in Windows |-> NoCredit]]
    /\ lease = [n \in Workers |-> FALSE]
    /\ spent = [n \in Workers |-> Zeros]
    /\ job = [j \in Jobs |-> NoJob]
    /\ call = [n \in Workers |-> {}] /\ reply = call /\ polls = {}
    /\ high = [w \in Windows |-> IF w = 0 THEN limit ELSE 0]
    /\ metered = [n \in Nodes |-> Zeros]
    /\ restored = FALSE

-----------------------------------------------------------------------------
(* Spending                                                                 *)

\* Mutant: an unlimited credit still opens the budget of a policy that became finite.
CeilingStale(n) ==
    LET credit == wallet[n][now] IN
    IF credit.unlimited THEN [free |-> TRUE, cap |-> 0]
    ELSE [free |-> FALSE, cap |-> credit.amount]

Nothing == [free |-> FALSE, cap |-> 0]

\* budget::ceiling for a worker: no cap, or a cap.  A policy that became finite
\* needs a finite credit; an unlimited one may bridge a new window on its lease.
Ceiling(n) ==
    LET credit == wallet[n][now] IN
    IF credit.unlimited
    THEN IF policy[n] = 0 THEN [free |-> TRUE, cap |-> 0] ELSE Nothing
    ELSE IF credit.known
    THEN [free |-> FALSE,
          cap |-> IF policy[n] = 0 THEN credit.amount ELSE Smaller(credit.amount, policy[n])]
    ELSE [free |-> policy[n] = 0 /\ lease[n] /\ ~Refundable, cap |-> 0]

Open(j, n, cost, capped) ==
    /\ job[j] = NoJob
    /\ job' = IF ~Refundable THEN job ELSE
         [job EXCEPT ![j] = [node |-> n, win |-> now, cost |-> cost, metered |-> capped]]
    /\ metered' = IF capped THEN [metered EXCEPT ![n][now] = @ + cost] ELSE metered

\* reserve on a worker: one transaction reads the ledger and the ceiling.
WorkerReserve(n, j, cost) ==
    /\ LET c == Ceiling(n)
       IN  /\ spent[n][now] + cost <= IF c.free THEN MaxSpend ELSE c.cap
           /\ Open(j, n, cost, ~c.free)
    /\ spent' = [spent EXCEPT ![n][now] = @ + cost]
    /\ UNCHANGED <<now, authority, policy, wallet, lease, network, high, restored>>

\* reserve on the authority: its ledger already holds the credits it issued.
AuthorityReserve(j, cost) ==
    /\ used[now] + cost <= IF limit = 0 THEN MaxSpend ELSE limit
    /\ Open(j, "authority", cost, limit # 0)
    /\ used' = [used EXCEPT ![now] = @ + cost]
    /\ UNCHANGED <<now, limit, alloc, held, backup, worker, network, high, restored>>

\* Mutant: the refund goes to the current window.
SettleNow(j, actual) ==
    /\ Refundable /\ job[j] # NoJob /\ actual <= job[j].cost
    /\ LET n == job[j].node  back == job[j].cost - actual
       IN  /\ IF n = "authority"
              THEN used' = [used EXCEPT ![now] = @ - back] /\ UNCHANGED spent
              ELSE spent' = [spent EXCEPT ![n][now] = @ - back] /\ UNCHANGED used
           /\ metered' = IF job[j].metered
                         THEN [metered EXCEPT ![n][job[j].win] = @ - back] ELSE metered
    /\ job' = [job EXCEPT ![j] = NoJob]
    /\ UNCHANGED <<now, limit, alloc, held, backup, policy, wallet, lease, network,
                   high, restored>>

\* settle: the provider's bill replaces the reservation, in its own month.
Settle(j, actual) ==
    /\ Refundable /\ job[j] # NoJob /\ actual <= job[j].cost
    /\ LET n == job[j].node  w == job[j].win  back == job[j].cost - actual
       IN  /\ IF n = "authority"
              THEN used' = [used EXCEPT ![w] = @ - back] /\ UNCHANGED spent
              ELSE spent' = [spent EXCEPT ![n][w] = @ - back] /\ UNCHANGED used
           /\ metered' = IF job[j].metered THEN [metered EXCEPT ![n][w] = @ - back]
                         ELSE metered
    /\ job' = [job EXCEPT ![j] = NoJob]
    /\ UNCHANGED <<now, limit, alloc, held, backup, policy, wallet, lease, network,
                   high, restored>>

\* A timeout, a cancellation or a bill above the reservation: it stays charged.
Forfeit(j) ==
    /\ job[j] # NoJob
    /\ job' = [job EXCEPT ![j] = NoJob]
    /\ UNCHANGED <<now, authority, worker, network, history>>

-----------------------------------------------------------------------------
(* Polls                                                                    *)

\* budget::request: what the worker knows to have, and whether it needs more.
Ask(n) ==
    /\ call[n] = {}
    /\ LET credit == wallet[n][now]
           r == [node |-> n, win |-> now, known |-> credit.amount,
                 need |-> ~credit.unlimited /\ Left(credit.amount, spent[n][now]) < Margin]
       IN  /\ r \in polls \/ Cardinality(polls) < MaxPolls
           /\ call' = [call EXCEPT ![n] = {r}] /\ polls' = polls \cup {r}
    /\ UNCHANGED <<now, authority, worker, job, reply, history>>

\* The poll times out or its connection breaks.
GiveUp(n) ==
    /\ call[n] # {}
    /\ call' = [call EXCEPT ![n] = {}]
    /\ reply' = [reply EXCEPT ![n] = {}]
    /\ UNCHANGED <<now, authority, worker, job, polls, history>>

\* The reply to a poll; nothing while the recovery hold is on.
Credit(n, inc) ==
    [win |-> now, known |-> ~held, unlimited |-> ~held /\ limit = 0,
     amount |-> IF held \/ limit = 0 THEN 0 ELSE alloc[n][now] + inc]

\* Mutant: what the worker says it knows is not compared with what was issued.
IncrementUnseen(r) ==
    IF r.need THEN Smaller(Chunk, Left(limit, used[now])) ELSE 0

\* allocate: credit is added only if the worker has seen all that was issued.
Increment(r) ==
    LET known == IF r.win = now THEN r.known ELSE 0
    IN  IF alloc[r.node][now] = known /\ r.need
        THEN Smaller(Chunk, Left(limit, used[now])) ELSE 0

\* Mutant: a new credit is not charged to the authority's ledger.
GrantUncharged(r) ==
    /\ r \in polls
    /\ LET inc == IF held \/ limit = 0 THEN 0 ELSE Increment(r)
       IN  /\ alloc' = [alloc EXCEPT ![r.node][now] = @ + inc]
           /\ reply' = IF r \in call[r.node]
                       THEN [reply EXCEPT ![r.node] = {Credit(r.node, inc)}] ELSE reply
    /\ UNCHANGED <<now, limit, used, held, backup, worker, job, call, polls, history>>

\* grant: one transaction charges the ledger and records the cumulative amount.
\* Only the poll the worker still waits for has a reader for its reply.
Grant(r) ==
    /\ r \in polls
    /\ LET inc == IF held \/ limit = 0 THEN 0 ELSE Increment(r)
       IN  /\ alloc' = [alloc EXCEPT ![r.node][now] = @ + inc]
           /\ used' = [used EXCEPT ![now] = @ + inc]
           /\ reply' = IF r \in call[r.node]
                       THEN [reply EXCEPT ![r.node] = {Credit(r.node, inc)}] ELSE reply
    /\ UNCHANGED <<now, limit, held, backup, worker, job, call, polls, history>>

\* install: a credit of another window is skipped, a credit of this one never
\* lowers the wallet; an empty reply (the hold) also revokes the lease.
Install(n) ==
    /\ \E c \in reply[n] :
        LET current == c.known /\ c.win = now
        IN  /\ wallet' = IF ~current THEN wallet ELSE
                 [wallet EXCEPT ![n][now] =
                    [amount |-> Larger(@.amount, c.amount), unlimited |-> c.unlimited,
                     known |-> TRUE]]
            /\ lease' = [lease EXCEPT ![n] = current /\ c.unlimited]
    /\ call' = [call EXCEPT ![n] = {}]
    /\ reply' = [reply EXCEPT ![n] = {}]
    /\ UNCHANGED <<now, authority, policy, spent, job, polls, history>>

-----------------------------------------------------------------------------
(* Administrators, the clock, and the loss of the authority                 *)

SetLimit(l) ==
    /\ l \in Limits /\ l # limit
    /\ limit' = l
    /\ high' = [high EXCEPT ![now] = Larger(@, l)]
    /\ UNCHANGED <<now, used, alloc, held, backup, worker, job, network, metered, restored>>

\* A worker activates the policy of the authority.
Activate(n) ==
    /\ policy[n] # limit
    /\ policy' = [policy EXCEPT ![n] = limit]
    /\ UNCHANGED <<now, authority, wallet, lease, spent, job, network, history>>

\* The next window begins; every ledger starts it at zero.
NextWindow ==
    /\ now < MaxWindow
    /\ now' = now + 1
    /\ high' = [high EXCEPT ![now + 1] = Larger(@, limit)]
    /\ UNCHANGED <<authority, worker, job, network, metered, restored>>

\* 30 seconds without a reply.
LeaseExpires(n) ==
    /\ lease[n]
    /\ lease' = [lease EXCEPT ![n] = FALSE]
    /\ UNCHANGED <<now, authority, policy, wallet, spent, job, network, history>>

Checkpoint ==
    /\ ~restored
    /\ backup' = [used |-> used, alloc |-> alloc]
    /\ UNCHANGED <<now, limit, used, alloc, held, worker, job, network, history>>

\* Mutant: the restored authority issues credit again.
RestoreUnheld ==
    /\ ~restored /\ restored' = TRUE
    /\ used' = backup.used /\ alloc' = backup.alloc
    /\ job' = [j \in Jobs |-> IF job[j].node = "authority" THEN NoJob ELSE job[j]]
    /\ UNCHANGED <<now, limit, held, backup, worker, network, high, metered>>

\* Disaster recovery from the checkpoint: the hold is written with it.
Restore ==
    /\ ~restored /\ restored' = TRUE
    /\ used' = backup.used /\ alloc' = backup.alloc
    /\ held' = TRUE
    /\ job' = [j \in Jobs |-> IF job[j].node = "authority" THEN NoJob ELSE job[j]]
    /\ UNCHANGED <<now, limit, backup, worker, network, high, metered>>

Spend(j) ==
    \/ \E cost \in Costs : AuthorityReserve(j, cost) \/ \E n \in Workers : WorkerReserve(n, j, cost)
    \/ \E actual \in 0..job[j].cost : Settle(j, actual)
    \/ Forfeit(j)

Poll(n) ==
    \/ Ask(n) \/ GiveUp(n) \/ Install(n) \/ LeaseExpires(n) \/ Activate(n)

Next ==
    \/ \E j \in Jobs : Spend(j)
    \/ \E n \in Workers : Poll(n)
    \/ \E r \in polls : Grant(r)
    \/ \E l \in Limits : SetLimit(l)
    \/ NextWindow \/ Checkpoint \/ Restore

Spec == Init /\ [][Next]_vars
-----------------------------------------------------------------------------
(* Properties                                                               *)

Total(f, w) == MapThenSumSet(LAMBDA n : f[n][w], DOMAIN f)

\* The state of the program is well formed; a wallet is never asked for twice at once.
TypeOK ==
    /\ now \in Windows /\ limit \in Limits /\ policy \in [Workers -> Limits]
    /\ used \in [Windows -> Nat] /\ alloc \in [Workers -> [Windows -> Nat]]
    /\ spent \in [Workers -> [Windows -> Nat]] /\ lease \in [Workers -> BOOLEAN]
    /\ \A n \in Workers : Cardinality(call[n]) <= 1 /\ Cardinality(reply[n]) <= 1

\* Until the authority is lost, what all nodes together reserve under a limit in
\* one window stays within the highest limit that window had, whatever replies
\* are lost, repeated or late, and whichever policy each worker still runs.
ClusterWithinLimit ==
    ~restored => \A w \in Windows : Total(metered, w) <= high[w]

\* The workers alone never exceed it, even after the authority came back from an
\* old checkpoint that has forgotten credits: the hold issues none of them again.
WorkersWithinLimit ==
    \A w \in Windows : MapThenSumSet(LAMBDA n : metered[n][w], Workers) <= high[w]

\* A reply that is lost or repeated strands at most one increment: the authority
\* never issues a second credit before the worker has reported the first.
OneChunkInFlight ==
    ~restored => \A n \in Workers, w \in Windows :
        /\ wallet[n][w].amount <= alloc[n][w]
        /\ (w = now /\ ~wallet[n][w].unlimited) => alloc[n][w] <= wallet[n][w].amount + Chunk

SpendStep ==
    \A n \in Workers :
        (policy[n] # 0 /\ policy'[n] = policy[n] /\ spent'[n][now] > spent[n][now])
            => spent'[n][now] <= policy[n]

\* A worker whose policy has a limit has spent no more than that limit unless it
\* spent under an earlier policy: a step that spends obeys the policy of its node.
SpendsUnderItsPolicy == [][SpendStep]_vars
=============================================================================
