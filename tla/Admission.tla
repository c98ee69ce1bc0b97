----------------------------- MODULE Admission -----------------------------
(***************************************************************************)
(* Selective admission of recipients before DATA: greylisting, the rate of *)
(* a peer and the delay of refused clients (src/smtp_admission.rs,         *)
(* src/smtp_admission/runtime.rs, src/capacity.rs).  One authority decides *)
(* for all nodes; a worker that gets no answer lets the recipient pass,    *)
(* and the authority may have recorded the attempt all the same.           *)
(*                                                                         *)
(* Time is in abstract units.  The wall clock may be set back.             *)
(***************************************************************************)
EXTENDS Naturals, FiniteSets, FiniteSetsExt

CONSTANTS
    Keys,        \* retry network, sender and recipient
    Peers,       \* addresses, or networks of them, that have a bucket of their own
    Connections,
    Modes,       \* "observe" and "enforce", as far as policies use them
    Greylisting, RetryDelay, RetryMaxAge, Retention, MaxEntries, PruneBatch,
    Rate, Burst,       \* tokens per unit (0: no rate limit) and most tokens
    Unused,            \* a bucket that was not used for longer is deleted
    Delay, SessionBudget, Limits,  \* tarpit; the concurrency of possible policies
    MaxTime, MaxBack   \* bounds: the clock, and how often it is set back

VARIABLES
    now,       \* the clock
    back,      \* times the clock was set back
    mode,      \* the authority's mode
    entries,   \* smtp_admission_entries_v1, by mode
    bucket,    \* smtp_admission_rates_v2: the buckets, by mode
    limit,     \* sleepers.limit
    committed, \* the concurrency of the committed policy
    sleeping,  \* connections being delayed
    charged,   \* DelayBudget of every connection
    peak,      \* history: the latest time the clock ever showed
    first,     \* history: when an attempt was recorded, how long it or the pass it earned
               \* counts, and whether the clock ever came to that end
    granted,   \* history: charged requests that were not limited, by mode, peer and time
    slept,     \* history: how long every connection was delayed
    last       \* history: the decision of this step or, for its delay, the one before

vars == <<now, back, mode, entries, bucket, limit, committed, sleeping, charged, peak, first,
          granted, slept, last>>

Never == MaxTime + Retention + RetryMaxAge + 1
NoEntry == [first |-> Never]
None    == [status |-> "none", enforced |-> FALSE]
NoBucket == [tokens |-> 0, updated |-> Never]
Held(m) == {k \in Keys : entries[m][k] # NoEntry}

Init ==
    /\ now = 0 /\ peak = 0 /\ back = 0 /\ mode = "enforce"
    /\ entries = [m \in Modes |-> [k \in Keys |-> NoEntry]]
    /\ bucket = [m \in Modes |-> [p \in Peers |-> NoBucket]]
    /\ limit = Min(Limits) /\ committed = Min(Limits)
    /\ sleeping = {} /\ charged = [c \in Connections |-> 0]
    /\ slept = charged
    /\ first = [m \in Modes |-> [k \in Keys |-> [at |-> Never, ends |-> 0, over |-> TRUE]]]
    /\ granted = [m \in Modes |-> [p \in Peers |-> [t \in 0..MaxTime |-> 0]]]
    /\ last = None

-----------------------------------------------------------------------------
(* Greylisting                                                              *)

Expired(m, k) == entries[m][k].expires <= now

\* prune_expired: the rows that expired first, in both modes, a batch at most.
Prunes(gone) ==
    LET old == {x \in Modes \X Keys : x[2] \in Held(x[1]) /\ Expired(x[1], x[2])} IN
    /\ gone \subseteq old
    /\ Cardinality(gone) = Min({PruneBatch, Cardinality(old)})
    /\ \A x \in gone, y \in old \ gone : entries[x[1]][x[2]].expires <= entries[y[1]][y[2]].expires

\* Mutant: a retry that comes too soon starts the delay again.
TooSoonAgain(row) == [row EXCEPT !.eligible = now + RetryDelay]

\* A retry that comes too soon changes nothing.
TooSoon(row) == row

\* Admission::check on the row that pruning and the targeted expiry leave.
Outcome(row, count) ==
    IF row = NoEntry
    THEN IF count >= MaxEntries THEN [status |-> "capacity", row |-> row]
         ELSE [status |-> "first_seen",
               row |-> [first |-> now, eligible |-> now + RetryDelay, passed |-> Never,
                        expires |-> now + RetryMaxAge]]
    ELSE LET skewed == now < row.first \/ (row.passed # Never /\ now < row.passed) IN
         CASE skewed -> [status |-> "clock_skew", row |-> row]
           [] ~skewed /\ row.passed # Never -> [status |-> "passed", row |-> row]
           [] ~skewed /\ row.passed = Never /\ now < row.eligible ->
                [status |-> "too_soon", row |-> TooSoon(row)]
           [] OTHER -> [status |-> "retry_passed",
                        row |-> [row EXCEPT !.passed = now, !.expires = now + Retention]]

\* Mutant: attempts that are only observed are rows of enforcement.
NamespaceShared(m) == "enforce"

\* Rows of the two modes are apart.
Namespace(m) == m

Deferred(status) == status \in {"first_seen", "too_soon", "rate_limited"}

\* A worker whose answer does not come in time goes on as if there were none,
\* and one whose own policy only observes does not enforce it.
Decided(k, status) ==
    \E seen \in {status, "unavailable"}, local \in Modes :
        last' = [key |-> k, status |-> seen,
                 enforced |-> mode = "enforce" /\ local = "enforce" /\ Deferred(seen)]

Greylist(k) ==
    LET m == Namespace(mode) IN
    \E gone \in SUBSET (Modes \X Keys) :
        /\ Prunes(gone)
        /\ LET kept(n, j) == IF <<n, j>> \in gone \/ (n = m /\ j = k /\ k \in Held(m) /\ Expired(m, k))
                             THEN NoEntry ELSE entries[n][j]
               count == Cardinality({j \in Keys : kept(m, j) # NoEntry})
               o == Outcome(kept(m, k), count) IN
           /\ entries' = [n \in Modes |-> [j \in Keys |->
                            IF n = m /\ j = k THEN o.row ELSE kept(n, j)]]
           /\ first' = [first EXCEPT ![mode][k] =
                CASE o.status = "first_seen" -> [at |-> now, ends |-> now + RetryMaxAge, over |-> FALSE]
                  [] o.status = "retry_passed" -> [@ EXCEPT !.ends = now + Retention, !.over = FALSE]
                  [] OTHER -> @]
           /\ Decided(k, o.status)

-----------------------------------------------------------------------------
(* The rate of a peer                                                       *)

\* Mutant: a bucket that is full of requests keeps the time of its last change.
ChargedStale(b, tokens) == [tokens |-> tokens - 1, updated |-> b.updated]

Charged(b, tokens) == [tokens |-> tokens - 1, updated |-> now]

\* Buckets that were not used for long are deleted, the oldest first, a batch at most.
Sweeps(gone) ==
    LET old == {x \in Modes \X Peers :
                  bucket[x[1]][x[2]] # NoBucket /\ bucket[x[1]][x[2]].updated + Unused < now} IN
    /\ gone \subseteq old
    /\ Cardinality(gone) = Min({PruneBatch, Cardinality(old)})
    /\ \A x \in gone, y \in old \ gone : bucket[x[1]][x[2]].updated <= bucket[y[1]][y[2]].updated

Swept(gone) ==
    [m \in Modes |-> [p \in Peers |-> IF <<m, p>> \in gone THEN NoBucket ELSE bucket[m][p]]]

\* A new peer starts with a full bucket.
Own(kept, p) == IF kept[mode][p] = NoBucket THEN [tokens |-> Burst, updated |-> now] ELSE kept[mode][p]
Refilled(b) == Min({b.tokens + (now - b.updated) * Rate, Burst})

\* A full table has no room for a new peer; a clock behind the bucket's neither
\* charges nor limits.
Uncounted(kept, p) ==
    \/ kept[mode][p] = NoBucket
       /\ Cardinality({q \in Peers : kept[mode][q] # NoBucket}) >= MaxEntries
    \/ now < Own(kept, p).updated

Limited(k, p) ==
    \E gone \in SUBSET (Modes \X Peers) :
        LET kept == Swept(gone)
            b == Own(kept, p) IN
        /\ Sweeps(gone) /\ ~Uncounted(kept, p) /\ Refilled(b) < 1
        /\ bucket' = [kept EXCEPT ![mode][p] = [tokens |-> Refilled(b), updated |-> now]]
        /\ Decided(k, "rate_limited")
        /\ UNCHANGED <<entries, first, granted>>

\* A request that is not counted returns before the commit: the sweep is undone.
WithinRate(p) ==
    \E gone \in SUBSET (Modes \X Peers) :
        LET kept == Swept(gone)
            b == Own(kept, p) IN
        /\ Sweeps(gone)
        /\ IF Uncounted(kept, p) THEN UNCHANGED <<bucket, granted>>
           ELSE /\ Refilled(b) >= 1
                /\ bucket' = [kept EXCEPT ![mode][p] = Charged(b, Refilled(b))]
                /\ granted' = [granted EXCEPT ![mode][p][now] = IF now = peak THEN @ + 1 ELSE @]

\* check: only the first recipient of a transaction is charged; an exempt peer
\* or sender, or one with too few signals, is not greylisted.
Request(k, p, charge, selected) ==
    /\ \/ charge /\ Rate > 0 /\ Limited(k, p)
       \/ /\ IF charge /\ Rate > 0 THEN WithinRate(p) ELSE UNCHANGED <<bucket, granted>>
          /\ \/ selected /\ Greylisting /\ Greylist(k)
             \/ ~selected /\ Decided(k, "not_selected") /\ UNCHANGED <<entries, first>>
    /\ UNCHANGED <<now, back, mode, limit, committed, sleeping, charged, peak, slept>>

-----------------------------------------------------------------------------
(* The delay of a refused client                                            *)

Amount(c) == Min({Delay, SessionBudget - charged[c]})

\* Mutant: the budget is not charged when the client goes away early.
ReservedLater(c) == UNCHANGED charged

\* The reservation is made before the sleep and not given back.
Reserved(c) == charged' = [charged EXCEPT ![c] = @ + Amount(c)]

\* delay: no more sleepers than the policy in force allows, whatever policy the
\* session has; without a permit the client is answered at once.
Sleep(c) ==
    /\ last.enforced /\ c \notin sleeping /\ Amount(c) > 0
    /\ Cardinality(sleeping) < limit
    /\ sleeping' = sleeping \cup {c}
    /\ Reserved(c) /\ slept' = [slept EXCEPT ![c] = @ + Amount(c)]
    /\ UNCHANGED <<now, back, mode, entries, bucket, limit, committed, peak, first, granted, last>>

\* The sleep ends, or the connection does.
Wake(c) ==
    /\ c \in sleeping /\ sleeping' = sleeping \ {c}
    /\ UNCHANGED <<now, back, mode, entries, bucket, limit, committed, charged, peak, first, granted, slept, last>>

-----------------------------------------------------------------------------
(* Policy, maintenance and time                                             *)

\* Runtime::activate, called when a revision is committed.
Activate ==
    /\ \E n \in Limits : committed' = n /\ limit' = n
    /\ mode' \in Modes
    /\ UNCHANGED <<now, back, entries, bucket, sleeping, charged, peak, first, granted, slept>>
    /\ last' = None

\* runtime::prune, the maintenance of both tables.
Prune ==
    /\ \E gone \in SUBSET (Modes \X Keys), unused \in SUBSET (Modes \X Peers) :
        /\ gone # {} \/ unused # {}
        /\ Prunes(gone) /\ Sweeps(unused)
        /\ entries' = [m \in Modes |-> [k \in Keys |->
                         IF <<m, k>> \in gone THEN NoEntry ELSE entries[m][k]]]
        /\ bucket' = Swept(unused)
    /\ UNCHANGED <<now, back, mode, limit, committed, sleeping, charged, peak, first, granted, slept>>
    /\ last' = None

Tick ==
    /\ now < MaxTime /\ now' = now + 1
    /\ peak' = Max({peak, now'})
    /\ first' = [m \in Modes |-> [k \in Keys |->
                   [first[m][k] EXCEPT !.over = @ \/ first[m][k].ends <= now']]]
    /\ UNCHANGED <<back, mode, entries, bucket, limit, committed, sleeping, charged, granted, slept>>
    /\ last' = None

SetBack ==
    /\ now > 0 /\ back < MaxBack /\ now' = now - 1 /\ back' = back + 1
    /\ UNCHANGED <<mode, entries, bucket, limit, committed, sleeping, charged, peak, first, granted, slept>>
    /\ last' = None

Next ==
    \/ \E k \in Keys, p \in Peers, charge \in {FALSE, Rate > 0}, selected \in BOOLEAN :
           Request(k, p, charge, selected)
    \/ \E c \in Connections : Sleep(c) \/ Wake(c)
    \/ Activate \/ Prune \/ Tick \/ SetBack

Spec == Init /\ [][Next]_vars

-----------------------------------------------------------------------------
(* Properties                                                               *)

RetryStep ==
    last' # last /\ last'.enforced /\ last'.status # "rate_limited" =>
        LET f == first["enforce"][last'.key] IN f.over \/ now < f.at + RetryDelay

\* A sender that was refused and retries when the delay is over, before the attempt is
\* too old, passes, and goes on passing for as long as a pass is kept: no order of
\* retries, sweeps, changes of mode or clock steps makes it wait again.
RetryPasses == [][RetryStep]_vars

PassStep ==
    last' # last /\ last'.status = "retry_passed" /\ mode = "enforce" =>
        first["enforce"][last'.key].at + RetryDelay <= now

\* A pass that enforcement gives was earned under enforcement: the attempt was
\* refused, not merely observed, at least the delay before.
PassIsEarned == [][PassStep]_vars

GrantedWithin(m, p, s, t) == FoldSet(LAMBDA u, n : n + granted[m][p][u], 0, s..t)

\* While the clock does not go back, a peer with a bucket gets no more in any stretch
\* of time than the burst and the rate allow, and the burst once more for every time it
\* may have stayed away until its bucket was deleted.  A peer that finds the table full
\* is not counted.
RateBounded ==
    \A m \in Modes, p \in Peers, s, t \in 0..MaxTime :
        s <= t => GrantedWithin(m, p, s, t) <= Burst * (1 + (t - s) \div (Unused + 1)) + (t - s) * Rate

\* A session is delayed for its budget at most, and new sleepers are admitted by
\* the policy that is in force, never by the older policy of a session.
DelayBounded ==
    /\ \A c \in Connections : slept[c] <= SessionBudget
    /\ limit = committed
=============================================================================
