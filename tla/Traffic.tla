------------------------------ MODULE Traffic ------------------------------
(***************************************************************************)
(* Shared traffic limits (src/traffic.rs, src/traffic/runtime.rs): one     *)
(* authority counts the messages of every node in fixed windows, by        *)
(* policy, recipient and kind of limit, once per message, and defers       *)
(* recipients early when a window is full.  A node without an answer keeps *)
(* to the content policy.                                                  *)
(***************************************************************************)
EXTENDS Integers, FiniteSets

CONSTANTS
    Messages,    \* messages, each with its own transaction identifier
    Sender,      \* of every message
    Recipients, Senders,
    SenderLimit, RecipientLimit,
    Window,      \* of the limits
    Retain,      \* how long buckets and results are kept
    Lasts,       \* how long after it was sent a request may still arrive
    MaxTime, MaxPolicy, MaxBack  \* bounds

VARIABLES
    now, back,   \* the clock, and how often it was set back
    policy,      \* the policy in force: its identity is part of every key
    buckets,     \* traffic_buckets_v1
    operations,  \* traffic_operations_v1: saved results
    pending,     \* requests under way, with the policy of their message
    answered,    \* answers the nodes got
    counted      \* history: what was counted, when, and what came of it

vars == <<now, back, policy, buckets, operations, pending, answered, counted>>

Keys == (1..MaxPolicy) \X Recipients \X ({<<"recipient">>} \cup ({"sender"} \X Senders))
Limit(k) == IF k[3] = <<"recipient">> THEN RecipientLimit ELSE SenderLimit
Empty == [started |-> 0, count |-> 0]

\* The limits that concern a message, for every recipient; 0 is no limit.
KeysOf(p, m) ==
    {k \in Keys : k[1] = p /\ Limit(k) > 0 /\ k[3] \in {<<"recipient">>, <<"sender", Sender[m]>>}}

Init ==
    /\ now = 0 /\ back = 0 /\ policy = 1
    /\ buckets = [k \in Keys |-> Empty]
    /\ operations = << >> /\ pending = << >>
    /\ answered = [m \in Messages |-> "none"]
    /\ counted = {}

-----------------------------------------------------------------------------
Live(b) == b.count > 0 /\ now - b.started < Window

\* Mutant: the window starts again with every message.
CountedSliding(b) == IF Live(b) THEN [started |-> now, count |-> b.count + 1]
                     ELSE [started |-> now, count |-> 1]

\* bucket: one more in the window, or the first of the next.
Counted(b) == IF Live(b) THEN [b EXCEPT !.count = @ + 1] ELSE [started |-> now, count |-> 1]

\* Mutant: a bucket that is as old as a window may be deleted, with others.
OldAny(b) == b.count > 0 /\ now > b.started

Old(b) == b.count > 0 /\ b.started + Retain < now

\* A sweep deletes some of the old buckets and results.
Swept(b, gone) == [k \in Keys |-> IF k \in gone THEN Empty ELSE b[k]]
OldKeys == {k \in Keys : Old(buckets[k])}
OldResults == {m \in DOMAIN operations : operations[m].created + Retain < now}

\* A message whose request is repeated gets the saved result.
Saved(m) == m \in DOMAIN operations

\* Mutant: the result is not saved.
SaveNothing(m, r, lost) == UNCHANGED operations

Save(m, r, lost) ==
    operations' = [x \in (DOMAIN operations \ lost) \cup {m} |->
                     IF x = m THEN [result |-> r, created |-> now] ELSE operations[x]]

\* The node's request, with the policy of its transaction; until the transport
\* gives up it may be received again, also after the node stopped waiting.
Ask(m) ==
    /\ m \notin DOMAIN pending
    /\ pending' = [x \in DOMAIN pending \cup {m} |->
                     IF x = m THEN [policy |-> policy, at |-> now] ELSE pending[x]]
    /\ UNCHANGED <<now, back, policy, buckets, operations, answered, counted>>

\* check, in one transaction: every limit of every recipient is counted, also
\* when one is exceeded.  A request of another policy, or a clock before the
\* start of a window, fails and changes nothing.
Check(m) ==
    /\ m \in DOMAIN pending /\ pending[m].policy = policy /\ now <= pending[m].at + Lasts
    /\ ~Saved(m)
    /\ \E gone \in SUBSET OldKeys, lost \in SUBSET OldResults :
        LET swept == Swept(buckets, gone)
            keys == KeysOf(policy, m)
            next == [k \in Keys |-> IF k \in keys THEN Counted(swept[k]) ELSE swept[k]]
            over == {k \in keys : next[k].count > Limit(k)} IN
        /\ \A k \in keys : swept[k].started <= now
        /\ buckets' = next
        /\ Save(m, IF over = {} THEN "passed" ELSE "limited", lost)
        /\ counted' = counted \cup {[keys |-> keys, message |-> m, at |-> now, passed |-> over = {}]}
    /\ UNCHANGED <<now, back, policy, pending, answered>>

\* inspect: the answer, in time; without one the message goes on, and nothing here
\* changes.
Answer(m) ==
    /\ m \in DOMAIN pending /\ answered[m] = "none" /\ now <= pending[m].at + Lasts
    /\ Saved(m) /\ answered' = [answered EXCEPT ![m] = operations[m].result]
    /\ UNCHANGED <<now, back, policy, buckets, operations, pending, counted>>

-----------------------------------------------------------------------------
\* early_local: a recipient is deferred before DATA while a window is full.
Full(k) ==
    /\ k[1] = policy /\ Limit(k) > 0 /\ buckets[k].count >= Limit(k)
    /\ buckets[k].started <= now /\ buckets[k].started + Window > now

\* Maintenance deletes what is old.
Maintain ==
    /\ \E gone \in SUBSET OldKeys, lost \in SUBSET OldResults :
        /\ buckets' = Swept(buckets, gone)
        /\ operations' = [m \in DOMAIN operations \ lost |-> operations[m]]
    /\ UNCHANGED <<now, back, policy, pending, answered, counted>>

\* Other settings, or earlier ones again: the identity is a digest of them.
Activate ==
    /\ \E p \in (1..MaxPolicy) \ {policy} : policy' = p
    /\ UNCHANGED <<now, back, buckets, operations, pending, answered, counted>>

Clock ==
    /\ \/ now < MaxTime /\ now' = now + 1 /\ UNCHANGED back
       \/ now > 0 /\ back < MaxBack /\ now' = now - 1 /\ back' = back + 1
    /\ UNCHANGED <<policy, buckets, operations, pending, answered, counted>>

Next ==
    \/ \E m \in Messages : Ask(m) \/ Check(m) \/ Answer(m)
    \/ Maintain \/ Activate \/ Clock

Spec == Init /\ [][Next]_vars

-----------------------------------------------------------------------------
(* Properties                                                               *)

Of(k, t) == {c \in counted : k \in c.keys /\ c.at > t - Window /\ c.at <= t}

\* A message counts once, however often its request arrives.
CountedOnce ==
    \A k \in Keys : buckets[k].count <= Cardinality({c.message : c \in {d \in counted : k \in d.keys}})

\* In no window of time do more messages pass than two adjoining windows of the
\* authority allow, whatever is swept, activated or repeated.
PassesBounded ==
    \A k \in Keys, t \in 0..MaxTime :
        Limit(k) > 0 => Cardinality({c \in Of(k, t) : c.passed}) <= 2 * Limit(k)

\* A recipient is deferred early only while the limit is really reached by the
\* messages of the last window: deferred attempts do not prolong it.
EarlyEnds ==
    \A k \in Keys : Full(k) =>
        Cardinality({c \in counted : k \in c.keys /\ c.at > now - Window}) >= Limit(k)
=============================================================================
