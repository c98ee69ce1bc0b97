----------------------- MODULE RecipientVerification -----------------------
(***************************************************************************)
(* Recipient checks at the destination (src/recipient_verification.rs):    *)
(* before a recipient is accepted its routes are asked one after the       *)
(* other; the verdict is cached under everything it depends on.  Mailboxes *)
(* come and go, routes fail, and the configuration changes.                *)
(***************************************************************************)
EXTENDS Integers, FiniteSets, Sequences

CONSTANTS
    Checks,       \* RCPT commands of sessions
    Senders, SenderOf,  \* envelope senders: a destination may treat them apart
    RoutesOf,     \* of every configuration: the routes of the recipient, maybe none
    Slots,        \* probes at a time
    Positive, Negative,  \* lifetimes in the cache
    CacheEntries,
    MaxTime, MaxChanges  \* bounds

VARIABLES
    now, changes,
    config,    \* the configuration in force
    mailbox,   \* who is accepted: by route and sender
    cache,     \* verdicts and when they expire
    check,     \* every check: phase, configuration, what the routes said
    said       \* history: what the routes answered

vars == <<now, changes, config, mailbox, cache, check, said>>

Routes == UNION {{RoutesOf[c][i] : i \in DOMAIN RoutesOf[c]} : c \in DOMAIN RoutesOf}
Idle == [phase |-> "idle", config |-> 0, at |-> 0, allUnknown |-> TRUE, verdict |-> "none"]

Init ==
    /\ now = 0 /\ changes = 0 /\ config = 1
    /\ mailbox = [r \in Routes |-> [s \in Senders |-> TRUE]]
    /\ cache = << >>
    /\ check = [c \in Checks |-> Idle]
    /\ said = {}

-----------------------------------------------------------------------------
\* Mutant: the verdict is shared by all senders.
KeyAlone(c, k) == <<k, CHOOSE s \in Senders : TRUE>>

\* What a verdict depends on: routes and policy, and the envelope sender.
Key(c, k) == <<k, SenderOf[c]>>
Hit(c, k) == Key(c, k) \in DOMAIN cache /\ cache[Key(c, k)].expires > now
Probing == {c \in Checks : check[c].phase = "probing"}

Done(c, v) == [check[c] EXCEPT !.phase = "done", !.verdict = v]

\* The cache, a free slot and a route to ask, or unavailable.
Begin(c) ==
    /\ check[c].phase = "idle"
    /\ check' = [check EXCEPT ![c] =
            IF Hit(c, config) THEN [Done(c, cache[Key(c, config)].verdict) EXCEPT !.config = config]
            ELSE IF Cardinality(Probing) >= Slots \/ RoutesOf[config] = << >>
            THEN [Done(c, "unavailable") EXCEPT !.config = config]
            ELSE [@ EXCEPT !.phase = "probing", !.config = config, !.at = 1]]
    /\ cache' = IF Hit(c, config) \/ Key(c, config) \notin DOMAIN cache THEN cache
                ELSE [k \in DOMAIN cache \ {Key(c, config)} |-> cache[k]]
    /\ UNCHANGED <<now, changes, config, mailbox, said>>

Lifetime(v) == CASE v = "accepted" -> Positive [] v = "unknown" -> Negative [] OTHER -> 0

\* A verdict that has a lifetime is cached while there is room.
Remember(c, v) ==
    LET live == {k \in DOMAIN cache : cache[k].expires > now}
        kept == IF Cardinality(DOMAIN cache) >= CacheEntries THEN live ELSE DOMAIN cache
        key == Key(c, check[c].config) IN
    cache' = IF Lifetime(v) > 0 /\ Cardinality(kept) < CacheEntries
             THEN [k \in kept \cup {key} |->
                    IF k = key THEN [verdict |-> v, expires |-> now + Lifetime(v)] ELSE cache[k]]
             ELSE [k \in (IF Lifetime(v) > 0 THEN kept ELSE DOMAIN cache) |-> cache[k]]

\* Mutant: unknown at the last route.
VerdictOfLast(c, result) == result

\* Unknown only when every route said so.
Verdict(c, result) ==
    IF check[c].allUnknown /\ result = "unknown" THEN "unknown" ELSE "unavailable"

\* probe: the route accepts, does not know the recipient, or fails; the next
\* route is asked unless the recipient was accepted.
Probe(c) ==
    LET k == check[c]
        routes == RoutesOf[k.config]
        route == routes[k.at] IN
    /\ k.phase = "probing"
    /\ \E result \in {IF mailbox[route][SenderOf[c]] THEN "accepted" ELSE "unknown", "unavailable"} :
        /\ said' = said \cup {[route |-> route, sender |-> SenderOf[c], said |-> result, at |-> now]}
        /\ IF result = "accepted" \/ k.at = Len(routes)
           THEN LET v == IF result = "accepted" THEN result ELSE Verdict(c, result) IN
                /\ check' = [check EXCEPT ![c] = Done(c, v)]
                /\ Remember(c, v)
           ELSE /\ check' = [check EXCEPT ![c].at = @ + 1,
                                          ![c].allUnknown = @ /\ result = "unknown"]
                /\ UNCHANGED cache
    /\ UNCHANGED <<now, changes, config, mailbox>>

\* The deadline of the whole check.
Timeout(c) ==
    /\ check[c].phase = "probing"
    /\ check' = [check EXCEPT ![c] = Done(c, "unavailable")]
    /\ UNCHANGED <<now, changes, config, mailbox, cache, said>>

\* The destination changes its mind, or the configuration changes.
Change ==
    /\ changes < MaxChanges /\ changes' = changes + 1
    /\ \/ \E r \in Routes, s \in Senders : mailbox' = [mailbox EXCEPT ![r][s] = ~@] /\ UNCHANGED config
       \/ config + 1 \in DOMAIN RoutesOf /\ config' = config + 1 /\ UNCHANGED mailbox
    /\ UNCHANGED <<now, cache, check, said>>

Clock ==
    /\ now < MaxTime /\ now' = now + 1
    /\ UNCHANGED <<changes, config, mailbox, cache, check, said>>

Next ==
    \/ \E c \in Checks : Begin(c) \/ Probe(c) \/ Timeout(c)
    \/ Change \/ Clock

Spec == Init /\ [][Next]_vars

-----------------------------------------------------------------------------
(* Properties                                                               *)

Said(c, r, v) ==
    \E x \in said : x.route = r /\ x.sender = SenderOf[c] /\ x.said = v

\* A recipient is refused for good only when every route of the configuration
\* said, to this sender, that it does not know the mailbox; a route that failed,
\* was busy or timed out defers instead.
RefusedByEveryRoute ==
    \A c \in Checks : check[c].verdict = "unknown" =>
        \A i \in DOMAIN RoutesOf[check[c].config] : Said(c, RoutesOf[check[c].config][i], "unknown")

\* A verdict is one that some route of this configuration gave this sender.
AcceptedByARoute ==
    \A c \in Checks : check[c].verdict = "accepted" =>
        \E i \in DOMAIN RoutesOf[check[c].config] : Said(c, RoutesOf[check[c].config][i], "accepted")
=============================================================================
