-------------------------------- MODULE Rbl --------------------------------
(***************************************************************************)
(* Early DNS block lists (src/rbl.rs): a session asks every zone about its *)
(* peer at once, under one deadline, through slots that all sessions and   *)
(* all configuration revisions share; answers are cached per revision and  *)
(* name.  A connection is refused when enough operators list it.           *)
(***************************************************************************)
EXTENDS Integers, FiniteSets

CONSTANTS
    Checks,      \* sessions, each with a public peer
    Peer,        \* of every check
    Zones, Provider,  \* the lists, and who runs them
    Dqs,         \* lists that are asked only where the policy's key for them is enabled
    Unsupported, \* names a list does not take: no public address, or IPv6 without support
    Minimum,     \* operators that must list a peer
    Limit,       \* lookups at a time, of every revision
    CacheEntries, Ttl,  \* of the cache
    MaxTime      \* bound, in seconds

VARIABLES
    now,
    rev,       \* the revision of the configuration in force
    caches,    \* of every revision: names, answers, and when they expire
    work,      \* of every check and zone: what became of the query
    revOf,     \* the revision a check runs under; 0 before it starts
    reports,   \* of the checks that are done
    answers    \* history: what the resolvers said, and when

vars == <<now, rev, caches, work, revOf, reports, answers>>

Revisions == DOMAIN Limit
Names == Zones \X {Peer[c] : c \in Checks}
\* Answers of a zone: no record or a code that is only observed, a listed code,
\* and what is no answer (an unknown code, an error).
Statuses == {"notlisted", "listed", "unavailable"}

Init ==
    /\ now = 0 /\ rev = 1
    /\ caches = [r \in Revisions |-> << >>]
    /\ work = [c \in Checks |-> [z \in Zones |-> "none"]]
    /\ revOf = [c \in Checks |-> 0]
    /\ reports = << >> /\ answers = {}

-----------------------------------------------------------------------------
\* Mutant: every revision has slots of its own.
BusyOfRevision(c) ==
    Cardinality({q \in Checks \X Zones :
                    revOf[q[1]] = revOf[c] /\ work[q[1]][q[2]] = "asking"}) >= Limit[rev]

\* The slots in use; the limit is that of the active revision.
Busy(c) ==
    Cardinality({q \in Checks \X Zones : work[q[1]][q[2]] = "asking"}) >= Limit[rev]

\* check: every zone is queried under one deadline, those with a key where it is
\* enabled.
Begin(c) ==
    /\ revOf[c] = 0 /\ revOf' = [revOf EXCEPT ![c] = rev]
    /\ \E asked \in {Zones, Zones \ Dqs} :
        work' = [work EXCEPT ![c] = [z \in Zones |-> IF z \in asked THEN "pending" ELSE "none"]]
    /\ UNCHANGED <<now, rev, caches, reports, answers>>

\* query: a list that does not take the address is skipped; the cache of the
\* revision, or a free slot, or busy.
Query(c, z) ==
    LET cache == caches[revOf[c]]
        name == <<z, Peer[c]>>
        hit == name \in DOMAIN cache /\ cache[name].expires > now IN
    /\ work[c][z] = "pending"
    /\ work' = [work EXCEPT ![c][z] =
            IF name \in Unsupported THEN "skipped"
            ELSE IF hit THEN cache[name].status ELSE IF Busy(c) THEN "unavailable" ELSE "asking"]
    /\ UNCHANGED <<now, rev, caches, revOf, reports, answers>>

\* Mutant: an answer is kept as long as its record says.
LifetimeLong(s, ttl) == ttl

\* An answer that cannot be interpreted is kept for a second, others as long as
\* the record and the settings allow.
Lifetime(s, ttl) == IF s = "unavailable" THEN 1 ELSE IF ttl < Ttl THEN ttl ELSE Ttl

\* Room in a full cache: without what expired, or empty.
Room(cache) ==
    LET live == {n \in DOMAIN cache : cache[n].expires > now} IN
    IF Cardinality(DOMAIN cache) < CacheEntries THEN cache
    ELSE IF Cardinality(live) < CacheEntries THEN [n \in live |-> cache[n]] ELSE << >>

\* The resolver answers: the slot is free, the answer cached and interpreted.
Answered(c, z) ==
    LET name == <<z, Peer[c]>> IN
    /\ work[c][z] = "asking"
    /\ \E s \in Statuses, ttl \in 0..(Ttl + 1) :
        /\ caches' = IF Lifetime(s, ttl) = 0 THEN caches
                     ELSE [caches EXCEPT ![revOf[c]] =
                            [n \in DOMAIN Room(@) \cup {name} |->
                                IF n = name THEN [status |-> s, expires |-> now + Lifetime(s, ttl)]
                                ELSE Room(@)[n]]]
        /\ work' = [work EXCEPT ![c][z] = s]
        /\ answers' = answers \cup {[zone |-> z, peer |-> Peer[c], status |-> s, at |-> now]}
    /\ UNCHANGED <<now, rev, revOf, reports>>

\* The deadline ends every query that is still open, and frees its slot.
Timeout(c) ==
    /\ \E z \in Zones : work[c][z] \in {"pending", "asking"}
    /\ work' = [work EXCEPT ![c] = [z \in Zones |->
                    IF @[z] \in {"pending", "asking"} THEN "unavailable" ELSE @[z]]]
    /\ UNCHANGED <<now, rev, caches, revOf, reports, answers>>

\* Mutant: every zone is a vote.
VotesOfZones(c) == {z \in Zones : work[c][z] = "listed"}

\* The operators that list the peer.
Votes(c) == {Provider[z] : z \in {y \in Zones : work[c][y] = "listed"}}

\* A set of lists of which some are unavailable never enforces.
Blocked(c) ==
    Cardinality(Votes(c)) >= Minimum /\ \A z \in Zones : work[c][z] # "unavailable"

Report(c) ==
    /\ revOf[c] > 0 /\ c \notin DOMAIN reports
    /\ \A z \in Zones : work[c][z] \notin {"pending", "asking"}
    /\ reports' = [x \in DOMAIN reports \cup {c} |->
            IF x = c THEN [blocked |-> Blocked(c), at |-> now] ELSE reports[x]]
    /\ UNCHANGED <<now, rev, caches, work, revOf, answers>>

\* reconfigure and activate: a new cache, the same slots, another limit.
Activate ==
    /\ rev + 1 \in Revisions /\ rev' = rev + 1
    /\ UNCHANGED <<now, caches, work, revOf, reports, answers>>

Clock ==
    /\ now < MaxTime /\ now' = now + 1
    /\ UNCHANGED <<rev, caches, work, revOf, reports, answers>>

Next ==
    \/ \E c \in Checks : Begin(c) \/ Timeout(c) \/ Report(c)
    \/ \E c \in Checks, z \in Zones : Query(c, z) \/ Answered(c, z)
    \/ Activate \/ Clock

Spec == Init /\ [][Next]_vars

-----------------------------------------------------------------------------
(* Properties                                                               *)

FreshStep ==
    \A c \in Checks, z \in Zones :
        work[c][z] # work'[c][z] /\ work'[c][z] = "listed" =>
            \E a \in answers' : /\ a.zone = z /\ a.peer = Peer[c] /\ a.status = "listed"
                                /\ now - a.at < Ttl \/ a.at = now

\* A query ends as listed only by an answer of that zone, about that peer, that
\* is not older than the settings allow, from this session or another one.
AnswersAreFresh == [][FreshStep]_vars

\* A peer is refused only when enough different operators listed it and every
\* list that was asked, and takes such an address, answered: one operator with
\* several zones, or lists of which some are silent, refuse nobody.
EnoughOperators ==
    \A c \in DOMAIN reports : reports[c].blocked =>
        LET about == {a \in answers : a.peer = Peer[c] /\ a.at <= reports[c].at} IN
        /\ Cardinality({Provider[a.zone] : a \in {x \in about : x.status = "listed"}}) >= Minimum
        /\ \A z \in Zones : work[c][z] # "none" /\ <<z, Peer[c]>> \notin Unsupported =>
                \E a \in about : a.zone = z /\ a.status # "unavailable"

SlotsStep ==
    (\E c \in Checks, z \in Zones : work'[c][z] = "asking" /\ work[c][z] # "asking") =>
        Cardinality({q \in Checks \X Zones : work'[q[1]][q[2]] = "asking"}) <= Limit[rev]

\* Lookups of all sessions and revisions together start within the limit in
\* force: activating a configuration never multiplies the capacity.
SlotsShared == [][SlotsStep]_vars
=============================================================================
