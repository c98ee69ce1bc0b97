----------------------------- MODULE Reputation -----------------------------
(***************************************************************************)
(* Reputation lookups (src/protection/providers.rs).  An inspection asks a *)
(* provider about the domains and files of one message: what is cached is  *)
(* used, the rest is requested through shared slots, each request paid     *)
(* from a quota per minute and day, retried once, under one deadline.      *)
(* Several inspections share the cache, the quota, the cooldown and the    *)
(* slots.  A request is for a set of targets: for one (VirusTotal) or for  *)
(* all that are pending (CRDF).                                            *)
(***************************************************************************)
EXTENDS Integers, FiniteSets

CONSTANTS
    Scans,        \* inspections
    Targets,      \* the domains and files of a message
    Asked,        \* the first twelve of them, destinations first
    Destinations, \* targets reached through redirects: asked first
    Batch,        \* one request for all (CRDF), or one each
    MinuteQuota, DayQuota,  \* of the policy of each inspection; 0 is no limit
    Day,          \* minutes of a day
    Gate, Slots,  \* inspections, and requests, at a time
    Cooldowns,    \* what a provider may ask for
    CacheLimit,   \* of the cache
    MaxTime       \* bound

VARIABLES
    now,       \* in minutes
    cache,     \* live verdicts, and when they expire
    cooldown,  \* until when the credential is not used
    quota,     \* requests of the last day and minute
    scan,      \* every inspection: phase, tasks, report
    writes,    \* storage operations under way; they survive their inspection
    sent,      \* history: requests
    told       \* history: the latest end of a cooldown that was stored

vars == <<now, cache, cooldown, quota, scan, writes, sent, told>>

\* What the answers say, as far as the report tells them apart (a suspicious
\* or a clean target is cached and counted like a malicious one).
VirustotalVerdicts == {"malicious", "stale", "unknown"}
CrdfVerdicts == {"malicious", "unknown"}
cache_ttl(v) == IF v = "unknown" THEN 1 ELSE 2

Idle == [phase |-> "idle", todo |-> {}, tasks |-> {}, status |-> "complete",
         votes |-> [t \in Targets |-> 0], completed |-> << >>, applied |-> {}, omitted |-> 0]

Init ==
    /\ now = 0 /\ cache = << >> /\ cooldown = 0
    /\ quota = [day |-> 0, dayUsed |-> 0, minute |-> 0, minuteUsed |-> 0]
    /\ scan = [s \in Scans |-> Idle]
    /\ writes = {} /\ sent = {} /\ told = 0

-----------------------------------------------------------------------------
(* The report                                                               *)

severity(s) == CASE s = "unavailable" -> 5 [] s = "busy" -> 4 [] s = "quota" -> 3
                 [] s = "stale" -> 2 [] s = "limited" -> 1 [] OTHER -> 0
Worse(a, b) == IF severity(b) > severity(a) THEN b ELSE a

\* apply_lookup: verdicts of targets are observed; a failure only worsens the
\* status.  A stale analysis counts as unknown and marks a complete report.
Apply(r, verdicts) ==
    [r EXCEPT !.votes = [t \in Targets |-> @[t] + (IF t \in DOMAIN verdicts THEN 1 ELSE 0)],
              !.status = IF @ = "complete" /\ \E t \in DOMAIN verdicts : verdicts[t] = "stale"
                         THEN "stale" ELSE @]
Applied(r, targets, verdicts, status) ==
    [Apply(r, verdicts) EXCEPT !.status = Worse(@, status), !.applied = @ \cup targets]

\* Mutant: also what the report already has.
PreserveAll(r) == r.completed

\* preserve_completed: validated verdicts that the deadline kept from the report.
preserve_completed(r) == [t \in DOMAIN r.completed \ r.applied |-> r.completed[t]]

\* Mutant: what is missing is not counted.
OmittedNone(r) == 0

Omitted(r) == Cardinality({t \in Targets : r.votes[t] = 0})

Closed(r) ==
    [r EXCEPT !.phase = "done", !.tasks = {}, !.todo = {}, !.omitted = Omitted(r),
              !.status = IF @ = "complete" /\ Omitted(r) > 0 THEN "limited" ELSE @]

-----------------------------------------------------------------------------
(* Starting, and asking in order                                            *)

Running == {s \in Scans : scan[s].phase = "running"}
Hit(t) == t \in DOMAIN cache /\ cache[t].expires > now
Cached == [t \in {x \in Asked : Hit(x)} |-> cache[t].verdict]

\* Mutant: without waiting for the destinations.
NextTargetsAny(r) == {{t} : t \in r.todo}

\* The targets of the next requests: every pending one at once; or up to three
\* at a time, destinations first, the others when these have all ended.
NextTargets(r) ==
    IF Batch THEN {r.todo} \ {{}}
    ELSE IF r.todo \cap Destinations # {} THEN {{t} : t \in r.todo \cap Destinations}
    ELSE IF \E k \in r.tasks : k.of \subseteq Destinations THEN {}
    ELSE {{t} : t \in r.todo}

Start(s) ==
    LET fresh == [scan[s] EXCEPT !.phase = "running"]
        known == Applied(fresh, DOMAIN Cached, Cached, "complete")
        rest == Asked \ DOMAIN Cached IN
    /\ scan[s].phase = "idle"
    /\ scan' = [scan EXCEPT ![s] =
            IF rest = {} THEN Closed(known)
            ELSE IF Cardinality(Running) >= Gate THEN Closed([known EXCEPT !.status = "busy"])
            ELSE [known EXCEPT !.todo = rest]]
    /\ UNCHANGED <<now, cache, cooldown, quota, writes, sent, told>>

Schedule(s) ==
    /\ scan[s].phase = "running" /\ Cardinality(scan[s].tasks) < 3
    /\ \E of \in NextTargets(scan[s]) :
        scan' = [scan EXCEPT ![s].todo = @ \ of,
                             ![s].tasks = @ \cup {[of |-> of, step |-> "slot", attempt |-> 0]}]
    /\ UNCHANGED <<now, cache, cooldown, quota, writes, sent, told>>

\* A task goes on, or ends with what it found.
Move(s, k, step) ==
    scan' = [scan EXCEPT ![s].tasks = (@ \ {k}) \cup {[k EXCEPT !.step = step]}]
End(s, k, verdicts, status) ==
    scan' = [scan EXCEPT ![s] =
        Applied([@ EXCEPT !.tasks = @ \ {k}], k.of, verdicts, status)]

-----------------------------------------------------------------------------
(* One request                                                              *)

InUse == Cardinality(UNION {{<<s, k.of>> : k \in {x \in scan[s].tasks : x.step = "sent"}} : s \in Scans})
DayUsed == IF quota.day = now \div Day THEN quota.dayUsed ELSE 0
MinuteUsed == IF quota.minute = now THEN quota.minuteUsed ELSE 0
Exhausted(s) ==
    \/ MinuteQuota[s] # 0 /\ MinuteUsed >= MinuteQuota[s]
    \/ DayQuota[s] # 0 /\ DayUsed >= DayQuota[s]

\* Mutant: a retry is not counted.
CountFirst(k) ==
    quota' = IF k.attempt = 0
             THEN [day |-> now \div Day, dayUsed |-> DayUsed + 1,
                   minute |-> now, minuteUsed |-> MinuteUsed + 1] ELSE quota

Count(k) ==
    quota' = [day |-> now \div Day, dayUsed |-> DayUsed + 1,
              minute |-> now, minuteUsed |-> MinuteUsed + 1]

\* A slot, then reserve in one transaction: the cache (of single targets), the
\* cooldown, the quotas; only then the request is counted and sent.
Reserve(s, k) ==
    /\ k \in scan[s].tasks /\ k.step = "slot" /\ InUse < Slots
    /\ \/ /\ ~Batch /\ \E t \in k.of : Hit(t)
          /\ End(s, k, [t \in k.of |-> cache[t].verdict], "complete")
          /\ UNCHANGED <<quota, sent>>
       \/ /\ (Batch \/ \A t \in k.of : ~Hit(t)) /\ cooldown > now
          /\ End(s, k, << >>, "unavailable") /\ UNCHANGED <<quota, sent>>
       \/ /\ (Batch \/ \A t \in k.of : ~Hit(t)) /\ cooldown <= now /\ Exhausted(s)
          /\ End(s, k, << >>, "quota") /\ UNCHANGED <<quota, sent>>
       \/ /\ (Batch \/ \A t \in k.of : ~Hit(t)) /\ cooldown <= now /\ ~Exhausted(s)
          /\ Count(k) /\ Move(s, k, "sent")
          /\ sent' = sent \cup {[scan |-> s, of |-> k.of, attempt |-> k.attempt, at |-> now]}
    /\ UNCHANGED <<now, cache, cooldown, writes, told>>

\* The target of every entry of an answer is verified; a batch may have some
\* valid entries.
Answers(k) ==
    IF Batch THEN UNION {[known -> CrdfVerdicts] : known \in SUBSET k.of}
    ELSE [k.of -> VirustotalVerdicts]

\* A valid answer: verdicts, for some of a batch's targets; they are kept for
\* the report before they are cached.
Answered(s, k) ==
    /\ k \in scan[s].tasks /\ k.step = "sent"
    /\ \E v \in Answers(k) :
        LET known == DOMAIN v
            w == [scan |-> s, of |-> k.of, verdicts |-> v, cooldown |-> 0] IN
        /\ scan' = [scan EXCEPT
                ![s].tasks = (@ \ {k}) \cup {[k EXCEPT !.step = "saving"]},
                ![s].completed = [t \in DOMAIN @ \cup known |-> IF t \in known THEN v[t] ELSE @[t]]]
        /\ writes' = writes \cup {w}
    /\ UNCHANGED <<now, cache, cooldown, quota, sent, told>>

\* A refusal with a cooldown, a failure that is retried once, or a final one.
Failed(s, k) ==
    /\ k \in scan[s].tasks /\ k.step = "sent"
    /\ \/ \E c \in Cooldowns :
            /\ writes' = writes \cup {[scan |-> s, of |-> k.of, verdicts |-> << >>, cooldown |-> c]}
            /\ Move(s, k, "saving")
       \/ /\ scan' = [scan EXCEPT ![s].tasks =
                        (@ \ {k}) \cup {[k EXCEPT !.step = "slot", !.attempt = 1]}]
          /\ k.attempt = 0 /\ UNCHANGED writes
       \/ End(s, k, << >>, "unavailable") /\ UNCHANGED writes
    /\ UNCHANGED <<now, cache, cooldown, quota, sent, told>>

\* The cache keeps what expires last.
Kept(c, n) ==
    {d \in SUBSET DOMAIN c :
        /\ Cardinality(d) = IF Cardinality(DOMAIN c) <= n THEN Cardinality(DOMAIN c) ELSE n
        /\ \A x \in d, y \in DOMAIN c \ d : c[y].expires <= c[x].expires}
Fresh(c, v) ==
    [t \in DOMAIN c \cup DOMAIN v |->
        IF t \in DOMAIN v THEN [verdict |-> v[t], expires |-> now + cache_ttl(v[t])] ELSE c[t]]
Purged == [t \in {x \in DOMAIN cache : Hit(x)} |-> cache[t]]

\* Mutant: the last answer decides.
CooledLast(c) == now + c

Cooled(c) == IF now + c > cooldown THEN now + c ELSE cooldown

\* remember_for and remember_batch: one transaction, also when the inspection
\* has ended, or one that fails; then the task ends.  A single row is stored
\* after room was made, a batch before.
Remember(w, stored) ==
    LET waiting == {x \in scan[w.scan].tasks : x.of = w.of /\ x.step = "saving"}
        verdicts == w.verdicts IN
    /\ w \in writes /\ writes' = writes \ {w}
    /\ IF ~stored THEN UNCHANGED <<cache, cooldown, told>>
       ELSE /\ cooldown' = IF w.cooldown > 0 THEN Cooled(w.cooldown) ELSE cooldown
            /\ told' = IF w.cooldown > 0 /\ now + w.cooldown > told THEN now + w.cooldown ELSE told
            /\ IF DOMAIN verdicts = {} THEN cache' = Purged
               ELSE IF Batch
               THEN \E d \in Kept(Fresh(Purged, verdicts), CacheLimit) :
                        cache' = [t \in d |-> Fresh(Purged, verdicts)[t]]
               ELSE \E d \in Kept(Purged, CacheLimit - 1) :
                        cache' = Fresh([t \in d |-> Purged[t]], verdicts)
    /\ scan' = IF waiting = {} THEN scan
               ELSE LET x == CHOOSE x \in waiting : TRUE IN
                    [scan EXCEPT ![w.scan] = Applied([@ EXCEPT !.tasks = @ \ {x}], w.of, verdicts,
                        IF DOMAIN verdicts = w.of THEN "complete" ELSE "unavailable")]
    /\ UNCHANGED <<now, quota, sent>>

-----------------------------------------------------------------------------
(* The end                                                                  *)

Finish(s) ==
    /\ scan[s].phase = "running" /\ scan[s].todo = {} /\ scan[s].tasks = {}
    /\ scan' = [scan EXCEPT ![s] = Closed(@)]
    /\ UNCHANGED <<now, cache, cooldown, quota, writes, sent, told>>

\* Mutant: what was cancelled is lost.
DeadlineEmpty(r) == Closed([r EXCEPT !.status = "unavailable"])

AtDeadline(r) == Closed([Apply(r, preserve_completed(r)) EXCEPT !.status = "unavailable"])

\* The deadline cancels the tasks; their slots are free, their quota is spent.
Deadline(s) ==
    /\ scan[s].phase = "running"
    /\ scan' = [scan EXCEPT ![s] = AtDeadline(@)]
    /\ UNCHANGED <<now, cache, cooldown, quota, writes, sent, told>>

Clock ==
    /\ now < MaxTime /\ now' = now + 1
    /\ UNCHANGED <<cache, cooldown, quota, scan, writes, sent, told>>

Next ==
    \/ \E s \in Scans : Start(s) \/ Schedule(s) \/ Finish(s) \/ Deadline(s)
    \/ \E s \in Scans : \E k \in scan[s].tasks : Reserve(s, k) \/ Answered(s, k) \/ Failed(s, k)
    \/ \E w \in writes, stored \in BOOLEAN : Remember(w, stored)
    \/ Clock

Spec == Init /\ [][Next]_vars

-----------------------------------------------------------------------------
(* Properties                                                               *)

Most(q) == CHOOSE n \in {q[s] : s \in Scans} : \A s \in Scans : q[s] <= n

\* The requests of a minute, and of a day, retries included, stay within the
\* quota of the policies in use (reserve counts before the request is sent).
WithinQuota ==
    \A t \in 0..MaxTime :
        /\ (\A s \in Scans : MinuteQuota[s] > 0) =>
              Cardinality({r \in sent : r.at = t}) <= Most(MinuteQuota)
        /\ (\A s \in Scans : DayQuota[s] > 0) =>
              Cardinality({r \in sent : r.at \div Day = t}) <= Most(DayQuota)

CooldownStep == sent' # sent => told <= now

\* No request is sent while a cooldown that was stored lasts: a shorter one that
\* arrives later, from another request, does not end it.
CooldownKept == [][CooldownStep]_vars

\* Every target has at most one vote in a report, also when a verdict was both
\* reported and still being cached at the deadline.
OneVote == \A s \in Scans : \A t \in Targets : scan[s].votes[t] <= 1

\* A validated verdict is in the report of its inspection however that ends.
CompletedSurvives ==
    \A s \in Scans : scan[s].phase = "done" =>
        \A t \in DOMAIN scan[s].completed : scan[s].votes[t] > 0

\* A complete report has a usable verdict of every target: an outage, a quota, a
\* full gate or a stale analysis never reads as clean.
SilenceIsNotClean ==
    \A s \in Scans : scan[s].phase = "done" /\ scan[s].status = "complete" =>
        /\ \A t \in Targets : scan[s].votes[t] > 0
        /\ \A t \in DOMAIN scan[s].completed : scan[s].completed[t] # "stale"

DestinationsStep ==
    \A r \in sent' \ sent : ~Batch /\ ~(r.of \subseteq Destinations) =>
        /\ scan[r.scan].todo \cap Destinations = {}
        /\ \A k \in scan[r.scan].tasks : ~(k.of \subseteq Destinations)

\* No other target is asked about while a destination is still to be answered.
DestinationsFirst == [][DestinationsStep]_vars
=============================================================================
