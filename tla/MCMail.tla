------------------------------- MODULE MCMail -------------------------------
(***************************************************************************)
(* What a node does for a message outside its queue, each part in an       *)
(* instance of its own: the session, admission, traffic, lookups, providers*)
(* and the restore of a queue. A behaviour chooses one of them; a variable *)
(* of the same name serves whichever is chosen. A component with proofs is *)
(* an instance of its proof module, so that its theorems apply.            *)
(***************************************************************************)
EXTENDS Integers, Sequences, FiniteSets, TLC

CONSTANTS
    v1, v2, x1, x2, s1, s2, p1, r1, r2, k1, k2, c1, c2, peer1, peer2, m1, m2, m3, d1,
    d2, d3, r3, r4

\* A message is no report, no recipient has the name of a report's sender, and the
\* recipients of an envelope differ.
ASSUME ValuesApart ==
    /\ {v1, v2} \cap {<<"dsn", <<v1, x1>>>>, <<"dsn", <<v2, x2>>>>} = {}
    /\ "sender" \notin {x1, x2}
    /\ r1 \notin {r2, r3, r4} /\ r2 \notin {r3, r4} /\ r3 # r4

VARIABLES
    component,
    files, raw, status, linked, hold, aged, content, ham, smtp, mode, phase, bounces,
    sweep, job, tried, copies, doubt, crashes, db, saved, journal, operation, attempt,
    taken, accepted, session, slots, counts, processing, incoming, policy, ready,
    queued, now, back, entries, bucket, limit, committed, sleeping, charged, peak,
    first, granted, slept, last, buckets, operations, pending, answered, counted,
    tickets, grants, challenge, message, answers, confirming, mailbox, issued, invited,
    guesses, proved, cache, cooldown, quota, scan, writes, sent, told, rev, caches,
    work, revOf, reports, changes, config, check, said, facts, settings, record, replay,
    pc, auth, looked, fallback, variants

vars ==
    <<component, files, raw, status, linked, hold, aged, content, ham, smtp, mode,
      phase, bounces, sweep, job, tried, copies, doubt, crashes, db, saved, journal,
      operation, attempt, taken, accepted, session, slots, counts, processing, incoming,
      policy, ready, queued, now, back, entries, bucket, limit, committed, sleeping,
      charged, peak, first, granted, slept, last, buckets, operations, pending,
      answered, counted, tickets, grants, challenge, message, answers, confirming,
      mailbox, issued, invited, guesses, proved, cache, cooldown, quota, scan, writes,
      sent, told, rev, caches, work, revOf, reports, changes, config, check, said,
      facts, settings, record, replay, pc, auth, looked, fallback, variants>>

\* Facts, settings, profiles and rules of the decision instances.
Observable(f) == "llm" \in f.gaps => f.opinion = "none"
VerdictFacts ==
  {f \in [features : BOOLEAN, av : {"clean", "malware", "unavailable"},
     auth : {"pass", "weak", "fail", "none"}, listed : {FALSE},
     context : {"plain", "notice", "passive", "extortion"},
     opinion : {"none", "phishing", "legitimate", "undetermined"},
     grounded : {TRUE}, signature : BOOLEAN, gaps : {{}, {"smtp"}, {"llm"}, {"smtp", "other"}},
     publicity : {TRUE}, finding : {FALSE}, fusion : {"off"}, ready : {TRUE}, score : 0..2, body : {"yes"}] :
   Observable(f)}
RuleFacts ==
  {f \in [features : BOOLEAN, av : {"clean", "malware"}, auth : {"pass", "none"}, listed : BOOLEAN,
     context : {"plain"}, opinion : {"none", "legitimate"}, grounded : {FALSE},
     signature : {FALSE}, gaps : {{}, {"smtp"}}, publicity : {FALSE}, finding : {FALSE},
     fusion : {"off"}, ready : {TRUE}, score : 0..2, body : {"yes"}] : f.listed => f.auth = "none"}
FusionFacts ==
  [features : BOOLEAN, av : {"clean", "malware"}, auth : {"weak"}, listed : BOOLEAN,
     context : {"plain", "extortion"}, opinion : {"none", "phishing"}, grounded : {FALSE},
     signature : BOOLEAN, gaps : {{}, {"smtp"}}, publicity : BOOLEAN, finding : {FALSE},
     fusion : {"spam", "ham", "unusable"}, ready : BOOLEAN, score : {0, 2}, body : {"yes"}]
FilterProfile(t, r, a) == [threshold |-> t, require |-> r, spam |-> a, publicity |-> "tag", undetermined |-> "deliver"]
FilterRule(x, cs, k, a, st) == [scope |-> x, conds |-> cs, any |-> FALSE, category |-> k, action |-> a, stop |-> st]
BaseSettings == [require |-> FALSE, mode |-> "enforce", partial |-> FALSE, auto |-> TRUE, spam |-> "tag",
         publicity |-> "deliver", malware |-> "quarantine", ordering |-> "legacy", enabled |-> TRUE,
         profiles |-> <<>>, rules |-> <<>>, prefs |-> <<>>]
Only(x, v) == [k \in {x} |-> v]
BoundProfiles == {<<>>, Only("any", FilterProfile(1, FALSE, "quarantine")),
          [k \in {"any", "address"} |-> IF k = "any" THEN FilterProfile(1, FALSE, "tag") ELSE FilterProfile(-1, TRUE, "quarantine")]}
VerdictSettings ==
  {[BaseSettings EXCEPT !.require = r, !.partial = p, !.profiles = b] : r \in BOOLEAN, p \in {TRUE}, b \in {<<>>, Only("any", FilterProfile(1, FALSE, "quarantine"))}}
RuleSettings ==
  {[BaseSettings EXCEPT !.ordering = o, !.profiles = b, !.rules = q, !.prefs = w] :
     o \in {"legacy", "scoped"}, b \in BoundProfiles,
     q \in {<<>>, <<FilterRule("any", {"recipient"}, "legitimate", "none", TRUE), FilterRule("address", {"score"}, "spam", "none", FALSE)>>,
            <<FilterRule("domain", {"unreviewed", "score"}, "undetermined", "none", FALSE)>>,
            <<FilterRule("any", {"spam"}, "none", "quarantine", FALSE), FilterRule("any", {"body", "score"}, "publicity", "none", FALSE)>>},
     w \in {<<>>, Only("address", [profile |-> <<FilterProfile(-1, TRUE, "deliver")>>, rules |-> <<FilterRule("address", {"recipient"}, "legitimate", "none", FALSE)>>]),
            Only("domain", [profile |-> <<FilterProfile(2, TRUE, "tag")>>, rules |-> <<FilterRule("domain", {"score"}, "none", "quarantine", TRUE)>>])}}
FusionSettings == {[BaseSettings EXCEPT !.partial = p, !.profiles = b] : p \in BOOLEAN, b \in BoundProfiles}

TwoVariants ==
    INSTANCE MailQueueProofs
    WITH Mail <- {v1, v2}, Rcpt <- {x1, x2}, Envelope <- {<<v1, x1>>, <<v2, x2>>},
         Batches <- {{v1, v2}}, NullSender <- {v1, v2}, Hostile <- {}, Workers <- 1,
         Hosts <- 1, NoticeLimit <- 1, Replicated <- FALSE, MaxCrashes <- 0

Restores ==
    INSTANCE Recovery
    WITH Mails <- 1, MaxRow <- 2, MaxGen <- 5, MaxRestores <- 2

OneSession ==
    INSTANCE SmtpSessionProofs
    WITH Sessions <- {s1}, Peers <- {p1}, Recipients <- {r1, r2}, MaxConnections <- 1,
         MaxPerPeer <- 1, Processing <- 1, MaxPolicy <- 2, MaxMail <- 2
TwoSessions ==
    INSTANCE SmtpSessionProofs
    WITH Sessions <- {s1, s2}, Peers <- {p1}, Recipients <- {r1}, MaxConnections <- 2,
         MaxPerPeer <- 2, Processing <- 1, MaxPolicy <- 2, MaxMail <- 1

Greylist ==
    INSTANCE Admission
    WITH Greylisting <- TRUE, RetryDelay <- 2, RetryMaxAge <- 3, Retention <- 2,
         MaxEntries <- 1, PruneBatch <- 1, Rate <- 0, Burst <- 1, Unused <- 1, Delay <-
         0, SessionBudget <- 0, Limits <- {1}, MaxTime <- 4, Modes <- {"observe",
         "enforce"}, MaxBack <- 1, Keys <- {k1, k2}, Peers <- {peer1}, Connections <- {}
Rates ==
    INSTANCE Admission
    WITH Greylisting <- FALSE, RetryDelay <- 2, RetryMaxAge <- 3, Retention <- 2,
         MaxEntries <- 1, PruneBatch <- 1, Rate <- 1, Burst <- 3, Unused <- 1, Delay <-
         0, SessionBudget <- 0, Limits <- {1}, MaxTime <- 3, Modes <- {"enforce"},
         MaxBack <- 1, Keys <- {k1}, Peers <- {peer1, peer2}, Connections <- {}
Tarpit ==
    INSTANCE Admission
    WITH Greylisting <- TRUE, RetryDelay <- 2, RetryMaxAge <- 3, Retention <- 2,
         MaxEntries <- 1, PruneBatch <- 1, Rate <- 0, Burst <- 1, Unused <- 1, Delay <-
         2, SessionBudget <- 3, Limits <- {1, 2}, MaxTime <- 0, Modes <- {"observe",
         "enforce"}, MaxBack <- 1, Keys <- {k1, k2}, Peers <- {peer1}, Connections <-
         {c1, c2}

Traffic(p) ==
    INSTANCE Traffic
    WITH Messages <- p.messages, Sender <- p.sender, Recipients <- p.recipients, Senders
         <- p.senders, SenderLimit <- p.senderLimit, RecipientLimit <- p.recipientLimit,
         Window <- p.window, Retain <- p.retain, Lasts <- p.lasts, MaxTime <- p.maxTime,
         MaxPolicy <- p.maxPolicy, MaxBack <- p.maxBack
ThreeMessages ==
    [messages |-> {m1, m2, m3}, sender |-> [m \in {m1, m2, m3} |-> s1],
     recipients |-> {r1}, senders |-> {s1}, senderLimit |-> 1, recipientLimit |-> 2,
     window |-> 2, retain |-> 2, lasts |-> 1, maxTime |-> 3, maxPolicy |-> 1,
     maxBack |-> 1]
TwoPolicies ==
    [messages |-> {m1, m2}, sender |-> [m \in {m1, m2, m3} |-> s1],
     recipients |-> {r1}, senders |-> {s1}, senderLimit |-> 1, recipientLimit |-> 2,
     window |-> 2, retain |-> 2, lasts |-> 1, maxTime |-> 3, maxPolicy |-> 2,
     maxBack |-> 1]

SenderVerification ==
    INSTANCE SenderVerification
    WITH Messages <- {m1, m2}, Recipient <- [m \in {m1, m2} |-> IF m = m1 THEN r1 ELSE
         r2], Lifetime <- 1, Day <- 2, Quota <- 2, Hold <- 2, Remember <- 1, Captchas <-
         {"self_hosted"}, MaxTime <- 1, MaxTickets <- 2, MaxChallenges <- 2, MaxRequests
         <- 2
Invitations ==
    INSTANCE SenderVerification
    WITH Messages <- {m1, m2}, Recipient <- [m \in {m1, m2} |-> IF m = m1 THEN r1 ELSE
         r2], Lifetime <- 1, Day <- 2, Quota <- 2, Hold <- 2, Remember <- 1, Captchas <-
         {}, MaxTime <- 4, MaxTickets <- 2, MaxChallenges <- 0, MaxRequests <- 0
Confirmations ==
    INSTANCE SenderVerification
    WITH Messages <- {m1}, Recipient <- [m \in {m1} |-> r1], Lifetime <- 2, Day <- 1,
         Quota <- 2, Hold <- 2, Remember <- 1, Captchas <- {"self_hosted", "turnstile"},
         MaxTime <- 2, MaxTickets <- 1, MaxChallenges <- 2, MaxRequests <- 2

Virustotal ==
    INSTANCE Reputation
    WITH Scans <- {s1, s2}, Targets <- {d1, d2, d3}, Asked <- {d1, d2}, Destinations <-
         {d1}, Batch <- FALSE, MinuteQuota <- [s \in {s1, s2} |-> IF s = s1 THEN 1 ELSE
         2], DayQuota <- [s \in {s1, s2} |-> 2], Day <- 2, Gate <- 2, Slots <- 1,
         Cooldowns <- {1, 2}, CacheLimit <- 2, MaxTime <- 1
Cooling ==
    INSTANCE Reputation
    WITH Scans <- {s1}, Targets <- {d1, d2, d3}, Asked <- {d1, d2, d3}, Destinations <-
         {}, Batch <- FALSE, MinuteQuota <- [s \in {s1} |-> 2], DayQuota <- [s \in {s1}
         |-> 3], Day <- 2, Gate <- 2, Slots <- 1, Cooldowns <- {1, 2}, CacheLimit <- 1,
         MaxTime <- 1
Crdf ==
    INSTANCE Reputation
    WITH Scans <- {s1, s2}, Targets <- {d1, d2}, Asked <- {d1, d2}, Destinations <- {d1},
         Batch <- TRUE, MinuteQuota <- [s \in {s1, s2} |-> 1], DayQuota <- [s \in {s1,
         s2} |-> 2], Day <- 2, Gate <- 1, Slots <- 1, Cooldowns <- {1}, CacheLimit <- 1,
         MaxTime <- 1

RblVotes ==
    INSTANCE Rbl
    WITH Checks <- {s1}, Peer <- [c \in {s1} |-> r1], Zones <- {d1, d2, d3}, Provider <-
         [z \in {d1, d2, d3} |-> IF z = d3 THEN "x" ELSE "y"], Dqs <- {d3}, Unsupported
         <- {}, Minimum <- 2, Limit <- <<1, 1>>, CacheEntries <- 2, Ttl <- 1, MaxTime <-
         1
RblLookups ==
    INSTANCE Rbl
    WITH Checks <- {s1, s2}, Peer <- [c \in {s1, s2} |-> r1], Zones <- {d1}, Provider <-
         [z \in {d1} |-> "y"], Dqs <- {}, Unsupported <- {}, Minimum <- 1, Limit <- <<1,
         1>>, CacheEntries <- 1, Ttl <- 1, MaxTime <- 1
RblSkipped ==
    INSTANCE Rbl
    WITH Checks <- {s1}, Peer <- [c \in {s1} |-> r1], Zones <- {d1, d2}, Provider <- [z
         \in {d1, d2} |-> IF z = d1 THEN "x" ELSE "y"], Dqs <- {}, Unsupported <- {<<d2,
         r1>>}, Minimum <- 1, Limit <- <<2>>, CacheEntries <- 1, Ttl <- 1, MaxTime <- 1

RecipientVerification(p) ==
    INSTANCE RecipientVerification
    WITH Checks <- p.checks, Senders <- p.senders, SenderOf <- p.senderOf, RoutesOf <-
         p.routesOf, Slots <- p.slots, Positive <- p.positive, Negative <- p.negative,
         CacheEntries <- p.cacheEntries, MaxTime <- p.maxTime, MaxChanges <- p.maxChanges
TwoRoutes ==
    [checks |-> {m1, m2}, senders |-> {s1, s2},
     senderOf |-> [c \in {m1, m2} |-> IF c = m1 THEN s1 ELSE s2],
     routesOf |-> <<<<d1, d2>>, <<d2>>, << >>>>, slots |-> 1, positive |-> 2,
     negative |-> 1, cacheEntries |-> 1, maxTime |-> 2, maxChanges |-> 2]

Verdicts ==
    INSTANCE Decision
    WITH Facts <- VerdictFacts, Settings <- VerdictSettings
Filtering ==
    INSTANCE Decision
    WITH Facts <- RuleFacts, Settings <- RuleSettings
FusionVerdicts ==
    INSTANCE Decision
    WITH Facts <- FusionFacts, Settings <- FusionSettings

Analysis(p) ==
    INSTANCE Analysis
    WITH Recipients <- p.recipients, KeyOf <- p.keyOf, TagKeys <- p.tagKeys, PerVariant
         <- p.perVariant, Domains <- p.domains, UsesLlm <- p.usesLlm
MessageAnalysis ==
    [recipients |-> <<r1, r2, r3, r4>>,
     keyOf |-> [r \in {r1, r2, r3, r4} |-> IF r = r2 THEN "b" ELSE "a"],
     tagKeys |-> {"a"}, perVariant |-> 2, domains |-> 1, usesLlm |-> TRUE]

Components == {"batch", "recovery", "session", "twosessions", "greylisting", "rates", "tarpit",
      "traffic", "activations", "verification", "invitations", "confirmations",
      "virustotal", "cooling", "crdf", "votes", "lookups", "skipped", "recipients",
      "verdicts", "filtering", "fusion", "analysis"}

\* The chosen component is in its initial state; the variables it does not use
\* hold nothing.
Init ==
    /\ component \in Components
    /\ IF component = "batch" THEN TwoVariants!Init ELSE TRUE
    /\ IF component = "recovery" THEN Restores!Init ELSE TRUE
    /\ IF component = "session" THEN OneSession!Init ELSE TRUE
    /\ IF component = "twosessions" THEN TwoSessions!Init ELSE TRUE
    /\ IF component = "greylisting" THEN Greylist!Init ELSE TRUE
    /\ IF component = "rates" THEN Rates!Init ELSE TRUE
    /\ IF component = "tarpit" THEN Tarpit!Init ELSE TRUE
    /\ IF component = "traffic" THEN Traffic(ThreeMessages)!Init ELSE TRUE
    /\ IF component = "activations" THEN Traffic(TwoPolicies)!Init ELSE TRUE
    /\ IF component = "verification" THEN SenderVerification!Init ELSE TRUE
    /\ IF component = "invitations" THEN Invitations!Init ELSE TRUE
    /\ IF component = "confirmations" THEN Confirmations!Init ELSE TRUE
    /\ IF component = "virustotal" THEN Virustotal!Init ELSE TRUE
    /\ IF component = "cooling" THEN Cooling!Init ELSE TRUE
    /\ IF component = "crdf" THEN Crdf!Init ELSE TRUE
    /\ IF component = "votes" THEN RblVotes!Init ELSE TRUE
    /\ IF component = "lookups" THEN RblLookups!Init ELSE TRUE
    /\ IF component = "skipped" THEN RblSkipped!Init ELSE TRUE
    /\ IF component = "recipients" THEN RecipientVerification(TwoRoutes)!Init ELSE TRUE
    /\ IF component = "verdicts" THEN Verdicts!Init ELSE TRUE
    /\ IF component = "filtering" THEN Filtering!Init ELSE TRUE
    /\ IF component = "fusion" THEN FusionVerdicts!Init ELSE TRUE
    /\ IF component = "analysis" THEN Analysis(MessageAnalysis)!Init ELSE TRUE
    /\ IF component \in {"batch"} THEN TRUE
       ELSE files = "idle" /\ raw = "idle" /\ status = "idle" /\ linked = "idle" /\
            hold = "idle" /\ aged = "idle" /\ content = "idle" /\ ham = "idle" /\
            smtp = "idle" /\ bounces = "idle" /\ sweep = "idle" /\ job = "idle" /\
            tried = "idle" /\ copies = "idle" /\ doubt = "idle" /\ crashes = "idle"
    /\ IF component \in {"batch", "greylisting", "rates", "tarpit"} THEN TRUE
       ELSE mode = "idle"
    /\ IF component \in {"batch", "recovery", "verdicts", "filtering", "fusion"} THEN
        TRUE
       ELSE phase = "idle"
    /\ IF component \in {"recovery"} THEN TRUE
       ELSE db = "idle" /\ saved = "idle" /\ journal = "idle" /\ operation = "idle" /\
            attempt = "idle" /\ taken = "idle" /\ accepted = "idle"
    /\ IF component \in {"session", "twosessions"} THEN TRUE
       ELSE session = "idle" /\ counts = "idle" /\ processing = "idle" /\ incoming = "idle" /\
            ready = "idle" /\ queued = "idle"
    /\ IF component \in {"session", "twosessions", "analysis"} THEN TRUE
       ELSE slots = "idle"
    /\ IF component \in {"session", "twosessions", "traffic", "activations"} THEN TRUE
       ELSE policy = "idle"
    /\ IF component \in {"greylisting", "rates", "tarpit", "traffic", "activations",
        "verification", "invitations", "confirmations", "virustotal", "cooling", "crdf",
        "votes", "lookups", "skipped", "recipients"} THEN TRUE
       ELSE now = "idle"
    /\ IF component \in {"greylisting", "rates", "tarpit", "traffic", "activations"}
        THEN TRUE
       ELSE back = "idle"
    /\ IF component \in {"greylisting", "rates", "tarpit"} THEN TRUE
       ELSE entries = "idle" /\ bucket = "idle" /\ limit = "idle" /\ committed = "idle" /\
            sleeping = "idle" /\ charged = "idle" /\ peak = "idle" /\ first = "idle" /\
            granted = "idle" /\ slept = "idle" /\ last = "idle"
    /\ IF component \in {"traffic", "activations"} THEN TRUE
       ELSE buckets = "idle" /\ operations = "idle" /\ answered = "idle" /\ counted = "idle"
    /\ IF component \in {"traffic", "activations", "analysis"} THEN TRUE
       ELSE pending = "idle"
    /\ IF component \in {"verification", "invitations", "confirmations"} THEN TRUE
       ELSE tickets = "idle" /\ grants = "idle" /\ challenge = "idle" /\ message = "idle" /\
            confirming = "idle" /\ issued = "idle" /\ invited = "idle" /\ guesses = "idle" /\
            proved = "idle"
    /\ IF component \in {"verification", "invitations", "confirmations", "votes",
        "lookups", "skipped"} THEN TRUE
       ELSE answers = "idle"
    /\ IF component \in {"verification", "invitations", "confirmations", "recipients"}
        THEN TRUE
       ELSE mailbox = "idle"
    /\ IF component \in {"virustotal", "cooling", "crdf", "recipients"} THEN TRUE
       ELSE cache = "idle"
    /\ IF component \in {"virustotal", "cooling", "crdf"} THEN TRUE
       ELSE cooldown = "idle" /\ quota = "idle" /\ writes = "idle" /\ sent = "idle" /\
            told = "idle"
    /\ IF component \in {"virustotal", "cooling", "crdf", "verdicts", "filtering",
        "fusion", "analysis"} THEN TRUE
       ELSE scan = "idle"
    /\ IF component \in {"votes", "lookups", "skipped"} THEN TRUE
       ELSE rev = "idle" /\ caches = "idle" /\ work = "idle" /\ revOf = "idle" /\
            reports = "idle"
    /\ IF component \in {"recipients"} THEN TRUE
       ELSE changes = "idle" /\ config = "idle" /\ check = "idle" /\ said = "idle"
    /\ IF component \in {"verdicts", "filtering", "fusion"} THEN TRUE
       ELSE facts = "idle" /\ settings = "idle" /\ record = "idle" /\ replay = "idle"
    /\ IF component \in {"analysis"} THEN TRUE
       ELSE pc = "idle" /\ auth = "idle" /\ looked = "idle" /\ fallback = "idle" /\
            variants = "idle"

Next ==
    /\ UNCHANGED component
    /\ \/ component = "batch" /\ TwoVariants!Next
       \/ component = "recovery" /\ Restores!Next
       \/ component = "session" /\ OneSession!Next
       \/ component = "twosessions" /\ TwoSessions!Next
       \/ component = "greylisting" /\ Greylist!Next
       \/ component = "rates" /\ Rates!Next
       \/ component = "tarpit" /\ Tarpit!Next
       \/ component = "traffic" /\ Traffic(ThreeMessages)!Next
       \/ component = "activations" /\ Traffic(TwoPolicies)!Next
       \/ component = "verification" /\ SenderVerification!Next
       \/ component = "invitations" /\ Invitations!Next
       \/ component = "confirmations" /\ Confirmations!Next
       \/ component = "virustotal" /\ Virustotal!Next
       \/ component = "cooling" /\ Cooling!Next
       \/ component = "crdf" /\ Crdf!Next
       \/ component = "votes" /\ RblVotes!Next
       \/ component = "lookups" /\ RblLookups!Next
       \/ component = "skipped" /\ RblSkipped!Next
       \/ component = "recipients" /\ RecipientVerification(TwoRoutes)!Next
       \/ component = "verdicts" /\ Verdicts!Next
       \/ component = "filtering" /\ Filtering!Next
       \/ component = "fusion" /\ FusionVerdicts!Next
       \/ component = "analysis" /\ Analysis(MessageAnalysis)!Next
    /\ IF component \in {"batch"} THEN TRUE
       ELSE UNCHANGED <<files, raw, status, linked, hold, aged, content, ham, smtp, bounces, sweep,
            job, tried, copies, doubt, crashes>>
    /\ IF component \in {"batch", "greylisting", "rates", "tarpit"} THEN TRUE
       ELSE UNCHANGED <<mode>>
    /\ IF component \in {"batch", "recovery", "verdicts", "filtering", "fusion"} THEN
        TRUE
       ELSE UNCHANGED <<phase>>
    /\ IF component \in {"recovery"} THEN TRUE
       ELSE UNCHANGED <<db, saved, journal, operation, attempt, taken, accepted>>
    /\ IF component \in {"session", "twosessions"} THEN TRUE
       ELSE UNCHANGED <<session, counts, processing, incoming, ready, queued>>
    /\ IF component \in {"session", "twosessions", "analysis"} THEN TRUE
       ELSE UNCHANGED <<slots>>
    /\ IF component \in {"session", "twosessions", "traffic", "activations"} THEN TRUE
       ELSE UNCHANGED <<policy>>
    /\ IF component \in {"greylisting", "rates", "tarpit", "traffic", "activations",
        "verification", "invitations", "confirmations", "virustotal", "cooling", "crdf",
        "votes", "lookups", "skipped", "recipients"} THEN TRUE
       ELSE UNCHANGED <<now>>
    /\ IF component \in {"greylisting", "rates", "tarpit", "traffic", "activations"}
        THEN TRUE
       ELSE UNCHANGED <<back>>
    /\ IF component \in {"greylisting", "rates", "tarpit"} THEN TRUE
       ELSE UNCHANGED <<entries, bucket, limit, committed, sleeping, charged, peak, first, granted,
            slept, last>>
    /\ IF component \in {"traffic", "activations"} THEN TRUE
       ELSE UNCHANGED <<buckets, operations, answered, counted>>
    /\ IF component \in {"traffic", "activations", "analysis"} THEN TRUE
       ELSE UNCHANGED <<pending>>
    /\ IF component \in {"verification", "invitations", "confirmations"} THEN TRUE
       ELSE UNCHANGED <<tickets, grants, challenge, message, confirming, issued, invited, guesses,
            proved>>
    /\ IF component \in {"verification", "invitations", "confirmations", "votes",
        "lookups", "skipped"} THEN TRUE
       ELSE UNCHANGED <<answers>>
    /\ IF component \in {"verification", "invitations", "confirmations", "recipients"}
        THEN TRUE
       ELSE UNCHANGED <<mailbox>>
    /\ IF component \in {"virustotal", "cooling", "crdf", "recipients"} THEN TRUE
       ELSE UNCHANGED <<cache>>
    /\ IF component \in {"virustotal", "cooling", "crdf"} THEN TRUE
       ELSE UNCHANGED <<cooldown, quota, writes, sent, told>>
    /\ IF component \in {"virustotal", "cooling", "crdf", "verdicts", "filtering",
        "fusion", "analysis"} THEN TRUE
       ELSE UNCHANGED <<scan>>
    /\ IF component \in {"votes", "lookups", "skipped"} THEN TRUE
       ELSE UNCHANGED <<rev, caches, work, revOf, reports>>
    /\ IF component \in {"recipients"} THEN TRUE
       ELSE UNCHANGED <<changes, config, check, said>>
    /\ IF component \in {"verdicts", "filtering", "fusion"} THEN TRUE
       ELSE UNCHANGED <<facts, settings, record, replay>>
    /\ IF component \in {"analysis"} THEN TRUE
       ELSE UNCHANGED <<pc, auth, looked, fallback, variants>>

Spec == Init /\ [][Next]_vars

Symmetry == 
    {p \in Permutations({v1, v2, x1, x2}) :
        <<p[v1], p[x1]>> \in {<<v1, x1>>, <<v2, x2>>} /\ p[v2] \in {v1, v2}}

-----------------------------------------------------------------------------
\* Acceptance is one unit: no recipient of a transaction that was not answered
\* 250 is ever visible to the relay, whatever the transaction left in the spool.
\* Every body the journal counts on is on disk: recovery never refuses to serve.
\* (store.rs: recover's "durable queue corruption" check.)
MailQueueSafe ==
    /\ component = "batch" =>
        /\ TwoVariants!UnacceptedInvisible
        /\ TwoVariants!BodyOnDisk

RecoveryInv ==
    /\ component = "recovery" =>
        /\ Restores!NeverSentAgain
        /\ Restores!NothingLost

RecoveryStep ==
    /\ component = "recovery" => Restores!RestoredStep

\* What an upstream accepted is never queued again, nor reported as failed, by
\* any restore, interrupted, repeated or followed by another one.
\* Mail that was answered 250 is in every queue that is started afterwards, and
\* a failure that was reported keeps its report or is held.
\* A restored message is known to the peer under a lower generation only: its
\* next attempt waits for a new acknowledgement.
RecoverySafe == []RecoveryInv /\ [][RecoveryStep]_vars

\* A message is analysed with the revision under which every one of its
\* recipients was accepted, whatever was activated during the transaction.
\* No recipient named in plain text is part of a message sent over TLS.
\* A transaction that admission found over the rate limit is never accepted,
\* also not when the client goes on with another recipient.
\* The admission reports attached to a message are those of its transaction.
\* A connection that waits for a transaction holds no engine, so a retired
\* model is not kept in memory by idle clients.
\* Permits, counts and files are those of the sessions there are, on every way
\* out of a command or a connection.
SmtpSessionSafe ==
    /\ component = "session" =>
        /\ OneSession!OneRevisionPerMessage
        /\ OneSession!EnvelopeOverOneChannel
        /\ OneSession!OverLimitIsRefused
        /\ OneSession!ReportsOfTheMessage
        /\ OneSession!IdleHoldsNoEngine
        /\ OneSession!NothingLeaks
    /\ component = "twosessions" =>
        /\ TwoSessions!OneRevisionPerMessage
        /\ TwoSessions!EnvelopeOverOneChannel
        /\ TwoSessions!OverLimitIsRefused
        /\ TwoSessions!ReportsOfTheMessage
        /\ TwoSessions!IdleHoldsNoEngine
        /\ TwoSessions!NothingLeaks

AdmissionInv ==
    /\ component = "greylisting" =>
        /\ Greylist!RateBounded
        /\ Greylist!DelayBounded
    /\ component = "rates" =>
        /\ Rates!RateBounded
        /\ Rates!DelayBounded
    /\ component = "tarpit" =>
        /\ Tarpit!RateBounded
        /\ Tarpit!DelayBounded

AdmissionStep ==
    /\ component = "greylisting" =>
        /\ Greylist!RetryStep
        /\ Greylist!PassStep
    /\ component = "rates" =>
        /\ Rates!RetryStep
        /\ Rates!PassStep
    /\ component = "tarpit" =>
        /\ Tarpit!RetryStep
        /\ Tarpit!PassStep

\* While the clock does not go back, a peer with a bucket gets no more in any stretch
\* of time than the burst and the rate allow, and the burst once more for every time it
\* may have stayed away until its bucket was deleted.  A peer that finds the table full
\* is not counted.
\* A session is delayed for its budget at most, and new sleepers are admitted by
\* the policy that is in force, never by the older policy of a session.
\* A sender that was refused and retries when the delay is over, before the attempt is
\* too old, passes, and goes on passing for as long as a pass is kept: no order of
\* retries, sweeps, changes of mode or clock steps makes it wait again.
\* A pass that enforcement gives was earned under enforcement: the attempt was
\* refused, not merely observed, at least the delay before.
AdmissionSafe == []AdmissionInv /\ [][AdmissionStep]_vars

\* A message counts once, however often its request arrives.
\* In no window of time do more messages pass than two adjoining windows of the
\* authority allow, whatever is swept, activated or repeated.
\* A recipient is deferred early only while the limit is really reached by the
\* messages of the last window: deferred attempts do not prolong it.
TrafficSafe ==
    /\ component = "traffic" =>
        /\ Traffic(ThreeMessages)!CountedOnce
        /\ Traffic(ThreeMessages)!PassesBounded
        /\ Traffic(ThreeMessages)!EarlyEnds
    /\ component = "activations" =>
        /\ Traffic(TwoPolicies)!CountedOnce
        /\ Traffic(TwoPolicies)!PassesBounded
        /\ Traffic(TwoPolicies)!EarlyEnds

SenderVerificationInv ==
    /\ component = "verification" =>
        /\ SenderVerification!ReleasedWhenProved
        /\ SenderVerification!InvitedForDurableMail
        /\ SenderVerification!OneInvitationPerDay
        /\ SenderVerification!OneGuessPerChallenge
    /\ component = "invitations" =>
        /\ Invitations!ReleasedWhenProved
        /\ Invitations!InvitedForDurableMail
        /\ Invitations!OneInvitationPerDay
        /\ Invitations!OneGuessPerChallenge
    /\ component = "confirmations" =>
        /\ Confirmations!ReleasedWhenProved
        /\ Confirmations!InvitedForDurableMail
        /\ Confirmations!OneInvitationPerDay
        /\ Confirmations!OneGuessPerChallenge

SenderVerificationStep ==
    /\ component = "verification" => SenderVerification!ProvedStep
    /\ component = "invitations" => Invitations!ProvedStep
    /\ component = "confirmations" => Confirmations!ProvedStep

\* A message is released by a right answer for its own ticket: not by that of
\* another recipient, not by an answer that was stale, and never twice.
\* No invitation is sent for mail that was not accepted for good: some message
\* of the ticket was held and on its second node first.
\* The sender gets at most one invitation a day, over all recipients, also when
\* the ticket of an earlier invitation expired and was deleted.
\* A challenge is answered once: a wrong answer ends it, and an answer that was
\* submitted twice is used once.
\* A grant begins, or is prolonged, only by a right answer to a ticket that is still
\* open and in time when the answer counts: another request may have used the ticket,
\* or its time run out, while the provider was asked.
SenderVerificationSafe == []SenderVerificationInv /\ [][SenderVerificationStep]_vars

ReputationInv ==
    /\ component = "virustotal" =>
        /\ Virustotal!WithinQuota
        /\ Virustotal!OneVote
        /\ Virustotal!CompletedSurvives
        /\ Virustotal!SilenceIsNotClean
    /\ component = "cooling" =>
        /\ Cooling!WithinQuota
        /\ Cooling!OneVote
        /\ Cooling!CompletedSurvives
        /\ Cooling!SilenceIsNotClean
    /\ component = "crdf" =>
        /\ Crdf!WithinQuota
        /\ Crdf!OneVote
        /\ Crdf!CompletedSurvives
        /\ Crdf!SilenceIsNotClean

ReputationStep ==
    /\ component = "virustotal" =>
        /\ Virustotal!CooldownStep
        /\ Virustotal!DestinationsStep
    /\ component = "cooling" =>
        /\ Cooling!CooldownStep
        /\ Cooling!DestinationsStep
    /\ component = "crdf" =>
        /\ Crdf!CooldownStep
        /\ Crdf!DestinationsStep

\* The requests of a minute, and of a day, retries included, stay within the
\* quota of the policies in use (reserve counts before the request is sent).
\* Every target has at most one vote in a report, also when a verdict was both
\* reported and still being cached at the deadline.
\* A validated verdict is in the report of its inspection however that ends.
\* A complete report has a usable verdict of every target: an outage, a quota, a
\* full gate or a stale analysis never reads as clean.
\* No request is sent while a cooldown that was stored lasts: a shorter one that
\* arrives later, from another request, does not end it.
\* No other target is asked about while a destination is still to be answered.
ReputationSafe == []ReputationInv /\ [][ReputationStep]_vars

RblInv ==
    /\ component = "votes" => RblVotes!EnoughOperators
    /\ component = "lookups" => RblLookups!EnoughOperators
    /\ component = "skipped" => RblSkipped!EnoughOperators

RblStep ==
    /\ component = "votes" =>
        /\ RblVotes!FreshStep
        /\ RblVotes!SlotsStep
    /\ component = "lookups" =>
        /\ RblLookups!FreshStep
        /\ RblLookups!SlotsStep
    /\ component = "skipped" =>
        /\ RblSkipped!FreshStep
        /\ RblSkipped!SlotsStep

\* A peer is refused only when enough different operators listed it and every
\* list that was asked, and takes such an address, answered: one operator with
\* several zones, or lists of which some are silent, refuse nobody.
\* A query ends as listed only by an answer of that zone, about that peer, that
\* is not older than the settings allow, from this session or another one.
\* Lookups of all sessions and revisions together start within the limit in
\* force: activating a configuration never multiplies the capacity.
RblSafe == []RblInv /\ [][RblStep]_vars

\* A recipient is refused for good only when every route of the configuration
\* said, to this sender, that it does not know the mailbox; a route that failed,
\* was busy or timed out defers instead.
\* A verdict is one that some route of this configuration gave this sender.
RecipientVerificationSafe ==
    /\ component = "recipients" =>
        /\ RecipientVerification(TwoRoutes)!RefusedByEveryRoute
        /\ RecipientVerification(TwoRoutes)!AcceptedByARoute

\* Every stage leaves a well-formed scan, and once decided no abstention is left
\* (finalize: "Delivery policy always terminates").
\* Where corroboration is required a message is never spam on the index alone: some
\* other observation, an observed threat or a rule that says so stands behind it
\* (confirmation.rs "the content index alone cannot classify this message as spam").
\* Rules that leave the message undetermined are apart, see RequirementBindsRules.
\* A trusted malware finding survives every gap, opinion, rule and profile: the
\* record says malware, and the malware action is taken unless only observing.
\* Running the decision stages again on their own result changes neither the
\* decision nor the category: abstentions are never taken for new evidence.
\* A later simulation under the same policy reaches what was recorded at receipt
\* where no rule looks at the message itself; and where one does, no rule matches in
\* a simulation when none did at receipt (Facts::metadata, "absence of a retained
\* field must not satisfy a negative rule").
\* With a fusion model in charge nothing is tagged or held as spam unless fusion
\* itself says so, or malware, an observed threat or a rule does.
\* What an administrator's rule decides stands whatever the mailbox's own rules say.
DecisionSafe ==
    /\ component = "verdicts" =>
        /\ Verdicts!TypeOK
        /\ Verdicts!IndexNeverActsAlone
        /\ Verdicts!MalwareWins
        /\ Verdicts!ReplayStable
        /\ Verdicts!SimulationAgrees
        /\ Verdicts!FusionHasNoFallback
        /\ Verdicts!AdminRulesAuthoritative
    /\ component = "filtering" =>
        /\ Filtering!TypeOK
        /\ Filtering!IndexNeverActsAlone
        /\ Filtering!MalwareWins
        /\ Filtering!ReplayStable
        /\ Filtering!SimulationAgrees
        /\ Filtering!FusionHasNoFallback
        /\ Filtering!AdminRulesAuthoritative
    /\ component = "fusion" =>
        /\ FusionVerdicts!TypeOK
        /\ FusionVerdicts!IndexNeverActsAlone
        /\ FusionVerdicts!MalwareWins
        /\ FusionVerdicts!ReplayStable
        /\ FusionVerdicts!SimulationAgrees
        /\ FusionVerdicts!FusionHasNoFallback
        /\ FusionVerdicts!AdminRulesAuthoritative

\* Every stage of process_with_source leaves a well-formed scan, with no check's reasons
\* in it more often than two attempts could put them there.
\* Whatever cancels the work, a policy or LLM check that finished is in the scan that
\* is decided, once (comment above the slots in process_with_source).
\* The decided score counts exactly the votes that are in the scan.
\* A check that was begun and not finished makes the analysis partial and casts no
\* vote: a silent resolver or provider is never taken for an answer.
\* The wire carries a subject tag only where the authentication chain can be sealed
\* again, and never after a fallback.
\* Accepted means every recipient is in exactly one variant, with those that share
\* its outcome, within the bound; a deferred message queues nothing.
AnalysisSafe ==
    /\ component = "analysis" =>
        /\ Analysis(MessageAnalysis)!TypeOK
        /\ Analysis(MessageAnalysis)!FinishedChecksSurvive
        /\ Analysis(MessageAnalysis)!ScoreCountsEveryVote
        /\ Analysis(MessageAnalysis)!UnfinishedNeverVotes
        /\ Analysis(MessageAnalysis)!TagsAreSealed
        /\ Analysis(MessageAnalysis)!EveryRecipientOnce

\* The same where a rule leaves the message undetermined, so that the index settles
\* it: docs/automatic-classification.md, "the same content index cannot undo that
\* requirement".  The code does not carry the requirement of the profile into the
\* settlement of the rule, so this does not hold.
RequirementBindsRules == component = "filtering" => Filtering!RequirementBindsRules

=============================================================================
