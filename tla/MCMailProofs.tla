---------------------------- MODULE MCMailProofs ----------------------------
(***************************************************************************)
(* The theorems about the mail queue and the SMTP sessions hold of the     *)
(* instances that the suite MCMail checks.  Recipient verification, the    *)
(* traffic limits and the analysis of a message are proved for every value *)
(* of their constants, the record p, and hold of the suite's instances too.*)
(***************************************************************************)
EXTENDS MCMail, FiniteSetTheorems, TLAPS

-----------------------------------------------------------------------------
(* A behaviour of the suite is one of the component it chose                *)

Chosen(c) == component = c

\* The choice is made once.
LEMMA ChoiceStep ==
    ASSUME NEW c, [Next]_vars PROVE Chosen(c)' <=> Chosen(c)
BY DEF Next, vars, Chosen

LEMMA BatchRuns == Spec /\ Chosen("batch") => TwoVariants!Spec
<1>1. Init /\ Chosen("batch") => TwoVariants!Init BY DEF Init, Chosen
<1>2. Chosen("batch") /\ [Next]_vars => [TwoVariants!Next]_TwoVariants!vars
  BY DEF Next, vars, TwoVariants!vars, TwoVariants!durable, TwoVariants!clock,
         TwoVariants!evidence, TwoVariants!worker, TwoVariants!relay, TwoVariants!history, Chosen
<1>3. Chosen("batch") /\ [Next]_vars => Chosen("batch")' BY ChoiceStep
<1> QED BY <1>1, <1>2, <1>3, PTL DEF Spec, TwoVariants!Spec

LEMMA OneSessionRuns == Spec /\ Chosen("session") => OneSession!Spec
<1>1. Init /\ Chosen("session") => OneSession!Init BY DEF Init, Chosen
<1>2. Chosen("session") /\ [Next]_vars => [OneSession!Next]_OneSession!vars
  BY DEF Next, vars, OneSession!vars, Chosen
<1>3. Chosen("session") /\ [Next]_vars => Chosen("session")' BY ChoiceStep
<1> QED BY <1>1, <1>2, <1>3, PTL DEF Spec, OneSession!Spec

LEMMA TwoSessionsRun == Spec /\ Chosen("twosessions") => TwoSessions!Spec
<1>1. Init /\ Chosen("twosessions") => TwoSessions!Init BY DEF Init, Chosen
<1>2. Chosen("twosessions") /\ [Next]_vars => [TwoSessions!Next]_TwoSessions!vars
  BY DEF Next, vars, TwoSessions!vars, Chosen
<1>3. Chosen("twosessions") /\ [Next]_vars => Chosen("twosessions")' BY ChoiceStep
<1> QED BY <1>1, <1>2, <1>3, PTL DEF Spec, TwoSessions!Spec

\* The queue's instance satisfies the queue's assumptions.
LEMMA VariantsApart ==
    /\ TwoVariants!EnvelopeAssumption /\ TwoVariants!BatchAssumption
    /\ TwoVariants!SenderAssumption /\ TwoVariants!BoundAssumption
<1>0. /\ {<<v1, x1>>, <<v2, x2>>} \subseteq {v1, v2} \X {x1, x2} /\ "sender" \notin {x1, x2}
      /\ {v1, v2} \cap TwoVariants!Notices = {}
  <2>1. {<<v1, x1>>, <<v2, x2>>} \subseteq {v1, v2} \X {x1, x2} OBVIOUS
  <2>2. TwoVariants!Notices = {<<"dsn", <<v1, x1>>>>, <<"dsn", <<v2, x2>>>>}
    BY DEF TwoVariants!Notices, TwoVariants!Notice
  <2> QED BY ValuesApart, <2>1, <2>2
<1>1. TwoVariants!EnvelopeAssumption BY <1>0 DEF TwoVariants!EnvelopeAssumption
<1>2. TwoVariants!BatchAssumption BY DEF TwoVariants!BatchAssumption
<1>3. TwoVariants!SenderAssumption BY DEF TwoVariants!SenderAssumption
<1>4. TwoVariants!BoundAssumption BY DEF TwoVariants!BoundAssumption
<1> QED BY <1>1, <1>2, <1>3, <1>4

-----------------------------------------------------------------------------
(* The suite's properties                                                   *)

\* A transaction of two variants: accepted as one unit, and recovery always finds
\* the bodies its journal counts on (store.rs).
THEOREM MailQueueProved == Spec => []MailQueueSafe
<1>1. TwoVariants!Spec => []TwoVariants!UnacceptedInvisible /\ []TwoVariants!BodyOnDisk
  BY VariantsApart, TwoVariants!AcceptedAsOne, TwoVariants!RecoveryAlwaysServes
<1>2. [Next]_vars => (Chosen("batch")' <=> Chosen("batch")) BY ChoiceStep
<1>3. ~Chosen("batch") => MailQueueSafe BY DEF MailQueueSafe, Chosen
<1>4. TwoVariants!UnacceptedInvisible /\ TwoVariants!BodyOnDisk => MailQueueSafe
  BY DEF MailQueueSafe
<1> QED BY <1>1, <1>2, <1>3, <1>4, BatchRuns, PTL DEF Spec

\* Both instances of the sessions: one revision and one channel per message, limits
\* and reports those of its transaction, and no permit, count, file or engine kept
\* (smtp.rs).
THEOREM SmtpSessionProved == Spec => []SmtpSessionSafe
<1>1. OneSession!Spec =>
        /\ []OneSession!OneRevisionPerMessage /\ []OneSession!EnvelopeOverOneChannel
        /\ []OneSession!OverLimitIsRefused /\ []OneSession!ReportsOfTheMessage
        /\ []OneSession!IdleHoldsNoEngine /\ []OneSession!NothingLeaks
  BY OneSession!RevisionKept, OneSession!ChannelKept, OneSession!LimitsEnforced,
     OneSession!ReportsKept, OneSession!IdleIsFree, OneSession!PermitsReturned
<1>2. TwoSessions!Spec =>
        /\ []TwoSessions!OneRevisionPerMessage /\ []TwoSessions!EnvelopeOverOneChannel
        /\ []TwoSessions!OverLimitIsRefused /\ []TwoSessions!ReportsOfTheMessage
        /\ []TwoSessions!IdleHoldsNoEngine /\ []TwoSessions!NothingLeaks
  BY TwoSessions!RevisionKept, TwoSessions!ChannelKept, TwoSessions!LimitsEnforced,
     TwoSessions!ReportsKept, TwoSessions!IdleIsFree, TwoSessions!PermitsReturned
<1>3. ASSUME Chosen("session"),
             OneSession!OneRevisionPerMessage, OneSession!EnvelopeOverOneChannel,
             OneSession!OverLimitIsRefused, OneSession!ReportsOfTheMessage,
             OneSession!IdleHoldsNoEngine, OneSession!NothingLeaks
      PROVE  SmtpSessionSafe
  BY <1>3 DEF SmtpSessionSafe, Chosen
<1>4. ASSUME Chosen("twosessions"),
             TwoSessions!OneRevisionPerMessage, TwoSessions!EnvelopeOverOneChannel,
             TwoSessions!OverLimitIsRefused, TwoSessions!ReportsOfTheMessage,
             TwoSessions!IdleHoldsNoEngine, TwoSessions!NothingLeaks
      PROVE  SmtpSessionSafe
  BY <1>4 DEF SmtpSessionSafe, Chosen
<1>5. ~Chosen("session") /\ ~Chosen("twosessions") => SmtpSessionSafe
  BY DEF SmtpSessionSafe, Chosen
<1>6. [Next]_vars => (Chosen("session")' <=> Chosen("session")) BY ChoiceStep
<1>7. [Next]_vars => (Chosen("twosessions")' <=> Chosen("twosessions")) BY ChoiceStep
<1> QED
  BY <1>1, <1>2, <1>3, <1>4, <1>5, <1>6, <1>7, OneSessionRuns, TwoSessionsRun, PTL DEF Spec

-----------------------------------------------------------------------------
(* Recipient verification                                                   *)

\* A route was heard to say this of the recipient, for this sender.
Heard(route, sender, v) == \E x \in said : x.route = route /\ x.sender = sender /\ x.said = v

\* A verdict of a configuration is backed by what its routes said.
Backed(p, k, s, v) ==
    /\ k \in DOMAIN p.routesOf
    /\ v = "unknown" => \A i \in DOMAIN p.routesOf[k] : Heard(p.routesOf[k][i], s, "unknown")
    /\ v = "accepted" => \E i \in DOMAIN p.routesOf[k] : Heard(p.routesOf[k][i], s, "accepted")

\* Every configuration has a list of routes, perhaps an empty one.
RoutesListed(p) ==
    /\ 1 \in DOMAIN p.routesOf /\ DOMAIN p.routesOf \subseteq Int
    /\ \A k \in DOMAIN p.routesOf :
        /\ Len(p.routesOf[k]) \in Nat /\ DOMAIN p.routesOf[k] = 1..Len(p.routesOf[k])
        /\ Len(p.routesOf[k]) = 0 => p.routesOf[k] = << >>

Answers == {"none", "accepted", "unknown", "unavailable"}
CheckRecords ==
    [phase : {"idle", "probing", "done"}, config : Int, at : Int, allUnknown : BOOLEAN,
     verdict : Answers]

CacheBacked(p) ==
    \A k \in DOMAIN cache : cache[k].verdict \in Answers /\ Backed(p, k[1], k[2], cache[k].verdict)

\* A check that goes through the routes has heard all those before the next one, and
\* keeps the configuration it began with.
CheckBacked(p, c) ==
    LET k == check[c]
        routes == p.routesOf[k.config] IN
    /\ k \in CheckRecords
    /\ k.phase = "idle" => k.verdict = "none"
    /\ k.phase = "probing" =>
        /\ k.config \in DOMAIN p.routesOf /\ k.at \in 1..Len(routes) /\ k.verdict = "none"
        /\ k.allUnknown => \A i \in 1..(k.at - 1) : Heard(routes[i], p.senderOf[c], "unknown")
    /\ k.verdict # "none" => Backed(p, k.config, p.senderOf[c], k.verdict)

RecipientInv(p) ==
    /\ config \in DOMAIN p.routesOf
    /\ check = [c \in p.checks |-> check[c]]
    /\ CacheBacked(p)
    /\ \A c \in p.checks : CheckBacked(p, c)

LEMMA RecipientInit ==
    ASSUME NEW p, RoutesListed(p), RecipientVerification(p)!Init PROVE RecipientInv(p)
<1>1. CacheBacked(p) BY DEF CacheBacked, RecipientVerification!Init
<1>2. ASSUME NEW c \in p.checks PROVE CheckBacked(p, c)
  <2>1. check[c] = [phase |-> "idle", config |-> 0, at |-> 0, allUnknown |-> TRUE, verdict |-> "none"]
    BY DEF RecipientVerification!Init, RecipientVerification!Idle
  <2>2. check[c] \in CheckRecords /\ check[c].phase = "idle" /\ check[c].verdict = "none"
    BY <2>1 DEF CheckRecords, Answers
  <2> QED BY <2>2 DEF CheckBacked
<1> QED BY <1>1, <1>2 DEF RoutesListed, RecipientVerification!Init, RecipientInv

LEMMA RecipientImplies ==
    ASSUME NEW p, RecipientInv(p)
    PROVE  RecipientVerification(p)!RefusedByEveryRoute /\ RecipientVerification(p)!AcceptedByARoute
BY DEF RecipientInv, CheckBacked, Backed, Heard, RecipientVerification!RefusedByEveryRoute,
       RecipientVerification!AcceptedByARoute, RecipientVerification!Said

\* What was heard stays heard.
LEMMA BackedStays ==
    ASSUME said \subseteq said', NEW p
    PROVE  \A k, s, v : Backed(p, k, s, v) => Backed(p, k, s, v)'
BY DEF Heard, Backed

LEMMA CheckStays ==
    ASSUME said \subseteq said', NEW p, NEW c, check'[c] = check[c], CheckBacked(p, c)
    PROVE  CheckBacked(p, c)'
BY DEF Heard, Backed, CheckBacked

LEMMA BeginKeeps ==
    ASSUME NEW p, RoutesListed(p), RecipientInv(p), NEW c \in p.checks,
           RecipientVerification(p)!Begin(c)
    PROVE  RecipientInv(p)'
<1>1. said' = said /\ config' = config BY DEF RecipientVerification!Begin
<1>2. \A k \in DOMAIN cache' : k \in DOMAIN cache /\ cache'[k] = cache[k]
  BY DEF RecipientVerification!Begin
<1>3. \A k, s, v : Backed(p, k, s, v)' <=> Backed(p, k, s, v) BY <1>1 DEF Backed, Heard
<1>4. CacheBacked(p)' BY <1>2, <1>3 DEF CacheBacked, RecipientInv
<1>5. /\ check' = [d \in p.checks |-> check'[d]]
      /\ \A d \in p.checks : d # c => check'[d] = check[d] BY DEF RecipientVerification!Begin, RecipientInv
<1>6. ASSUME NEW d \in p.checks, d # c PROVE CheckBacked(p, d)'
  BY <1>1, <1>5, <1>6, CheckStays DEF RecipientInv
<1>7. CheckBacked(p, c)'
  <2>0. config \in DOMAIN p.routesOf /\ config \in Int /\ Len(p.routesOf[config]) \in Nat
    BY DEF RoutesListed, RecipientInv
  <2>1. check[c] \in CheckRecords /\ check[c].phase = "idle" /\ check[c].verdict = "none"
    BY DEF RecipientInv, CheckBacked, RecipientVerification!Begin
  <2>2. PICK v : v = cache[RecipientVerification(p)!Key(c, config)].verdict OBVIOUS
  <2>3. \/ /\ RecipientVerification(p)!Hit(c, config)
           /\ check'[c] = [[check[c] EXCEPT !.phase = "done", !.verdict = v] EXCEPT !.config = config]
        \/ check'[c] = [[check[c] EXCEPT !.phase = "done", !.verdict = "unavailable"] EXCEPT !.config = config]
        \/ /\ p.routesOf[config] # << >>
           /\ check'[c] = [check[c] EXCEPT !.phase = "probing", !.config = config, !.at = 1]
    BY <2>2 DEF RecipientInv, RecipientVerification!Begin, RecipientVerification!Done
  <2>4. CASE /\ RecipientVerification(p)!Hit(c, config)
             /\ check'[c] = [[check[c] EXCEPT !.phase = "done", !.verdict = v] EXCEPT !.config = config]
    <3>1. v \in Answers /\ Backed(p, config, p.senderOf[c], v)
      BY <2>4, <2>2 DEF RecipientVerification!Hit, RecipientVerification!Key, RecipientInv, CacheBacked
    <3>2. /\ check'[c] \in CheckRecords /\ check'[c].phase = "done" /\ check'[c].verdict = v
          /\ check'[c].config = config
      BY <3>1, <2>0, <2>1, <2>4 DEF CheckRecords, Answers
    <3>3. Backed(p, config, p.senderOf[c], v)' BY <3>1, <1>1 DEF Backed, Heard
    <3> QED BY <3>2, <3>3, <1>1 DEF CheckBacked
  <2>5. CASE check'[c] = [[check[c] EXCEPT !.phase = "done", !.verdict = "unavailable"] EXCEPT !.config = config]
    <3>1. /\ check'[c] \in CheckRecords /\ check'[c].phase = "done" /\ check'[c].verdict = "unavailable"
          /\ check'[c].config = config
      BY <2>0, <2>1, <2>5 DEF CheckRecords, Answers
    <3> QED BY <3>1, <2>0, <1>1 DEF CheckBacked, Backed
  <2>6. CASE /\ p.routesOf[config] # << >>
             /\ check'[c] = [check[c] EXCEPT !.phase = "probing", !.config = config, !.at = 1]
    <3>1. Len(p.routesOf[config]) # 0 BY <2>6, <2>0 DEF RoutesListed
    <3>2. /\ check'[c] \in CheckRecords /\ check'[c].phase = "probing" /\ check'[c].verdict = "none"
          /\ check'[c].config = config /\ check'[c].at = 1
      <4>1. PICK k \in CheckRecords : k = check[c] BY <2>1
      <4>2. check'[c] = [k EXCEPT !.phase = "probing", !.config = config, !.at = 1] BY <4>1, <2>6
      <4>3. k.phase \in {"idle"} /\ k.verdict = "none" BY <4>1, <2>1
      <4>4. PICK n \in Int : n = 1 OBVIOUS
      <4>5. check'[c] = [k EXCEPT !.phase = "probing", !.config = config, !.at = n] BY <4>2, <4>4
      <4>6. check'[c] \in CheckRecords BY <4>5, <2>0 DEF CheckRecords
      <4>7. /\ check'[c].phase = "probing" /\ check'[c].verdict = k.verdict
            /\ check'[c].config = config /\ check'[c].at = n
        BY <4>5 DEF CheckRecords
      <4> QED BY <4>3, <4>4, <4>6, <4>7
    <3> QED BY <2>0, <3>1, <3>2, <1>1 DEF CheckBacked
  <2> QED BY <2>3, <2>4, <2>5, <2>6
<1> QED BY <1>1, <1>4, <1>5, <1>6, <1>7 DEF RecipientInv

LEMMA ProbeKeeps ==
    ASSUME NEW p, RoutesListed(p), RecipientInv(p), NEW c \in p.checks,
           RecipientVerification(p)!Probe(c)
    PROVE  RecipientInv(p)'
<1>1. PICK k \in CheckRecords : k = check[c] BY DEF RecipientInv, CheckBacked
<1>2. PICK routes : routes = p.routesOf[k.config] OBVIOUS
<1>3. PICK s : s = p.senderOf[c] OBVIOUS
<1>4. PICK result \in {"accepted", "unknown", "unavailable"} :
        /\ said' = said \cup {[route |-> routes[k.at], sender |-> s, said |-> result, at |-> now]}
        /\ IF result = "accepted" \/ k.at = Len(routes)
           THEN \E v : /\ v = (IF result = "accepted" THEN result ELSE RecipientVerification(p)!Verdict(c, result))
                       /\ check' = [check EXCEPT ![c] = RecipientVerification(p)!Done(c, v)]
                       /\ RecipientVerification(p)!Remember(c, v)
           ELSE /\ check' = [check EXCEPT ![c].at = @ + 1, ![c].allUnknown = @ /\ result = "unknown"]
                /\ UNCHANGED cache
  BY <1>1, <1>2, <1>3 DEF RecipientVerification!Probe
<1>5. k.phase = "probing" /\ UNCHANGED config BY <1>1 DEF RecipientVerification!Probe
<1>6. /\ k.config \in DOMAIN p.routesOf /\ k.at \in 1..Len(routes) /\ k.verdict = "none"
      /\ k.allUnknown => \A i \in 1..(k.at - 1) : Heard(routes[i], s, "unknown")
      /\ k.config \in Int /\ Len(routes) \in Nat /\ DOMAIN routes = 1..Len(routes)
  BY <1>1, <1>2, <1>3, <1>5 DEF RecipientInv, CheckBacked, RoutesListed
<1>7. said \subseteq said' /\ Heard(routes[k.at], s, result)' /\ (\A r, w : Heard(r, s, w) => Heard(r, s, w)')
  <2>1. PICK x : x = [route |-> routes[k.at], sender |-> s, said |-> result, at |-> now] OBVIOUS
  <2>2. x.route = routes[k.at] /\ x.sender = s /\ x.said = result BY <2>1
  <2>3. said' = said \cup {x} BY <1>4, <2>1
  <2> QED BY <2>2, <2>3 DEF Heard
<1>8. /\ check' = [d \in p.checks |-> check'[d]]
      /\ \A d \in p.checks : d # c => check'[d] = check[d]
  BY <1>4 DEF RecipientInv
<1>9. ASSUME NEW d \in p.checks, d # c PROVE CheckBacked(p, d)'
  BY <1>7, <1>8, <1>9, CheckStays DEF RecipientInv
<1>10. CASE result = "accepted" \/ k.at = Len(routes)
  <2>1. PICK v : /\ v = (IF result = "accepted" THEN result ELSE RecipientVerification(p)!Verdict(c, result))
                 /\ check' = [check EXCEPT ![c] = RecipientVerification(p)!Done(c, v)]
                 /\ RecipientVerification(p)!Remember(c, v)
    BY <1>4, <1>10
  <2>2. v \in {"accepted", "unknown", "unavailable"} /\ (v = "accepted" => result = "accepted")
        /\ (v = "unknown" => k.allUnknown /\ result = "unknown" /\ k.at = Len(routes))
    BY <2>1, <1>1, <1>10 DEF RecipientVerification!Verdict
  <2>3. Backed(p, k.config, s, v)'
    <3>1. v = "unknown" => \A i \in DOMAIN routes : Heard(routes[i], s, "unknown")'
      <4> SUFFICES ASSUME v = "unknown", NEW i \in DOMAIN routes PROVE Heard(routes[i], s, "unknown")' OBVIOUS
      <4>1. i \in 1..(k.at - 1) \/ i = k.at BY <2>2, <1>6
      <4> QED BY <4>1, <2>2, <1>6, <1>7
    <3> QED BY <3>1, <2>2, <1>2, <1>6, <1>7 DEF Backed
  <2>4. check'[c] = [k EXCEPT !.phase = "done", !.verdict = v]
    BY <2>1, <1>1 DEF RecipientVerification!Done, RecipientInv
  <2>5. CheckBacked(p, c)'
    <3>1. /\ check'[c] \in CheckRecords /\ check'[c].phase = "done" /\ check'[c].verdict = v
          /\ check'[c].config = k.config
      BY <2>2, <2>4 DEF CheckRecords, Answers
    <3> QED BY <2>3, <3>1, <1>3 DEF CheckBacked
  <2>6. CacheBacked(p)'
    <3> SUFFICES ASSUME NEW q \in DOMAIN cache'
                 PROVE  cache'[q].verdict \in Answers /\ Backed(p, q[1], q[2], cache[q].verdict)'
      BY DEF CacheBacked
    <3>1. CASE q \in DOMAIN cache /\ cache'[q] = cache[q]
      BY <3>1, <1>7, BackedStays DEF RecipientInv, CacheBacked
    <3>2. CASE q = <<k.config, s>> /\ cache'[q].verdict = v
      <4>1. q[1] = k.config /\ q[2] = s BY <3>2
      <4> QED BY <4>1, <3>2, <2>2, <2>3 DEF Answers
    <3>3. \/ q \in DOMAIN cache /\ cache'[q] = cache[q]
          \/ q = <<k.config, s>> /\ cache'[q].verdict = v
      BY <2>1, <1>1, <1>3 DEF RecipientVerification!Remember, RecipientVerification!Key
    <3> QED BY <3>1, <3>2, <3>3
  <2> QED BY <1>5, <1>8, <1>9, <2>5, <2>6 DEF RecipientInv
<1>11. CASE ~(result = "accepted" \/ k.at = Len(routes))
  <2>1. check'[c] = [k EXCEPT !.at = k.at + 1, !.allUnknown = k.allUnknown /\ result = "unknown"] /\ cache' = cache
    BY <1>4, <1>11, <1>1 DEF RecipientInv
  <2>2. CheckBacked(p, c)'
    <3>1. k.at + 1 \in 1..Len(routes) BY <1>6, <1>11
    <3>2. ASSUME k.allUnknown, result = "unknown", NEW i \in 1..k.at PROVE Heard(routes[i], s, "unknown")'
      <4>1. i \in 1..(k.at - 1) \/ i = k.at BY <1>6
      <4> QED BY <4>1, <3>2, <1>6, <1>7
    <3>3. (k.at + 1) - 1 = k.at BY <1>6
    <3>4. k.at + 1 \in Int /\ (k.allUnknown /\ result = "unknown") \in BOOLEAN BY <1>6
    <3>5. /\ check'[c] \in CheckRecords /\ check'[c].phase = "probing" /\ check'[c].verdict = "none"
          /\ check'[c].config = k.config /\ check'[c].at = k.at + 1
          /\ check'[c].allUnknown => k.allUnknown /\ result = "unknown"
      BY <2>1, <3>4, <1>5, <1>6 DEF CheckRecords, Answers
    <3> QED BY <3>1, <3>2, <3>3, <3>5, <1>2, <1>3, <1>6 DEF CheckBacked
  <2>3. CacheBacked(p)' BY <2>1, <1>7, BackedStays DEF RecipientInv, CacheBacked
  <2> QED BY <1>5, <1>8, <1>9, <2>2, <2>3 DEF RecipientInv
<1> QED BY <1>10, <1>11

LEMMA TimeoutKeeps ==
    ASSUME NEW p, RoutesListed(p), RecipientInv(p), NEW c \in p.checks,
           RecipientVerification(p)!Timeout(c)
    PROVE  RecipientInv(p)'
<1>1. UNCHANGED <<config, cache, said>> BY DEF RecipientVerification!Timeout
<1>2. /\ check' = [d \in p.checks |-> check'[d]]
      /\ \A d \in p.checks : d # c => check'[d] = check[d]
      /\ check'[c] = [check[c] EXCEPT !.phase = "done", !.verdict = "unavailable"]
      /\ check[c].phase = "probing"
  BY DEF RecipientVerification!Timeout, RecipientVerification!Done, RecipientInv
<1>3. ASSUME NEW d \in p.checks, d # c PROVE CheckBacked(p, d)'
  BY <1>1, <1>2, <1>3, CheckStays DEF RecipientInv
<1>4. CheckBacked(p, c)'
  <2>1. check[c] \in CheckRecords /\ check[c].config \in DOMAIN p.routesOf
    BY <1>2 DEF RecipientInv, CheckBacked
  <2>2. /\ check'[c] \in CheckRecords /\ check'[c].phase = "done" /\ check'[c].verdict = "unavailable"
        /\ check'[c].config = check[c].config
    BY <1>2, <2>1 DEF CheckRecords, Answers
  <2> QED BY <2>1, <2>2 DEF CheckBacked, Backed
<1>5. CacheBacked(p)' BY <1>1, BackedStays DEF RecipientInv, CacheBacked
<1> QED BY <1>1, <1>2, <1>3, <1>4, <1>5 DEF RecipientInv

LEMMA RecipientStep ==
    ASSUME NEW p, RoutesListed(p), RecipientInv(p),
           [RecipientVerification(p)!Next]_(RecipientVerification(p)!vars)
    PROVE  RecipientInv(p)'
<1>1. CASE UNCHANGED <<cache, check, said>> /\ config' \in DOMAIN p.routesOf
  <2>1. CacheBacked(p)' BY <1>1, BackedStays DEF RecipientInv, CacheBacked
  <2>2. ASSUME NEW c \in p.checks PROVE CheckBacked(p, c)' BY <1>1, CheckStays DEF RecipientInv
  <2> QED BY <1>1, <2>1, <2>2 DEF RecipientInv
<1>2. CASE RecipientVerification(p)!Change \/ RecipientVerification(p)!Clock \/ UNCHANGED RecipientVerification(p)!vars
  BY <1>1, <1>2 DEF RecipientVerification!Change, RecipientVerification!Clock, RecipientVerification!vars, RecipientInv
<1> QED BY <1>2, BeginKeeps, ProbeKeeps, TimeoutKeeps DEF RecipientVerification!Next

\* A recipient is refused only when every route of the configuration the check began
\* with said it is unknown, and accepted only when one accepted it, whatever is cached,
\* reconfigured or timed out meanwhile (src/recipient_verification.rs).
THEOREM RecipientsVerified ==
    ASSUME NEW p, RoutesListed(p)
    PROVE  RecipientVerification(p)!Spec =>
            [](RecipientVerification(p)!RefusedByEveryRoute /\ RecipientVerification(p)!AcceptedByARoute)
<1>1. RecipientVerification(p)!Init => RecipientInv(p) BY RecipientInit
<1>2. RecipientInv(p) /\ [RecipientVerification(p)!Next]_(RecipientVerification(p)!vars) => RecipientInv(p)'
  BY RecipientStep
<1>3. RecipientInv(p) =>
        RecipientVerification(p)!RefusedByEveryRoute /\ RecipientVerification(p)!AcceptedByARoute
  BY RecipientImplies
<1> QED BY <1>1, <1>2, <1>3, PTL DEF RecipientVerification!Spec

LEMMA TwoRoutesListed == RoutesListed(TwoRoutes)
<1>1. TwoRoutes.routesOf = <<<<d1, d2>>, <<d2>>, << >>>> BY DEF TwoRoutes
<1>2. DOMAIN TwoRoutes.routesOf = 1..3 BY <1>1
<1>3. TwoRoutes.routesOf[1] = <<d1, d2>> /\ TwoRoutes.routesOf[2] = <<d2>> /\ TwoRoutes.routesOf[3] = << >>
  BY <1>1
<1>4. Len(<<d1, d2>>) = 2 /\ DOMAIN <<d1, d2>> = 1..2 /\ Len(<<d2>>) = 1 /\ DOMAIN <<d2>> = 1..1
      /\ Len(<< >>) = 0 /\ DOMAIN << >> = 1..0
  OBVIOUS
<1>5. \A k \in 1..3 : k = 1 \/ k = 2 \/ k = 3 OBVIOUS
<1> QED BY <1>2, <1>3, <1>4, <1>5 DEF RoutesListed

\* The suite's instance of recipient verification: refused by every route, accepted by
\* one (src/recipient_verification.rs, verify).
THEOREM RecipientVerificationProved == Spec => []RecipientVerificationSafe
<1> DEFINE R == Chosen("recipients") => RecipientInv(TwoRoutes)
<1>1. Init => R BY TwoRoutesListed, RecipientInit DEF Init, Chosen
<1>2. R /\ [Next]_vars => R'
  <2> SUFFICES ASSUME R, [Next]_vars, Chosen("recipients") PROVE RecipientInv(TwoRoutes)' BY ChoiceStep
  <2>1. [RecipientVerification(TwoRoutes)!Next]_(RecipientVerification(TwoRoutes)!vars)
    BY DEF Next, vars, RecipientVerification!vars, Chosen
  <2> QED BY <2>1, TwoRoutesListed, RecipientStep
<1>3. R => RecipientVerificationSafe
  BY RecipientImplies DEF RecipientVerificationSafe, Chosen
<1> QED BY <1>1, <1>2, <1>3, PTL DEF Spec

-----------------------------------------------------------------------------
(* Shared traffic limits                                                    *)

\* Buckets and results outlast a window and a request, also when the clock is set
\* back: the code keeps them for an hour, a window is at most that long, and a request
\* lasts three seconds.
TrafficKept(p) ==
    /\ p.senderLimit \in Nat /\ p.recipientLimit \in Nat
    /\ p.window \in Nat \ {0} /\ p.retain \in Nat /\ p.lasts \in Nat
    /\ p.maxTime \in Nat /\ p.maxPolicy \in Nat \ {0} /\ p.maxBack \in Nat
    /\ p.window + p.maxBack <= p.retain + 1
    /\ p.lasts + p.maxBack <= p.retain

\* What concerns a key: all that was counted, since a time, and what passed.
OfKey(k) == {c \in counted : k \in c.keys}
Since(k, s) == {c \in OfKey(k) : c.at >= s}
PassedSince(k, s) == {c \in OfKey(k) : c.passed /\ c.at >= s}
PassedWithin(k, s, t) == {c \in OfKey(k) : c.passed /\ c.at > s /\ c.at <= t}
MessagesOf(S) == {c.message : c \in S}

\* The earliest time the clock may show again.
Earliest(p) == now + back - p.maxBack

TrafficTypes(p) ==
    /\ now \in Nat /\ back \in 0..p.maxBack /\ policy \in 1..p.maxPolicy
    /\ buckets \in [Traffic(p)!Keys -> [started : Nat, count : Nat]]
    /\ IsFiniteSet(counted)
    /\ \A c \in counted : c.at \in Nat /\ c.at <= now + back /\ c.passed \in BOOLEAN
    /\ \A m \in DOMAIN pending : pending[m].at \in Nat /\ pending[m].at <= now + back
    /\ \A m \in DOMAIN operations : operations[m].created \in Nat

\* A message that was counted has its result, or its request can arrive no more.
Remembered(p) ==
    /\ \A m \in DOMAIN operations :
        m \in DOMAIN pending /\ pending[m].at <= operations[m].created + back
    /\ \A c \in counted :
        /\ c.message \in DOMAIN pending
        /\ c.message \in DOMAIN operations \/ Earliest(p) > pending[c.message].at + p.lasts

\* A bucket and what was counted in its window, and in the time before it that a
\* window may still overlap; without a bucket, in the time that may come again.
Window(p, k, b) ==
    LET l == Traffic(p)!Limit(k) IN
    /\ b.count > 0 =>
        /\ \A c \in OfKey(k) : c.at < b.started + p.window
        /\ b.count <= Cardinality(MessagesOf(Since(k, b.started)))
        /\ l > 0 =>
            /\ Cardinality(PassedSince(k, b.started)) <= b.count
            /\ Cardinality(PassedSince(k, b.started)) <= l
            /\ Cardinality(PassedWithin(k, b.started - p.window, b.started - 1)) <= l
    /\ b.count = 0 =>
        /\ \A c \in OfKey(k) : c.at < Earliest(p)
        /\ l > 0 => Cardinality(PassedSince(k, Earliest(p) - p.window + 1)) <= l

\* PassesBounded, also before the clock's start.
Bounded(p, k) ==
    \A t \in Int : Traffic(p)!Limit(k) > 0 =>
        Cardinality(PassedWithin(k, t - p.window, t)) <= 2 * Traffic(p)!Limit(k)

TrafficInv(p) ==
    /\ TrafficTypes(p) /\ Remembered(p)
    /\ \A k \in Traffic(p)!Keys : Window(p, k, buckets[k]) /\ Bounded(p, k)

LEMMA TrafficCardinality == ASSUME NEW p, NEW S PROVE Traffic(p)!Cardinality(S) = Cardinality(S)
BY DEF Traffic!Cardinality, Cardinality

LEMMA MessagesCounted ==
    ASSUME NEW S, IsFiniteSet(S)
    PROVE  IsFiniteSet(MessagesOf(S)) /\ Cardinality(MessagesOf(S)) <= Cardinality(S)
<1> DEFINE f == [c \in S |-> c.message]
<1>1. f \in Surjection(S, MessagesOf(S)) BY DEF Surjection, MessagesOf
<1> HIDE DEF f
<1> QED BY <1>1, FS_Surjection

LEMMA KeyLimits == ASSUME NEW p, TrafficKept(p), NEW k PROVE Traffic(p)!Limit(k) \in Nat
BY DEF TrafficKept, Traffic!Limit

LEMMA PartsFinite ==
    ASSUME IsFiniteSet(counted), NEW k
    PROVE  /\ IsFiniteSet(OfKey(k)) /\ Cardinality(OfKey(k)) \in Nat
           /\ \A s : IsFiniteSet(Since(k, s)) /\ Cardinality(Since(k, s)) \in Nat
           /\ \A s : IsFiniteSet(PassedSince(k, s)) /\ Cardinality(PassedSince(k, s)) \in Nat
           /\ \A s, t : IsFiniteSet(PassedWithin(k, s, t)) /\ Cardinality(PassedWithin(k, s, t)) \in Nat
<1>1. \A S \in SUBSET counted : IsFiniteSet(S) /\ Cardinality(S) \in Nat
  BY FS_Subset, FS_CardinalityType
<1>2. OfKey(k) \in SUBSET counted BY DEF OfKey
<1>3. \A s : Since(k, s) \in SUBSET counted BY DEF OfKey, Since
<1>4. \A s : PassedSince(k, s) \in SUBSET counted BY DEF OfKey, PassedSince
<1>5. \A s, t : PassedWithin(k, s, t) \in SUBSET counted BY DEF OfKey, PassedWithin
<1> QED BY <1>1, <1>2, <1>3, <1>4, <1>5

LEMMA EarliestType ==
    ASSUME NEW p, TrafficKept(p), TrafficTypes(p)
    PROVE  Earliest(p) \in Int /\ Earliest(p) <= now
BY DEF Earliest, TrafficKept, TrafficTypes

LEMMA TrafficImplies ==
    ASSUME NEW p, TrafficKept(p), TrafficInv(p)
    PROVE  Traffic(p)!CountedOnce /\ Traffic(p)!PassesBounded /\ Traffic(p)!EarlyEnds
<1> USE DEF TrafficInv
<1>0. IsFiniteSet(counted) BY DEF TrafficTypes
<1>1. ASSUME NEW k \in Traffic(p)!Keys
      PROVE  buckets[k].count <= Cardinality(MessagesOf(OfKey(k)))
  <2>1. buckets[k].count \in Nat BY DEF TrafficTypes
  <2>2. IsFiniteSet(OfKey(k)) /\ IsFiniteSet(MessagesOf(OfKey(k))) /\ Cardinality(MessagesOf(OfKey(k))) \in Nat
    BY <1>0, PartsFinite, MessagesCounted, FS_CardinalityType
  <2>3. CASE buckets[k].count > 0
    <3>1. PICK s : s = buckets[k].started OBVIOUS
    <3>2. MessagesOf(Since(k, s)) \in SUBSET MessagesOf(OfKey(k)) BY DEF MessagesOf, Since
    <3>3. Cardinality(MessagesOf(Since(k, s))) <= Cardinality(MessagesOf(OfKey(k)))
      BY <3>2, <2>2, FS_Subset
    <3>4. buckets[k].count <= Cardinality(MessagesOf(Since(k, s))) BY <2>3, <3>1 DEF Window
    <3>5. Cardinality(MessagesOf(Since(k, s))) \in Nat BY <3>2, <2>2, FS_Subset, FS_CardinalityType
    <3> QED BY <3>3, <3>4, <3>5, <2>1, <2>2
  <2> QED BY <2>1, <2>2, <2>3
<1>2. Traffic(p)!CountedOnce
  BY <1>1, TrafficCardinality DEF Traffic!CountedOnce, MessagesOf, OfKey
<1>3. Traffic(p)!PassesBounded
  <2> SUFFICES ASSUME NEW k \in Traffic(p)!Keys, NEW t \in 0..p.maxTime, Traffic(p)!Limit(k) > 0
               PROVE  Cardinality({c \in Traffic(p)!Of(k, t) : c.passed}) <= 2 * Traffic(p)!Limit(k)
    BY TrafficCardinality DEF Traffic!PassesBounded
  <2>1. {c \in Traffic(p)!Of(k, t) : c.passed} = PassedWithin(k, t - p.window, t)
    BY DEF Traffic!Of, PassedWithin, OfKey
  <2>2. t \in Int BY DEF TrafficKept
  <2> QED BY <2>1, <2>2 DEF Bounded
<1>4. Traffic(p)!EarlyEnds
  <2> SUFFICES ASSUME NEW k \in Traffic(p)!Keys, Traffic(p)!Full(k)
               PROVE  Cardinality({c \in counted : k \in c.keys /\ c.at > now - p.window}) >= Traffic(p)!Limit(k)
    BY TrafficCardinality DEF Traffic!EarlyEnds
  <2> DEFINE R == {c \in counted : k \in c.keys /\ c.at > now - p.window}
  <2>1. PICK b \in [started : Nat, count : Nat] : b = buckets[k] BY DEF TrafficTypes
  <2>2. /\ Traffic(p)!Limit(k) \in Nat \ {0} /\ b.count >= Traffic(p)!Limit(k) /\ b.started + p.window > now
        /\ now \in Nat /\ p.window \in Nat /\ b.count \in Nat /\ b.started \in Nat
    BY <2>1, KeyLimits DEF Traffic!Full, TrafficTypes, TrafficKept
  <2>3. b.count <= Cardinality(MessagesOf(Since(k, b.started))) BY <2>1, <2>2 DEF Window
  <2>4. Since(k, b.started) \in SUBSET R BY <2>2 DEF Since, OfKey, TrafficTypes
  <2>5. IsFiniteSet(R) BY <1>0, FS_Subset
  <2>6. /\ IsFiniteSet(Since(k, b.started)) /\ Cardinality(Since(k, b.started)) <= Cardinality(R)
        /\ Cardinality(R) \in Nat /\ Cardinality(Since(k, b.started)) \in Nat
    BY <2>4, <2>5, FS_Subset, FS_CardinalityType
  <2>7. /\ Cardinality(MessagesOf(Since(k, b.started))) <= Cardinality(Since(k, b.started))
        /\ Cardinality(MessagesOf(Since(k, b.started))) \in Nat
    BY <2>6, MessagesCounted, FS_CardinalityType
  <2> HIDE DEF R
  <2>8. Cardinality(R) >= Traffic(p)!Limit(k) BY <2>2, <2>3, <2>6, <2>7
  <2> QED BY <2>8 DEF R
<1> QED BY <1>2, <1>3, <1>4

LEMMA TrafficInit ==
    ASSUME NEW p, TrafficKept(p), Traffic(p)!Init PROVE TrafficInv(p)
<1> USE DEF Traffic!Init
<1>1. counted = {} /\ IsFiniteSet(counted) BY FS_EmptySet
<1>2. TrafficTypes(p)
  <2>1. buckets \in [Traffic(p)!Keys -> [started : Nat, count : Nat]] BY DEF Traffic!Empty
  <2>2. 0 \in 0..p.maxBack /\ 1 \in 1..p.maxPolicy BY DEF TrafficKept
  <2> QED BY <1>1, <2>1, <2>2 DEF TrafficTypes
<1>3. Remembered(p) BY <1>1 DEF Remembered
<1>4. ASSUME NEW k \in Traffic(p)!Keys PROVE Window(p, k, buckets[k]) /\ Bounded(p, k)
  <2>1. buckets[k].count = 0 BY DEF Traffic!Empty
  <2>2. OfKey(k) = {} BY <1>1 DEF OfKey
  <2>3. \A s, t : PassedSince(k, s) = {} /\ PassedWithin(k, s, t) = {} BY <2>2 DEF PassedSince, PassedWithin
  <2>4. Traffic(p)!Limit(k) \in Nat BY KeyLimits
  <2>5. Window(p, k, buckets[k])
    <3>1. PICK b : b = buckets[k] OBVIOUS
    <3>2. b.count = 0 /\ ~(b.count > 0) BY <2>1, <3>1
    <3>3. Cardinality(PassedSince(k, Earliest(p) - p.window + 1)) = 0 BY <2>3, FS_EmptySet
    <3>4. Window(p, k, b) BY <3>2, <3>3, <2>2, <2>4 DEF Window
    <3> QED BY <3>1, <3>4
  <2>6. Bounded(p, k)
    <3>1. \A t \in Int : Cardinality(PassedWithin(k, t - p.window, t)) = 0 BY <2>3, FS_EmptySet
    <3> QED BY <3>1, <2>4 DEF Bounded
  <2> QED BY <2>5, <2>6
<1> QED BY <1>2, <1>3, <1>4 DEF TrafficInv

\* A bucket says no less when time passes.
LEMMA WindowStays ==
    ASSUME NEW p, TrafficKept(p), NEW k, NEW b, Window(p, k, b), IsFiniteSet(counted),
           OfKey(k)' = OfKey(k), \A c \in OfKey(k) : c.at \in Nat,
           Earliest(p) \in Int, Earliest(p)' \in Int, Earliest(p) <= Earliest(p)'
    PROVE  Window(p, k, b)'
<1>1. /\ OfKey(k)' = OfKey(k) /\ (\A s : Since(k, s)' = Since(k, s))
      /\ \A s : PassedSince(k, s)' = PassedSince(k, s)
      /\ \A s, t : PassedWithin(k, s, t)' = PassedWithin(k, s, t)
  BY DEF Since, PassedSince, PassedWithin
<1>2. PICK e, f \in Int : e = Earliest(p) /\ f = Earliest(p)' OBVIOUS
<1>3. PICK w \in Nat : w = p.window BY DEF TrafficKept
<1>4. /\ Cardinality(PassedSince(k, f - w + 1)) <= Cardinality(PassedSince(k, e - w + 1))
      /\ Cardinality(PassedSince(k, f - w + 1)) \in Nat /\ Cardinality(PassedSince(k, e - w + 1)) \in Nat
  <2>1. PassedSince(k, f - w + 1) \in SUBSET PassedSince(k, e - w + 1)
    BY <1>2, <1>3 DEF PassedSince
  <2> QED BY <2>1, PartsFinite, FS_Subset
<1>5. Traffic(p)!Limit(k) \in Nat BY KeyLimits
<1>7. b.count = 0 => Window(p, k, b)'
  BY <1>1, <1>2, <1>3, <1>4, <1>5 DEF Window
<1>8. b.count > 0 => Window(p, k, b)'
  BY <1>1 DEF Window
<1>9. ~(b.count = 0) /\ ~(b.count > 0) => Window(p, k, b)' BY DEF Window
<1> QED BY <1>7, <1>8, <1>9

\* What is deleted is over, also for a clock that is set back.
LEMMA SweptWindow ==
    ASSUME NEW p, TrafficKept(p), TrafficTypes(p), NEW k, NEW b \in [started : Nat, count : Nat],
           Window(p, k, b), Traffic(p)!Old(b)
    PROVE  Window(p, k, Traffic(p)!Empty)
<1>1. b.count > 0 /\ b.started + p.retain < now BY DEF Traffic!Old
<1>2. PICK e \in Int : e = Earliest(p) BY EarliestType
<1>3. b.started + p.window <= e BY <1>1, <1>2 DEF TrafficKept, TrafficTypes, Earliest
<1>4. \A c \in OfKey(k) : c.at \in Nat /\ c.at < e
  BY <1>1, <1>3 DEF Window, OfKey, TrafficTypes, TrafficKept
<1>5. PassedSince(k, e - p.window + 1) \in SUBSET PassedSince(k, b.started)
  BY <1>3, <1>4 DEF PassedSince, TrafficKept
<1>6. /\ Cardinality(PassedSince(k, e - p.window + 1)) <= Cardinality(PassedSince(k, b.started))
      /\ Cardinality(PassedSince(k, e - p.window + 1)) \in Nat /\ Cardinality(PassedSince(k, b.started)) \in Nat
  BY <1>5, PartsFinite, FS_Subset DEF TrafficTypes
<1>7. Traffic(p)!Limit(k) \in Nat BY KeyLimits
<1>8. Traffic(p)!Limit(k) > 0 => Cardinality(PassedSince(k, b.started)) <= Traffic(p)!Limit(k)
  BY <1>1 DEF Window
<1>9. PICK z : z = Traffic(p)!Empty OBVIOUS
<1>10. z.count = 0 BY <1>9 DEF Traffic!Empty
<1>11. Window(p, k, z) BY <1>2, <1>4, <1>6, <1>7, <1>8, <1>10 DEF Window
<1> QED BY <1>9, <1>11

\* One more in the window, or the first of the next: both keep what a bucket says,
\* and no time of a window's length sees more pass than two of them.
LEMMA CountedWindow ==
    ASSUME NEW p, TrafficKept(p), TrafficTypes(p), NEW k, Bounded(p, k),
           NEW b \in [started : Nat, count : Nat], Window(p, k, b), b.started <= now,
           NEW r, counted' = counted \cup {r}, k \in r.keys, r.at = now, r.passed \in BOOLEAN,
           r.message \notin MessagesOf(counted),
           NEW n, n = Traffic(p)!Counted(b), r.passed => n.count <= Traffic(p)!Limit(k)
    PROVE  Window(p, k, n)' /\ Bounded(p, k)'
<1>1. PICK l \in Nat : l = Traffic(p)!Limit(k) BY KeyLimits
<1>2. PICK w \in Nat \ {0} : w = p.window BY DEF TrafficKept
<1>3. PICK x \in Nat : x = now BY DEF TrafficTypes
<1>4. IsFiniteSet(counted) /\ r \notin counted BY DEF TrafficTypes, MessagesOf
<1>5. b.count \in Nat /\ b.started \in Nat OBVIOUS
<1>6. \A c \in OfKey(k) : c.at \in Nat BY DEF OfKey, TrafficTypes
<1>7. OfKey(k)' = OfKey(k) \cup {r} /\ r \notin OfKey(k) BY <1>4 DEF OfKey
<1>8. \A s : /\ PassedSince(k, s)' = PassedSince(k, s) \cup (IF r.passed /\ x >= s THEN {r} ELSE {})
             /\ Since(k, s)' = Since(k, s) \cup (IF x >= s THEN {r} ELSE {})
  BY <1>3, <1>7 DEF PassedSince, Since
<1>10. /\ \A s : Cardinality(PassedSince(k, s)) \in Nat /\ IsFiniteSet(PassedSince(k, s))
       /\ \A s, t : Cardinality(PassedWithin(k, s, t)) \in Nat /\ IsFiniteSet(PassedWithin(k, s, t))
       /\ \A s : IsFiniteSet(Since(k, s))
  BY <1>4, PartsFinite
<1>11. /\ n.count \in Nat \ {0} /\ n.started \in Nat /\ n.started <= x /\ x < n.started + w
       /\ \A c \in OfKey(k)' : c.at < n.started + w
       /\ n.count <= Cardinality(MessagesOf(Since(k, n.started)'))
       /\ l > 0 => /\ Cardinality(PassedSince(k, n.started)') <= n.count
                   /\ Cardinality(PassedSince(k, n.started)') <= l
                   /\ Cardinality(PassedWithin(k, n.started - w, n.started - 1)') <= l
  <2>1. CASE Traffic(p)!Live(b)
    <3>1. /\ n = [b EXCEPT !.count = b.count + 1] /\ b.count > 0 /\ x - b.started < w
      BY <2>1, <1>2, <1>3 DEF Traffic!Counted, Traffic!Live
    <3>2. n.count = b.count + 1 /\ n.started = b.started BY <3>1
    <3>3. PICK s \in Nat : s = b.started BY <1>5
    <3>4. /\ \A c \in OfKey(k) : c.at < s + w
          /\ b.count <= Cardinality(MessagesOf(Since(k, s)))
          /\ l > 0 => /\ Cardinality(PassedSince(k, s)) <= b.count
                      /\ Cardinality(PassedSince(k, s)) <= l
                      /\ Cardinality(PassedWithin(k, s - w, s - 1)) <= l
      BY <3>1, <3>3, <1>1, <1>2 DEF Window
    <3>5. x >= s /\ x < s + w /\ ~(x <= s - 1) BY <3>1, <3>3, <1>3
    <3>6. n.count <= Cardinality(MessagesOf(Since(k, s)'))
      <4>1. MessagesOf(Since(k, s)') = MessagesOf(Since(k, s)) \cup {r.message}
        BY <1>8, <3>5 DEF MessagesOf
      <4>2. r.message \notin MessagesOf(Since(k, s)) BY DEF MessagesOf, Since, OfKey
      <4>3. IsFiniteSet(MessagesOf(Since(k, s))) /\ Cardinality(MessagesOf(Since(k, s))) \in Nat
        BY <1>10, MessagesCounted, FS_CardinalityType
      <4>4. Cardinality(MessagesOf(Since(k, s)')) = Cardinality(MessagesOf(Since(k, s))) + 1
        BY <4>1, <4>2, <4>3, FS_AddElement
      <4> QED BY <4>3, <4>4, <3>2, <3>4, <1>5
    <3>7. PassedWithin(k, s - w, s - 1)' = PassedWithin(k, s - w, s - 1)
      <4>1. PICK u, v \in Int : u = s - w /\ v = s - 1 BY <1>2
      <4>2. ~(r.at <= v) BY <4>1, <3>5, <1>3
      <4>3. PassedWithin(k, u, v)' = PassedWithin(k, u, v) BY <1>7, <4>2 DEF PassedWithin
      <4> QED BY <4>1, <4>3
    <3>8. l > 0 => Cardinality(PassedSince(k, s)') <= n.count /\ Cardinality(PassedSince(k, s)') <= l
      <4>1. CASE r.passed
        <5>1. PassedSince(k, s)' = PassedSince(k, s) \cup {r} /\ r \notin PassedSince(k, s)
          BY <4>1, <1>8, <3>5, <1>7 DEF PassedSince
        <5>2. Cardinality(PassedSince(k, s)') = Cardinality(PassedSince(k, s)) + 1
          BY <5>1, <1>10, FS_AddElement
        <5> QED BY <5>2, <4>1, <3>2, <3>4, <1>1, <1>5, <1>10
      <4>2. CASE ~r.passed
        <5>1. PassedSince(k, s)' = PassedSince(k, s) BY <4>2, <1>8
        <5> QED BY <5>1, <3>2, <3>4, <1>1, <1>5, <1>10
      <4> QED BY <4>1, <4>2
    <3>9. \A c \in OfKey(k)' : c.at < s + w BY <1>7, <1>3, <3>4, <3>5
    <3>10. n.count \in Nat \ {0} /\ n.started = s BY <3>2, <3>3, <1>5
    <3> QED BY <3>4, <3>5, <3>6, <3>7, <3>8, <3>9, <3>10
  <2>2. CASE ~Traffic(p)!Live(b)
    <3>1. n.started = x /\ n.count = 1 BY <2>2, <1>3 DEF Traffic!Counted
    <3>2. PICK e \in Int : e = Earliest(p) /\ e <= x BY <1>3, EarliestType
    <3>3. \A c \in OfKey(k) : c.at < x
      <4>1. CASE b.count = 0 BY <4>1, <3>2, <1>6 DEF Window
      <4>2. CASE b.count > 0
        <5>1. \A c \in OfKey(k) : c.at < b.started + w BY <4>2, <1>2 DEF Window
        <5>2. b.started + w <= x BY <4>2, <2>2, <1>2, <1>3, <1>5 DEF Traffic!Live
        <5> QED BY <5>1, <5>2, <1>5, <1>6
      <4> QED BY <4>1, <4>2, <1>5
    <3>4. Since(k, x) = {} /\ PassedSince(k, x) = {} BY <3>3, <1>6 DEF Since, PassedSince
    <3>5. Cardinality(MessagesOf(Since(k, x)')) = 1
      <4>1. MessagesOf(Since(k, x)') = {r.message} BY <3>4, <1>8 DEF MessagesOf
      <4> QED BY <4>1, FS_Singleton
    <3>6. Cardinality(PassedSince(k, x)') <= 1 /\ Cardinality(PassedSince(k, x)') \in Nat
      <4>1. PassedSince(k, x)' = {r} \/ PassedSince(k, x)' = {} BY <3>4, <1>8
      <4>2. Cardinality({r}) = 1 BY FS_Singleton
      <4>3. Cardinality({}) = 0 BY FS_EmptySet
      <4> QED BY <4>1, <4>2, <4>3
    <3>7. l > 0 => Cardinality(PassedWithin(k, x - w, x - 1)') <= l
      <4>0. PassedWithin(k, x - w, x - 1)' = PassedWithin(k, x - w, x - 1)
        <5>1. PICK u, v \in Int : u = x - w /\ v = x - 1 BY <1>2
        <5>2. ~(r.at <= v) BY <5>1, <1>3
        <5>3. PassedWithin(k, u, v)' = PassedWithin(k, u, v) BY <1>7, <5>2 DEF PassedWithin
        <5> QED BY <5>1, <5>3
      <4>1. CASE b.count = 0
        <5>1. PassedWithin(k, x - w, x - 1) \in SUBSET PassedSince(k, e - w + 1)
          BY <3>2, <1>6 DEF PassedWithin, PassedSince
        <5>2. Cardinality(PassedWithin(k, x - w, x - 1)) <= Cardinality(PassedSince(k, e - w + 1))
          BY <5>1, <1>10, FS_Subset
        <5>3. l > 0 => Cardinality(PassedSince(k, e - w + 1)) <= l BY <4>1, <3>2, <1>1, <1>2 DEF Window
        <5> QED BY <4>0, <5>2, <5>3, <1>10
      <4>2. CASE b.count > 0
        <5>0. b.started + w <= x BY <4>2, <2>2, <1>2, <1>3, <1>5 DEF Traffic!Live
        <5>1. PassedWithin(k, x - w, x - 1) \in SUBSET PassedSince(k, b.started)
          BY <5>0, <1>5, <1>6 DEF PassedWithin, PassedSince
        <5>2. Cardinality(PassedWithin(k, x - w, x - 1)) <= Cardinality(PassedSince(k, b.started))
          BY <5>1, <1>10, FS_Subset
        <5>3. l > 0 => Cardinality(PassedSince(k, b.started)) <= l BY <4>2, <1>1 DEF Window
        <5> QED BY <4>0, <5>2, <5>3, <1>10
      <4> QED BY <4>1, <4>2, <1>5
    <3>8. \A c \in OfKey(k)' : c.at < x + w BY <1>7, <1>3, <1>6, <3>3
    <3>9. x \in Nat /\ x <= x /\ x < x + w /\ 1 \in Nat \ {0} BY <1>2
    <3>10. l > 0 => Cardinality(PassedSince(k, x)') <= l BY <3>6
    <3> QED BY <3>1, <3>5, <3>6, <3>7, <3>8, <3>9, <3>10
  <2> QED BY <2>1, <2>2
<1>12. Window(p, k, n)'
  <2>1. n.count > 0 /\ ~(n.count = 0) BY <1>11
  <2> QED BY <2>1, <1>1, <1>2, <1>11 DEF Window
<1>13. Bounded(p, k)'
  <2> SUFFICES ASSUME NEW t \in Int, l > 0 PROVE Cardinality(PassedWithin(k, t - w, t)') <= 2 * l
    BY <1>1, <1>2 DEF Bounded
  <2>1. CASE ~(r.passed /\ x > t - w /\ x <= t)
    <3>1. PICK u \in Int : u = t - w BY <1>2
    <3>2. PassedWithin(k, u, t)' = PassedWithin(k, u, t)
      <4>1. ~(r.passed /\ r.at > u /\ r.at <= t) BY <2>1, <3>1, <1>3
      <4> QED BY <1>7, <4>1 DEF PassedWithin
    <3>3. Cardinality(PassedWithin(k, u, t)) <= 2 * l BY <3>1, <1>1, <1>2 DEF Bounded
    <3> QED BY <3>1, <3>2, <3>3
  <2>2. CASE r.passed /\ x > t - w /\ x <= t
    <3> DEFINE A == PassedSince(k, n.started)'
               B == PassedWithin(k, n.started - w, n.started - 1)'
               S == PassedWithin(k, t - w, t)'
    <3>1. IsFiniteSet(A) /\ IsFiniteSet(B)
      <4>1. IsFiniteSet(counted') BY <1>4, FS_AddElement
      <4>2. A \in SUBSET counted' BY DEF PassedSince, OfKey
      <4>3. B \in SUBSET counted' BY DEF PassedWithin, OfKey
      <4> QED BY <4>1, <4>2, <4>3, FS_Subset
    <3>2. S \in SUBSET (A \cup B)
      <4> SUFFICES ASSUME NEW c \in S PROVE c \in A \cup B OBVIOUS
      <4>1. c \in OfKey(k)' /\ c.passed /\ c.at > t - w /\ c.at <= t BY DEF PassedWithin
      <4>2. c.at \in Int BY <4>1, <1>3, <1>6, <1>7
      <4>3. CASE c.at >= n.started BY <4>1, <4>3 DEF PassedSince
      <4>4. CASE c.at < n.started
        <5>1. c.at > n.started - w /\ c.at <= n.started - 1 BY <4>1, <4>2, <4>4, <2>2, <1>11
        <5> QED BY <5>1, <4>1 DEF PassedWithin
      <4> QED BY <4>2, <4>3, <4>4, <1>11
    <3>3. Cardinality(A) <= l /\ Cardinality(B) <= l BY <1>11
    <3> HIDE DEF A, B, S
    <3>4. /\ IsFiniteSet(A \cup B) /\ Cardinality(A \cup B) \in Nat /\ Cardinality(A) \in Nat /\ Cardinality(B) \in Nat
          /\ Cardinality(A \cup B) <= Cardinality(A) + Cardinality(B)
      <4>1. IsFiniteSet(A \cup B) BY <3>1, FS_Union
      <4>2. Cardinality(A \cup B) = Cardinality(A) + Cardinality(B) - Cardinality(A \cap B) BY <3>1, FS_Union
      <4>3. IsFiniteSet(A \cap B) BY <3>1, FS_Intersection
      <4> QED BY <4>1, <4>2, <4>3, <3>1, FS_CardinalityType
    <3>5. Cardinality(S) <= Cardinality(A \cup B) /\ Cardinality(S) \in Nat
      BY <3>2, <3>4, FS_Subset, FS_CardinalityType
    <3>6. Cardinality(S) <= 2 * l BY <3>3, <3>4, <3>5
    <3> QED BY <3>6 DEF S
  <2> QED BY <2>1, <2>2
<1> QED BY <1>12, <1>13

\* What concerns a key is bounded for as long as nothing more is counted for it.
LEMMA BoundedStays ==
    ASSUME NEW p, NEW k, Bounded(p, k), OfKey(k)' = OfKey(k) PROVE Bounded(p, k)'
<1>1. \A s, t : PassedWithin(k, s, t)' = PassedWithin(k, s, t) BY DEF PassedWithin
<1> QED BY <1>1 DEF Bounded

\* A result that is old is of a request that can arrive no more.
LEMMA LostResults ==
    ASSUME NEW p, TrafficKept(p), TrafficTypes(p), Remembered(p),
           NEW x \in DOMAIN operations, operations[x].created + p.retain < now
    PROVE  Earliest(p) > pending[x].at + p.lasts
<1>1. /\ x \in DOMAIN pending /\ pending[x].at \in Nat /\ operations[x].created \in Nat
      /\ pending[x].at <= operations[x].created + back
  BY DEF Remembered, TrafficTypes
<1> QED BY <1>1 DEF TrafficKept, TrafficTypes, Earliest

\* What a sweep leaves of the buckets.
LEMMA SweptBuckets ==
    ASSUME NEW p, TrafficKept(p), TrafficInv(p), NEW gone \in SUBSET Traffic(p)!OldKeys
    PROVE  \A k \in Traffic(p)!Keys :
               /\ Traffic(p)!Swept(buckets, gone)[k] \in [started : Nat, count : Nat]
               /\ Window(p, k, Traffic(p)!Swept(buckets, gone)[k])
<1> SUFFICES ASSUME NEW k \in Traffic(p)!Keys
             PROVE  /\ Traffic(p)!Swept(buckets, gone)[k] \in [started : Nat, count : Nat]
                    /\ Window(p, k, Traffic(p)!Swept(buckets, gone)[k])
  OBVIOUS
<1>1. buckets[k] \in [started : Nat, count : Nat] /\ Window(p, k, buckets[k]) /\ TrafficTypes(p)
  BY DEF TrafficInv, TrafficTypes
<1>2. CASE k \in gone
  <2>1. Traffic(p)!Swept(buckets, gone)[k] = Traffic(p)!Empty BY <1>2 DEF Traffic!Swept
  <2>2. Traffic(p)!Old(buckets[k]) BY <1>2 DEF Traffic!OldKeys
  <2>3. PICK b \in [started : Nat, count : Nat] : b = buckets[k] BY <1>1
  <2>4. Window(p, k, Traffic(p)!Empty) BY <1>1, <2>2, <2>3, SweptWindow
  <2>5. Traffic(p)!Empty \in [started : Nat, count : Nat] BY DEF Traffic!Empty
  <2> QED BY <2>1, <2>4, <2>5
<1>3. CASE k \notin gone
  <2>1. Traffic(p)!Swept(buckets, gone)[k] = buckets[k] BY <1>3 DEF Traffic!Swept
  <2> QED BY <2>1, <1>1
<1> QED BY <1>2, <1>3

\* check counts a message that was not counted before, in every window it concerns.
LEMMA CheckCounts ==
    ASSUME NEW p, TrafficKept(p), TrafficInv(p), NEW m, Traffic(p)!Check(m)
    PROVE  TrafficInv(p)'
<1>1. PICK gone \in SUBSET Traffic(p)!OldKeys, lost \in SUBSET Traffic(p)!OldResults :
        LET swept == Traffic(p)!Swept(buckets, gone)
            keys == Traffic(p)!KeysOf(policy, m)
            next == [k \in Traffic(p)!Keys |-> IF k \in keys THEN Traffic(p)!Counted(swept[k]) ELSE swept[k]]
            over == {k \in keys : next[k].count > Traffic(p)!Limit(k)} IN
        /\ \A k \in keys : swept[k].started <= now
        /\ buckets' = next
        /\ Traffic(p)!Save(m, IF over = {} THEN "passed" ELSE "limited", lost)
        /\ counted' = counted \cup {[keys |-> keys, message |-> m, at |-> now, passed |-> over = {}]}
  BY DEF Traffic!Check
<1> DEFINE swept == Traffic(p)!Swept(buckets, gone)
           keys == Traffic(p)!KeysOf(policy, m)
           next == [k \in Traffic(p)!Keys |-> IF k \in keys THEN Traffic(p)!Counted(swept[k]) ELSE swept[k]]
           over == {k \in keys : next[k].count > Traffic(p)!Limit(k)}
           r == [keys |-> keys, message |-> m, at |-> now, passed |-> over = {}]
<1>2. /\ TrafficTypes(p) /\ Remembered(p) /\ IsFiniteSet(counted)
      /\ m \in DOMAIN pending /\ now <= pending[m].at + p.lasts /\ m \notin DOMAIN operations
      /\ UNCHANGED <<now, back, policy, pending>>
      /\ keys \in SUBSET Traffic(p)!Keys
  BY DEF TrafficInv, TrafficTypes, Traffic!Check, Traffic!Saved, Traffic!KeysOf
<1>3. m \notin MessagesOf(counted)
  <2> SUFFICES ASSUME NEW c \in counted, c.message = m PROVE FALSE BY DEF MessagesOf
  <2>1. Earliest(p) > pending[m].at + p.lasts BY <1>2 DEF Remembered
  <2>2. Earliest(p) \in Int /\ Earliest(p) <= now BY <1>2, EarliestType
  <2>3. now \in Nat /\ p.lasts \in Nat /\ pending[m].at \in Nat BY <1>2 DEF TrafficTypes, TrafficKept
  <2> QED BY <2>1, <2>2, <2>3, <1>2
<1>4. \A k \in Traffic(p)!Keys : swept[k] \in [started : Nat, count : Nat] /\ Window(p, k, swept[k])
  BY SweptBuckets
<1>5. /\ \A k \in keys : swept[k].started <= now
      /\ buckets' = next /\ counted' = counted \cup {r}
      /\ Traffic(p)!Save(m, IF over = {} THEN "passed" ELSE "limited", lost)
  BY <1>1
<1>6. r.keys = keys /\ r.message = m /\ r.at = now /\ r.passed = (over = {}) /\ r.passed \in BOOLEAN OBVIOUS
<1>7. \A k \in Traffic(p)!Keys : next[k] = IF k \in keys THEN Traffic(p)!Counted(swept[k]) ELSE swept[k] OBVIOUS
<1>8. ASSUME NEW k \in keys, r.passed PROVE next[k].count <= Traffic(p)!Limit(k)
  <2>1. over = {} BY <1>8, <1>6
  <2>2. ~(next[k].count > Traffic(p)!Limit(k)) BY <2>1
  <2>3. Traffic(p)!Limit(k) \in Nat BY KeyLimits
  <2>4. swept[k].count \in Nat BY <1>4, <1>2
  <2>5. next[k].count \in Nat
    <3>1. next[k] = Traffic(p)!Counted(swept[k]) BY <1>2, <1>7
    <3>2. PICK b \in [started : Nat, count : Nat] : b = swept[k] BY <1>4, <1>2
    <3>3. b.count \in Nat OBVIOUS
    <3>4. Traffic(p)!Counted(b).count \in Nat BY <3>3 DEF Traffic!Counted
    <3> QED BY <3>1, <3>2, <3>4
  <2> QED BY <2>2, <2>3, <2>5
<1>9. next \in [Traffic(p)!Keys -> [started : Nat, count : Nat]]
  <2> SUFFICES ASSUME NEW k \in Traffic(p)!Keys PROVE next[k] \in [started : Nat, count : Nat] OBVIOUS
  <2>1. PICK b \in [started : Nat, count : Nat] : b = swept[k] BY <1>4
  <2>2. Traffic(p)!Counted(b) \in [started : Nat, count : Nat]
    <3>1. now \in Nat BY <1>2 DEF TrafficTypes
    <3> QED BY <3>1 DEF Traffic!Counted
  <2> QED BY <2>1, <2>2
<1> HIDE DEF swept, keys, next, over, r
<1>10. TrafficTypes(p)'
  <2>1. IsFiniteSet(counted') BY <1>2, <1>5, FS_AddElement
  <2>2. \A c \in counted' : c.at \in Nat /\ c.at <= now + back /\ c.passed \in BOOLEAN
    <3>1. now \in Nat /\ back \in Nat BY <1>2 DEF TrafficTypes, TrafficKept
    <3>2. r.at \in Nat /\ r.at <= now + back /\ r.passed \in BOOLEAN BY <1>6, <3>1
    <3>3. \A c \in counted : c.at \in Nat /\ c.at <= now + back /\ c.passed \in BOOLEAN BY <1>2 DEF TrafficTypes
    <3> QED BY <1>5, <3>2, <3>3
  <2>3. \A x \in DOMAIN operations' : operations'[x].created \in Nat
    BY <1>2, <1>5 DEF Traffic!Save, TrafficTypes
  <2> QED BY <1>2, <1>5, <1>9, <2>1, <2>2, <2>3 DEF TrafficTypes
<1>11. Remembered(p)'
  <2>1. Earliest(p)' = Earliest(p) BY <1>2 DEF Earliest
  <2>2. /\ DOMAIN operations' = (DOMAIN operations \ lost) \cup {m}
        /\ operations'[m].created = now
        /\ \A x \in DOMAIN operations \ lost : operations'[x] = operations[x]
    BY <1>2, <1>5 DEF Traffic!Save
  <2>3. pending[m].at <= now + back BY <1>2 DEF TrafficTypes
  <2>4. \A x \in DOMAIN operations' : x \in DOMAIN pending /\ pending[x].at <= operations'[x].created + back
    BY <1>2, <2>2, <2>3 DEF Remembered
  <2>5. ASSUME NEW c \in counted'
        PROVE  /\ c.message \in DOMAIN pending
               /\ c.message \in DOMAIN operations' \/ Earliest(p) > pending[c.message].at + p.lasts
    <3>1. CASE c = r BY <3>1, <1>2, <1>6, <2>2
    <3>2. CASE c \in counted
      <4>1. /\ c.message \in DOMAIN pending
            /\ c.message \in DOMAIN operations \/ Earliest(p) > pending[c.message].at + p.lasts
        BY <3>2, <1>2 DEF Remembered
      <4>2. CASE c.message \in lost
        <5>1. PICK x \in DOMAIN operations : x = c.message /\ operations[x].created + p.retain < now
          BY <4>2 DEF Traffic!OldResults
        <5>2. Earliest(p) > pending[x].at + p.lasts BY <5>1, <1>2, LostResults
        <5> QED BY <4>1, <5>1, <5>2
      <4> QED BY <4>1, <4>2, <2>2
    <3> QED BY <3>1, <3>2, <1>5
  <2> QED BY <1>2, <2>1, <2>4, <2>5 DEF Remembered
<1>12. ASSUME NEW k \in Traffic(p)!Keys PROVE Window(p, k, buckets[k])' /\ Bounded(p, k)'
  <2>0. Bounded(p, k) BY DEF TrafficInv
  <2>1. CASE k \in keys
    <3>1. PICK b \in [started : Nat, count : Nat] : b = swept[k] BY <1>4
    <3>2. PICK n : n = next[k] OBVIOUS
    <3>3. Window(p, k, b) /\ b.started <= now /\ n = Traffic(p)!Counted(b)
      BY <3>1, <3>2, <2>1, <1>4, <1>5, <1>7
    <3>4. r.passed => n.count <= Traffic(p)!Limit(k) BY <3>2, <2>1, <1>8
    <3>5. k \in r.keys /\ r.message \notin MessagesOf(counted) BY <2>1, <1>3, <1>6
    <3>6. Window(p, k, n)' /\ Bounded(p, k)'
      BY <1>2, <1>5, <1>6, <2>0, <3>3, <3>4, <3>5, CountedWindow
    <3> QED BY <3>2, <3>6, <1>5
  <2>2. CASE k \notin keys
    <3>1. OfKey(k)' = OfKey(k) BY <2>2, <1>5, <1>6 DEF OfKey
    <3>2. PICK b : b = swept[k] OBVIOUS
    <3>3. buckets'[k] = b BY <3>2, <2>2, <1>5, <1>7
    <3>4. Window(p, k, b) BY <3>2, <1>4
    <3>5. \A c \in OfKey(k) : c.at \in Nat BY <1>2 DEF TrafficTypes, OfKey
    <3>6. Earliest(p)' = Earliest(p) BY <1>2 DEF Earliest
    <3>7. Earliest(p) \in Int BY <1>2, EarliestType
    <3>8. Window(p, k, b)' BY <1>2, <3>1, <3>4, <3>5, <3>6, <3>7, WindowStays
    <3> QED BY <2>0, <3>1, <3>3, <3>8, BoundedStays
  <2> QED BY <2>1, <2>2
<1> QED BY <1>10, <1>11, <1>12 DEF TrafficInv

\* Steps that count nothing: the clock may pass, requests and results come and go.
LEMMA TrafficFrame ==
    ASSUME NEW p, TrafficKept(p), TrafficInv(p), TrafficTypes(p)', Remembered(p)',
           UNCHANGED <<buckets, counted>>, Earliest(p) <= Earliest(p)'
    PROVE  TrafficInv(p)'
<1>1. Earliest(p) \in Int BY EarliestType DEF TrafficInv
<1>2. Earliest(p)' \in Int BY DEF TrafficTypes, Earliest, TrafficKept
<1>3. ASSUME NEW k \in Traffic(p)!Keys PROVE Window(p, k, buckets[k])' /\ Bounded(p, k)'
  <2>1. Bounded(p, k) /\ Window(p, k, buckets[k]) BY DEF TrafficInv
  <2>2. OfKey(k)' = OfKey(k) BY DEF OfKey
  <2>3. IsFiniteSet(counted) /\ \A c \in OfKey(k) : c.at \in Nat BY DEF TrafficInv, TrafficTypes, OfKey
  <2>4. PICK b : b = buckets[k] OBVIOUS
  <2>5. Window(p, k, b)' BY <1>1, <1>2, <2>1, <2>2, <2>3, <2>4, WindowStays
  <2> QED BY <2>1, <2>2, <2>4, <2>5, BoundedStays
<1> QED BY <1>3 DEF TrafficInv

LEMMA MaintainKeeps ==
    ASSUME NEW p, TrafficKept(p), TrafficInv(p), Traffic(p)!Maintain PROVE TrafficInv(p)'
<1>1. PICK gone \in SUBSET Traffic(p)!OldKeys, lost \in SUBSET Traffic(p)!OldResults :
        /\ buckets' = Traffic(p)!Swept(buckets, gone)
        /\ operations' = [x \in DOMAIN operations \ lost |-> operations[x]]
  BY DEF Traffic!Maintain
<1>2. UNCHANGED <<now, back, policy, pending, counted>> /\ TrafficTypes(p) /\ Remembered(p)
  BY DEF Traffic!Maintain, TrafficInv
<1>3. Earliest(p)' = Earliest(p) /\ Earliest(p) \in Int BY <1>2, EarliestType DEF Earliest
<1>4. \A k \in Traffic(p)!Keys : buckets'[k] \in [started : Nat, count : Nat] /\ Window(p, k, buckets'[k])
  BY <1>1, SweptBuckets
<1>5. TrafficTypes(p)'
  <2>1. buckets' \in [Traffic(p)!Keys -> [started : Nat, count : Nat]] BY <1>1, <1>4 DEF Traffic!Swept
  <2>2. \A x \in DOMAIN operations' : operations'[x].created \in Nat BY <1>1, <1>2 DEF TrafficTypes
  <2> QED BY <1>2, <2>1, <2>2 DEF TrafficTypes
<1>6. Remembered(p)'
  <2>1. ASSUME NEW c \in counted
        PROVE  /\ c.message \in DOMAIN pending
               /\ c.message \in DOMAIN operations' \/ Earliest(p) > pending[c.message].at + p.lasts
    <3>1. /\ c.message \in DOMAIN pending
          /\ c.message \in DOMAIN operations \/ Earliest(p) > pending[c.message].at + p.lasts
      BY <1>2 DEF Remembered
    <3>2. CASE c.message \in lost
      <4>1. PICK x \in DOMAIN operations : x = c.message /\ operations[x].created + p.retain < now
        BY <3>2 DEF Traffic!OldResults
      <4>2. Earliest(p) > pending[x].at + p.lasts BY <4>1, <1>2, LostResults
      <4> QED BY <3>1, <4>1, <4>2
    <3> QED BY <3>1, <3>2, <1>1
  <2>2. \A x \in DOMAIN operations' : x \in DOMAIN pending /\ pending[x].at <= operations'[x].created + back
    BY <1>1, <1>2 DEF Remembered
  <2> QED BY <1>2, <1>3, <2>1, <2>2 DEF Remembered
<1>7. ASSUME NEW k \in Traffic(p)!Keys PROVE Window(p, k, buckets[k])' /\ Bounded(p, k)'
  <2>1. PICK b : b = buckets'[k] OBVIOUS
  <2>2. Window(p, k, b) /\ Bounded(p, k) BY <2>1, <1>4 DEF TrafficInv
  <2>3. OfKey(k)' = OfKey(k) BY <1>2 DEF OfKey
  <2>4. IsFiniteSet(counted) /\ \A c \in OfKey(k) : c.at \in Nat BY <1>2 DEF TrafficTypes, OfKey
  <2>5. Window(p, k, b)' BY <1>3, <2>2, <2>3, <2>4, WindowStays
  <2> QED BY <2>1, <2>2, <2>3, <2>5, BoundedStays
<1> QED BY <1>5, <1>6, <1>7 DEF TrafficInv

LEMMA TrafficStep ==
    ASSUME NEW p, TrafficKept(p), TrafficInv(p), [Traffic(p)!Next]_(Traffic(p)!vars)
    PROVE  TrafficInv(p)'
<1>0. TrafficTypes(p) /\ Remembered(p) /\ Earliest(p) \in Int BY EarliestType DEF TrafficInv
<1>1. ASSUME NEW m, Traffic(p)!Ask(m) PROVE TrafficInv(p)'
  <2>1. /\ UNCHANGED <<now, back, policy, buckets, operations, counted>> /\ m \notin DOMAIN pending
        /\ pending' = [x \in DOMAIN pending \cup {m} |->
                         IF x = m THEN [policy |-> policy, at |-> now] ELSE pending[x]]
    BY <1>1 DEF Traffic!Ask
  <2>2. /\ DOMAIN pending' = DOMAIN pending \cup {m} /\ pending'[m].at = now
        /\ \A x \in DOMAIN pending : pending'[x] = pending[x]
    BY <2>1
  <2>3. TrafficTypes(p)'
    <3>1. now \in Nat /\ now <= now + back BY <1>0 DEF TrafficTypes, TrafficKept
    <3>2. \A x \in DOMAIN pending' : pending'[x].at \in Nat /\ pending'[x].at <= now + back
      BY <1>0, <2>2, <3>1 DEF TrafficTypes
    <3> QED BY <1>0, <2>1, <3>2 DEF TrafficTypes
  <2>4. Remembered(p)' /\ Earliest(p)' = Earliest(p)
    BY <1>0, <2>1, <2>2 DEF Remembered, Earliest
  <2> QED BY <1>0, <2>1, <2>3, <2>4, TrafficFrame
<1>2. ASSUME NEW m, Traffic(p)!Answer(m) PROVE TrafficInv(p)'
  <2>1. UNCHANGED <<now, back, policy, buckets, operations, pending, counted>> BY <1>2 DEF Traffic!Answer
  <2>2. TrafficTypes(p)' /\ Remembered(p)' /\ Earliest(p)' = Earliest(p)
    BY <1>0, <2>1 DEF TrafficTypes, Remembered, Earliest
  <2> QED BY <1>0, <2>1, <2>2, TrafficFrame
<1>3. ASSUME Traffic(p)!Activate PROVE TrafficInv(p)'
  <2>1. UNCHANGED <<now, back, buckets, operations, pending, counted>> /\ policy' \in 1..p.maxPolicy
    BY <1>3 DEF Traffic!Activate
  <2>2. TrafficTypes(p)' /\ Remembered(p)' /\ Earliest(p)' = Earliest(p)
    BY <1>0, <2>1 DEF TrafficTypes, Remembered, Earliest
  <2> QED BY <1>0, <2>1, <2>2, TrafficFrame
<1>4. ASSUME Traffic(p)!Clock PROVE TrafficInv(p)'
  <2>1. /\ UNCHANGED <<policy, buckets, operations, pending, counted>>
        /\ now' \in Nat /\ back' \in 0..p.maxBack /\ now + back <= now' + back' /\ back <= back'
    BY <1>0, <1>4 DEF Traffic!Clock, TrafficTypes, TrafficKept
  <2>2. now \in Nat /\ back \in Nat /\ p.maxBack \in Nat /\ back' \in Nat
    BY <1>0, <2>1 DEF TrafficTypes, TrafficKept
  <2>3. Earliest(p) <= Earliest(p)' /\ Earliest(p)' \in Int
    <3>1. Earliest(p)' = now' + back' - p.maxBack /\ Earliest(p) = now + back - p.maxBack BY DEF Earliest
    <3>2. PICK a, b, c, d, e \in Nat : a = now /\ b = back /\ c = now' /\ d = back' /\ e = p.maxBack BY <2>1, <2>2
    <3>3. a + b <= c + d BY <2>1, <3>2
    <3>4. a + b - e <= c + d - e /\ c + d - e \in Int BY <3>3
    <3> QED BY <3>1, <3>2, <3>4
  <2>4. TrafficTypes(p)'
    <3>1. \A c \in counted : c.at <= now' + back' BY <1>0, <2>1, <2>2 DEF TrafficTypes
    <3>2. \A x \in DOMAIN pending : pending[x].at <= now' + back' BY <1>0, <2>1, <2>2 DEF TrafficTypes
    <3> QED BY <1>0, <2>1, <3>1, <3>2 DEF TrafficTypes
  <2>5. Remembered(p)'
    <3>1. \A x \in DOMAIN operations : pending[x].at <= operations[x].created + back'
      BY <1>0, <2>1, <2>2 DEF Remembered, TrafficTypes
    <3>2. \A c \in counted : /\ c.message \in DOMAIN pending
                             /\ c.message \in DOMAIN operations \/ Earliest(p)' > pending[c.message].at + p.lasts
      BY <1>0, <2>3 DEF Remembered, TrafficTypes, TrafficKept
    <3> QED BY <1>0, <2>1, <3>1, <3>2 DEF Remembered
  <2> QED BY <1>0, <2>1, <2>3, <2>4, <2>5, TrafficFrame
<1>5. ASSUME UNCHANGED Traffic(p)!vars PROVE TrafficInv(p)'
  <2>1. UNCHANGED <<now, back, policy, buckets, operations, pending, counted>> BY <1>5 DEF Traffic!vars
  <2>2. TrafficTypes(p)' /\ Remembered(p)' /\ Earliest(p)' = Earliest(p)
    BY <1>0, <2>1 DEF TrafficTypes, Remembered, Earliest
  <2> QED BY <1>0, <2>1, <2>2, TrafficFrame
<1> QED BY <1>1, <1>2, <1>3, <1>4, <1>5, CheckCounts, MaintainKeeps DEF Traffic!Next

\* A message is counted once per limit, no stretch of a window's length lets more pass
\* than two windows allow, and a recipient is deferred early only while the limit is
\* reached (src/traffic.rs, check), for every limit, window and time of retention.
THEOREM TrafficLimited ==
    ASSUME NEW p, TrafficKept(p)
    PROVE  Traffic(p)!Spec =>
               [](Traffic(p)!CountedOnce /\ Traffic(p)!PassesBounded /\ Traffic(p)!EarlyEnds)
<1>1. Traffic(p)!Init => TrafficInv(p) BY TrafficInit
<1>2. TrafficInv(p) /\ [Traffic(p)!Next]_(Traffic(p)!vars) => TrafficInv(p)' BY TrafficStep
<1>3. TrafficInv(p) => Traffic(p)!CountedOnce /\ Traffic(p)!PassesBounded /\ Traffic(p)!EarlyEnds
  BY TrafficImplies
<1> QED BY <1>1, <1>2, <1>3, PTL DEF Traffic!Spec

LEMMA MessagesKept == TrafficKept(ThreeMessages) /\ TrafficKept(TwoPolicies)
BY DEF TrafficKept, ThreeMessages, TwoPolicies

\* Both instances of the traffic limits: counted once, bounded in every window, and
\* deferred early only while the limit is reached (src/traffic.rs, check).
THEOREM TrafficProved == Spec => []TrafficSafe
<1> DEFINE R == /\ Chosen("traffic") => TrafficInv(ThreeMessages)
                /\ Chosen("activations") => TrafficInv(TwoPolicies)
<1>1. Init => R BY MessagesKept, TrafficInit DEF Init, Chosen
<1>2. R /\ [Next]_vars => R'
  <2> SUFFICES ASSUME R, [Next]_vars PROVE R' OBVIOUS
  <2>1. ASSUME Chosen("traffic") PROVE TrafficInv(ThreeMessages)'
    <3>1. [Traffic(ThreeMessages)!Next]_(Traffic(ThreeMessages)!vars)
      BY <2>1 DEF Next, vars, Traffic!vars, Chosen
    <3> QED BY <2>1, <3>1, MessagesKept, TrafficStep
  <2>2. ASSUME Chosen("activations") PROVE TrafficInv(TwoPolicies)'
    <3>1. [Traffic(TwoPolicies)!Next]_(Traffic(TwoPolicies)!vars)
      BY <2>2 DEF Next, vars, Traffic!vars, Chosen
    <3> QED BY <2>2, <3>1, MessagesKept, TrafficStep
  <2> QED BY <2>1, <2>2, ChoiceStep
<1>3. R => TrafficSafe BY MessagesKept, TrafficImplies DEF TrafficSafe, Chosen
<1> QED BY <1>1, <1>2, <1>3, PTL DEF Spec

-----------------------------------------------------------------------------
(* The analysis of one message                                              *)

\* A list that names nobody twice.
NamesOnce(e) ==
    /\ Len(e) \in Nat /\ DOMAIN e = 1..Len(e) /\ e \in Seq({e[n] : n \in 1..Len(e)})
    /\ \A m, n \in 1..Len(e) : e[m] = e[n] => m = n

\* What the theorems ask of the constants: an envelope names a recipient once (RCPT,
\* src/smtp.rs, pushes an address only when it is not there yet), and a variant holds
\* at least one.
AnalysisKept(p) ==
    /\ NamesOnce(p.recipients)
    /\ p.perVariant \in Nat \ {0} /\ p.domains \in Nat /\ p.usesLlm \in BOOLEAN

Ended == {"finding", "clean", "unavailable"}
Named(p) == {p.recipients[n] : n \in 1..Len(p.recipients)}

\* Before the LLM is asked, before a result is decided, and after.
EarlyPlaces == {"inspect", "parallel", "history", "ip", "domains"}
LaterPlaces == {"lost", "render", "done", "deferred"}
AnalysisPlaces == EarlyPlaces \cup {"advise", "unauthenticated", "contacts"} \cup LaterPlaces

AnalysisScans ==
    [complete : BOOLEAN,
     votes : [{"auth", "policy", "ip", "domain", "llm"} -> 0..1],
     scored : [{"auth", "policy", "ip", "domain", "llm"} -> 0..1],
     policy : Ended \cup {"none"}, llm : Ended \cup {"none"}, wanted : BOOLEAN,
     ip : BOOLEAN, ready : BOOLEAN, content : BOOLEAN, sealable : BOOLEAN]

AnalysisTypes(p) ==
    /\ pc \in AnalysisPlaces
    /\ auth \in SUBSET {"arc", "dkim", "spf", "dmarc", "all", "ended"}
    /\ slots \in [policy : Ended \cup {"none", "taken"}, llm : Ended \cup {"none", "taken"},
                  providers : BOOLEAN]
    /\ scan \in AnalysisScans
    /\ looked \in 0..p.domains
    /\ fallback \in BOOLEAN

\* A vote has its check behind it, and a slot is emptied where its result is applied.
VotesBacked ==
    /\ "all" \in auth => "ended" \in auth
    /\ scan.votes["auth"] = 1 => "all" \in auth
    /\ IF slots.policy = "taken"
       THEN /\ scan.policy \in Ended
            /\ scan.votes["policy"] = (IF scan.policy = "finding" THEN 1 ELSE 0)
       ELSE scan.votes["policy"] = 0
    /\ scan.votes["ip"] = 1 => scan.ip
    /\ scan.votes["llm"] = 1 => slots.llm = "taken" /\ scan.wanted
    /\ slots.llm = "taken" => scan.llm \in Ended
    /\ pc \in {"inspect", "parallel", "history", "ip"} => scan.votes["ip"] = 0
    /\ pc \in EarlyPlaces => scan.votes["domain"] = 0

SlotsFollow ==
    /\ pc = "inspect" => slots.policy = "none"
    /\ pc = "parallel" => slots.policy # "taken"
    /\ pc \in {"history", "ip", "domains", "advise", "unauthenticated", "contacts"} => slots.policy = "taken"
    /\ pc \in LaterPlaces => slots.policy \notin Ended
    /\ pc \in EarlyPlaces => slots.llm = "none"
    /\ pc = "advise" => slots.llm # "taken" /\ (slots.llm \in Ended => scan.wanted)
    /\ pc \in {"unauthenticated", "contacts"} \cup LaterPlaces => slots.llm \notin Ended

ScoreKept ==
    pc \in {"advise", "unauthenticated", "contacts", "render", "done"} => scan.scored = scan.votes

\* What a complete scan has seen, place by place.
CompleteKept ==
    /\ pc = "inspect" => scan.complete /\ auth = {}
    /\ pc \in {"history", "ip", "domains", "advise", "unauthenticated", "contacts"} /\ scan.complete =>
        "all" \in auth /\ scan.policy \in {"finding", "clean"}
    /\ pc \in {"domains", "advise", "unauthenticated", "contacts"} /\ scan.complete => scan.ip
    /\ pc \in {"unauthenticated", "contacts"} /\ scan.complete /\ scan.wanted =>
        scan.llm \in {"finding", "clean"}
    /\ pc \in EarlyPlaces \cup {"advise"} => ~scan.content
    /\ pc = "contacts" => "all" \in auth
    /\ pc \in LaterPlaces /\ scan.complete =>
        /\ "all" \in auth /\ scan.policy \in {"finding", "clean"} /\ scan.ip
        /\ scan.wanted => scan.llm \in {"finding", "clean"}

\* A tag needs a chain that can be sealed; nothing is rendered before its time.
TagsKept(p) ==
    /\ pc \in AnalysisPlaces \ {"render", "done", "deferred"} =>
        /\ variants = << >> /\ pending = p.recipients /\ ~fallback /\ ~scan.ready
    /\ scan.ready => scan.sealable /\ "all" \in auth /\ ~fallback
    /\ pc = "deferred" => variants = << >>
    /\ pc = "done" => pending = << >>
    /\ \A i \in DOMAIN variants : variants[i].tag => scan.ready

RenderedVariants(p) ==
    [key : {p.keyOf[x] : x \in Named(p)}, to : Seq(Named(p)), tag : BOOLEAN]

\* How many recipients are rendered.
Served(p) == Len(p.recipients) - Len(pending)

\* Those who are not rendered yet wait in the envelope's order.
EnvelopeOrder(p) ==
    /\ pending \in Seq(Named(p)) /\ Len(pending) <= Len(p.recipients)
    /\ \A m \in 1..Len(pending) : pending[m] = p.recipients[Served(p) + m]

\* A variant has recipients of its outcome among those rendered, and not too many.
VariantsFilled(p) ==
    /\ variants \in Seq(RenderedVariants(p))
    /\ \A i \in 1..Len(variants) :
        /\ Len(variants[i].to) \in 1..p.perVariant
        /\ Len(variants[i].to) <= Served(p)
        /\ \A j \in 1..Len(variants[i].to) :
            /\ p.keyOf[variants[i].to[j]] = variants[i].key
            /\ \E n \in 1..Served(p) : variants[i].to[j] = p.recipients[n]

OnePlaceEach ==
    \A h, i \in 1..Len(variants) : \A j \in 1..Len(variants[h].to), k \in 1..Len(variants[i].to) :
        variants[h].to[j] = variants[i].to[k] => h = i /\ j = k

NobodyLeftOut(p) ==
    pc # "deferred" =>
        \A n \in 1..Served(p) : \E i \in 1..Len(variants) : \E j \in 1..Len(variants[i].to) :
            variants[i].to[j] = p.recipients[n]

PlacesKept(p) == EnvelopeOrder(p) /\ VariantsFilled(p) /\ OnePlaceEach /\ NobodyLeftOut(p)

AnalysisInv(p) ==
    /\ AnalysisTypes(p) /\ VotesBacked /\ SlotsFollow /\ ScoreKept /\ CompleteKept
    /\ TagsKept(p) /\ PlacesKept(p)

LEMMA AnalysisInit ==
    ASSUME NEW p, AnalysisKept(p), Analysis(p)!Init PROVE AnalysisInv(p)
<1>1. /\ pc = "inspect" /\ auth = {} /\ looked = 0 /\ fallback = FALSE
      /\ pending = p.recipients /\ variants = << >>
      /\ slots = [policy |-> "none", llm |-> "none", providers |-> FALSE]
  BY DEF Analysis!Init
<1>2. PICK v : v = Analysis(p)!NoVotes OBVIOUS
<1>3. v \in [{"auth", "policy", "ip", "domain", "llm"} -> 0..1] /\ \A k \in {"auth", "policy", "ip", "domain", "llm"} : v[k] = 0
  BY <1>2 DEF Analysis!NoVotes, Analysis!Checks
<1>4. scan = [complete |-> TRUE, votes |-> v, scored |-> v, policy |-> "none",
              llm |-> "none", wanted |-> FALSE, ip |-> FALSE, ready |-> FALSE,
              content |-> FALSE, sealable |-> FALSE]
  BY <1>2 DEF Analysis!Init
<1>5. scan \in AnalysisScans BY <1>3, <1>4 DEF AnalysisScans, Ended
<1>6. /\ scan.complete /\ scan.votes = v /\ scan.scored = v /\ ~scan.ready /\ ~scan.content
      /\ slots.policy = "none" /\ slots.llm = "none"
  BY <1>1, <1>4
<1>7. AnalysisTypes(p)
  <2>1. looked \in 0..p.domains BY <1>1 DEF AnalysisKept
  <2>2. slots \in [policy : Ended \cup {"none", "taken"}, llm : Ended \cup {"none", "taken"},
                   providers : BOOLEAN]
    BY <1>1 DEF Ended
  <2>3. pc \in AnalysisPlaces BY <1>1 DEF AnalysisPlaces, EarlyPlaces
  <2>4. auth \in SUBSET {"arc", "dkim", "spf", "dmarc", "all", "ended"} BY <1>1
  <2>5. fallback \in BOOLEAN BY <1>1
  <2> QED BY <1>5, <2>1, <2>2, <2>3, <2>4, <2>5 DEF AnalysisTypes
<1>8. VotesBacked BY <1>1, <1>3, <1>6 DEF VotesBacked, EarlyPlaces
<1>9. SlotsFollow BY <1>1, <1>6 DEF SlotsFollow, EarlyPlaces, LaterPlaces
<1>10. ScoreKept BY <1>1 DEF ScoreKept
<1>11. CompleteKept BY <1>1, <1>6 DEF CompleteKept, EarlyPlaces, LaterPlaces
<1>12. TagsKept(p) BY <1>1, <1>6 DEF TagsKept
<1>13. PlacesKept(p)
  <2>1. Served(p) = 0 BY <1>1 DEF Served, AnalysisKept, NamesOnce
  <2>2. Len(variants) = 0 /\ DOMAIN variants = 1..0 BY <1>1
  <2>3. variants \in Seq(RenderedVariants(p)) BY <1>1
  <2>4. EnvelopeOrder(p) BY <1>1, <2>1 DEF EnvelopeOrder, AnalysisKept, NamesOnce, Named
  <2>5. VariantsFilled(p) BY <2>2, <2>3 DEF VariantsFilled
  <2>6. OnePlaceEach /\ NobodyLeftOut(p) BY <2>1, <2>2 DEF OnePlaceEach, NobodyLeftOut
  <2> QED BY <2>4, <2>5, <2>6 DEF PlacesKept
<1> QED BY <1>7, <1>8, <1>9, <1>10, <1>11, <1>12, <1>13 DEF AnalysisInv

\* What no check disturbs.
LEMMA PlacesStay ==
    ASSUME NEW p, PlacesKept(p), UNCHANGED <<pending, variants>>, pc' # "deferred" => pc # "deferred"
    PROVE  PlacesKept(p)'
<1>1. Served(p)' = Served(p) BY DEF Served
<1>2. RenderedVariants(p)' = RenderedVariants(p) /\ Named(p)' = Named(p) BY DEF RenderedVariants, Named
<1>3. EnvelopeOrder(p)' BY <1>1, <1>2 DEF PlacesKept, EnvelopeOrder
<1>4. VariantsFilled(p)' BY <1>1, <1>2 DEF PlacesKept, VariantsFilled
<1>5. OnePlaceEach' BY DEF PlacesKept, OnePlaceEach
<1>6. NobodyLeftOut(p)' BY <1>1 DEF PlacesKept, NobodyLeftOut
<1> QED BY <1>3, <1>4, <1>5, <1>6 DEF PlacesKept

BeforeRender == EarlyPlaces \cup {"advise", "unauthenticated", "contacts", "lost"}

LEMMA TagsStay ==
    ASSUME NEW p, TagsKept(p), UNCHANGED <<pending, variants, fallback>>,
           pc \in BeforeRender, pc' \in BeforeRender, scan'.ready = scan.ready
    PROVE  TagsKept(p)'
<1>1. variants = << >> /\ pending = p.recipients /\ ~fallback /\ ~scan.ready
  BY DEF TagsKept, BeforeRender, AnalysisPlaces, EarlyPlaces, LaterPlaces
<1>2. ~scan'.ready BY <1>1
<1>3. pc' \notin {"render", "done", "deferred"} BY DEF BeforeRender, EarlyPlaces
<1> QED BY <1>1, <1>2, <1>3 DEF TagsKept

\* A scan that keeps its type and changes only its completeness.
LEMMA ScanTyped ==
    ASSUME NEW s \in AnalysisScans
    PROVE  /\ s.complete \in BOOLEAN /\ s.wanted \in BOOLEAN /\ s.ip \in BOOLEAN /\ s.ready \in BOOLEAN
           /\ s.content \in BOOLEAN /\ s.sealable \in BOOLEAN
           /\ s.policy \in Ended \cup {"none"} /\ s.llm \in Ended \cup {"none"}
           /\ s.votes \in [{"auth", "policy", "ip", "domain", "llm"} -> 0..1]
           /\ s.scored \in [{"auth", "policy", "ip", "domain", "llm"} -> 0..1]
BY DEF AnalysisScans

LEMMA InspectKeeps ==
    ASSUME NEW p, AnalysisKept(p), AnalysisInv(p), Analysis(p)!Inspect PROVE AnalysisInv(p)'
<1>1. PICK s \in AnalysisScans : s = scan BY DEF AnalysisInv, AnalysisTypes
<1>2. PICK complete \in BOOLEAN, readable \in BOOLEAN :
        /\ ~readable => ~complete
        /\ scan' = [s EXCEPT !.complete = complete]
        /\ pc' = IF readable THEN "parallel" ELSE "lost"
  BY <1>1 DEF Analysis!Inspect
<1>3. /\ scan' \in AnalysisScans /\ scan'.complete = complete /\ scan'.votes = scan.votes
      /\ scan'.policy = scan.policy /\ scan'.llm = scan.llm /\ scan'.wanted = scan.wanted
      /\ scan'.ip = scan.ip /\ scan'.ready = scan.ready /\ scan'.content = scan.content
  BY <1>1, <1>2 DEF AnalysisScans
<1>4. pc = "inspect" /\ UNCHANGED <<auth, slots, looked, fallback, pending, variants>>
  BY DEF Analysis!Inspect
<1>5. AnalysisTypes(p)'
  BY <1>2, <1>3, <1>4 DEF AnalysisInv, AnalysisTypes, AnalysisPlaces, EarlyPlaces, LaterPlaces
<1>6. VotesBacked' BY <1>2, <1>3, <1>4 DEF AnalysisInv, VotesBacked, EarlyPlaces
<1>7. SlotsFollow' BY <1>2, <1>4 DEF AnalysisInv, SlotsFollow, EarlyPlaces, LaterPlaces, Ended
<1>8. ScoreKept' BY <1>2 DEF ScoreKept
<1>9. CompleteKept'
  BY <1>2, <1>3, <1>4 DEF AnalysisInv, CompleteKept, EarlyPlaces, LaterPlaces
<1>10. TagsKept(p)' BY <1>2, <1>3, <1>4, TagsStay DEF AnalysisInv, BeforeRender, EarlyPlaces
<1>11. PlacesKept(p)' BY <1>2, <1>4, PlacesStay DEF AnalysisInv
<1> QED BY <1>5, <1>6, <1>7, <1>8, <1>9, <1>10, <1>11 DEF AnalysisInv

LEMMA AuthenticateKeeps ==
    ASSUME NEW p, AnalysisKept(p), AnalysisInv(p), Analysis(p)!Authenticate PROVE AnalysisInv(p)'
<1>1. PICK s \in AnalysisScans : s = scan BY DEF AnalysisInv, AnalysisTypes
<1>2. PICK stage \in {"arc", "dkim", "spf", "dmarc"}, ok \in BOOLEAN :
        IF ~ok THEN auth' = auth \cup {"ended"} /\ UNCHANGED scan
        ELSE IF stage # "dmarc"
        THEN /\ auth' = auth \cup {stage}
             /\ \E seal \in BOOLEAN :
                  scan' = IF stage = "arc" THEN [scan EXCEPT !.sealable = seal] ELSE scan
        ELSE /\ auth' = auth \cup {"dmarc", "all", "ended"}
             /\ \E fails \in BOOLEAN :
                  scan' = [scan EXCEPT !.votes["auth"] = @ + (IF fails THEN 1 ELSE 0)]
  BY DEF Analysis!Authenticate
<1>3. /\ pc = "parallel" /\ "ended" \notin auth
      /\ UNCHANGED <<pc, slots, looked, fallback, pending, variants>>
  BY DEF Analysis!Authenticate
<1>4. s.votes["auth"] = 0 /\ "all" \notin auth
  BY <1>1, <1>3, ScanTyped DEF AnalysisInv, VotesBacked
<1>5. /\ auth' \in SUBSET {"arc", "dkim", "spf", "dmarc", "all", "ended"}
      /\ "all" \in auth' => "ended" \in auth'
  BY <1>2, <1>4 DEF AnalysisInv, AnalysisTypes
<1>6. /\ scan' \in AnalysisScans /\ scan'.complete = scan.complete
      /\ scan'.policy = scan.policy /\ scan'.llm = scan.llm /\ scan'.wanted = scan.wanted
      /\ scan'.ip = scan.ip /\ scan'.ready = scan.ready /\ scan'.content = scan.content
      /\ \A k \in {"policy", "ip", "domain", "llm"} : scan'.votes[k] = scan.votes[k]
      /\ scan'.votes["auth"] = 1 => "all" \in auth'
  <2>1. CASE scan' = scan BY <1>1, <1>4, <2>1
  <2>2. ASSUME NEW seal \in BOOLEAN, scan' = [s EXCEPT !.sealable = seal] PROVE <1>6!:
    <3>1. scan'.votes = s.votes BY <2>2 DEF AnalysisScans
    <3>2. scan' \in AnalysisScans BY <2>2 DEF AnalysisScans
    <3> QED BY <1>1, <1>4, <2>2, <3>1, <3>2 DEF AnalysisScans
  <2>3. ASSUME NEW fails \in BOOLEAN, "all" \in auth',
               scan' = [s EXCEPT !.votes["auth"] = @ + (IF fails THEN 1 ELSE 0)]
        PROVE  <1>6!:
    <3>1. PICK v : v = [s.votes EXCEPT !["auth"] = @ + (IF fails THEN 1 ELSE 0)] OBVIOUS
    <3>2. /\ v \in [{"auth", "policy", "ip", "domain", "llm"} -> 0..1]
          /\ \A k \in {"policy", "ip", "domain", "llm"} : v[k] = s.votes[k]
      BY <3>1, <1>4, ScanTyped
    <3>3. scan' = [s EXCEPT !.votes = v] BY <2>3, <3>1
    <3>4. scan' \in AnalysisScans /\ scan'.votes = v BY <3>2, <3>3 DEF AnalysisScans
    <3> QED BY <1>1, <2>3, <3>2, <3>3, <3>4 DEF AnalysisScans
  <2> QED BY <1>1, <1>2, <2>1, <2>2, <2>3
<1>7. AnalysisTypes(p)' BY <1>3, <1>5, <1>6 DEF AnalysisInv, AnalysisTypes
<1>8. VotesBacked' BY <1>3, <1>5, <1>6 DEF AnalysisInv, VotesBacked
<1>9. SlotsFollow' BY <1>3, <1>6 DEF AnalysisInv, SlotsFollow, LaterPlaces
<1>10. ScoreKept' BY <1>3 DEF ScoreKept
<1>11. CompleteKept' BY <1>3, <1>6 DEF AnalysisInv, CompleteKept, EarlyPlaces, LaterPlaces
<1>12. TagsKept(p)' BY <1>3, <1>6, TagsStay DEF AnalysisInv, BeforeRender, EarlyPlaces
<1>13. PlacesKept(p)' BY <1>3, PlacesStay DEF AnalysisInv
<1> QED BY <1>7, <1>8, <1>9, <1>10, <1>11, <1>12, <1>13 DEF AnalysisInv

\* The timeout of authentication, the end of the SMTP policy, of the providers or of
\* the LLM: the scan is as it was.
LEMMA AuthTimeoutKeeps ==
    ASSUME NEW p, AnalysisKept(p), AnalysisInv(p), Analysis(p)!AuthTimeout PROVE AnalysisInv(p)'
<1>1. /\ pc = "parallel" /\ auth' = auth \cup {"ended"}
      /\ UNCHANGED <<pc, slots, looked, scan, fallback, pending, variants>>
  BY DEF Analysis!AuthTimeout
<1>2. AnalysisTypes(p)' BY <1>1 DEF AnalysisInv, AnalysisTypes
<1>3. VotesBacked' BY <1>1 DEF AnalysisInv, VotesBacked
<1>4. SlotsFollow' BY <1>1 DEF AnalysisInv, SlotsFollow
<1>5. ScoreKept' BY <1>1 DEF ScoreKept
<1>6. CompleteKept' BY <1>1 DEF AnalysisInv, CompleteKept, LaterPlaces
<1>7. TagsKept(p)' BY <1>1, TagsStay DEF AnalysisInv, BeforeRender, EarlyPlaces
<1>8. PlacesKept(p)' BY <1>1, PlacesStay DEF AnalysisInv
<1> QED BY <1>2, <1>3, <1>4, <1>5, <1>6, <1>7, <1>8 DEF AnalysisInv

LEMMA SlotFills ==
    ASSUME NEW p, AnalysisKept(p), AnalysisInv(p),
           Analysis(p)!PolicyEnds \/ Analysis(p)!ProvidersEnd \/ Analysis(p)!LlmEnds
    PROVE  AnalysisInv(p)'
<1> DEFINE Slots == [policy : Ended \cup {"none", "taken"}, llm : Ended \cup {"none", "taken"},
                     providers : BOOLEAN]
<1>1. PICK t \in Slots : t = slots BY DEF AnalysisInv, AnalysisTypes
<1>2. UNCHANGED <<pc, auth, looked, scan, fallback, pending, variants>> /\ pc \in {"parallel", "advise"}
  BY DEF Analysis!PolicyEnds, Analysis!ProvidersEnd, Analysis!LlmEnds
<1>3. /\ slots' \in Slots
      /\ \/ /\ pc = "parallel" /\ slots'.policy \in Ended /\ slots'.llm = slots.llm
            /\ slots.policy = "none"
         \/ pc = "advise" /\ slots'.policy = slots.policy /\ slots'.llm = slots.llm
         \/ /\ pc = "advise" /\ scan.wanted /\ slots'.policy = slots.policy
            /\ slots'.llm \in Ended /\ slots.llm = "none"
  <2>1. ASSUME Analysis(p)!PolicyEnds PROVE <1>3!:
    <3>1. PICK r \in Ended : slots' = [t EXCEPT !.policy = r]
      BY <1>1, <2>1 DEF Analysis!PolicyEnds, Analysis!Results, Ended
    <3>2. slots' \in Slots /\ slots'.policy = r /\ slots'.llm = t.llm BY <3>1
    <3> QED BY <1>1, <2>1, <3>2 DEF Analysis!PolicyEnds
  <2>2. ASSUME Analysis(p)!ProvidersEnd PROVE <1>3!:
    <3>1. slots' = [t EXCEPT !.providers = TRUE] BY <1>1, <2>2 DEF Analysis!ProvidersEnd
    <3>2. slots' \in Slots /\ slots'.policy = t.policy /\ slots'.llm = t.llm BY <3>1
    <3> QED BY <1>1, <2>2, <3>2 DEF Analysis!ProvidersEnd
  <2>3. ASSUME Analysis(p)!LlmEnds PROVE <1>3!:
    <3>1. PICK r \in Ended : slots' = [t EXCEPT !.llm = r]
      BY <1>1, <2>3 DEF Analysis!LlmEnds, Analysis!Results, Ended
    <3>2. slots' \in Slots /\ slots'.llm = r /\ slots'.policy = t.policy BY <3>1
    <3> QED BY <1>1, <2>3, <3>2 DEF Analysis!LlmEnds
  <2> QED BY <2>1, <2>2, <2>3
<1>4. AnalysisTypes(p)' BY <1>2, <1>3 DEF AnalysisInv, AnalysisTypes
<1>5. VotesBacked' BY <1>2, <1>3 DEF AnalysisInv, VotesBacked, Ended
<1>6. SlotsFollow' BY <1>2, <1>3 DEF AnalysisInv, SlotsFollow, EarlyPlaces, LaterPlaces, Ended
<1>7. ScoreKept' BY <1>2 DEF AnalysisInv, ScoreKept
<1>8. CompleteKept' BY <1>2 DEF AnalysisInv, CompleteKept
<1>9. TagsKept(p)' BY <1>2, TagsStay DEF AnalysisInv, BeforeRender, EarlyPlaces
<1>10. PlacesKept(p)' BY <1>2, PlacesStay DEF AnalysisInv
<1> QED BY <1>4, <1>5, <1>6, <1>7, <1>8, <1>9, <1>10 DEF AnalysisInv

\* What applying a result, or a score, does to a scan.
LEMMA PolicyApplied ==
    ASSUME NEW p, NEW s \in AnalysisScans, NEW r \in Ended, s.votes["policy"] = 0
    PROVE  LET w == Analysis(p)!WithPolicy(s, r) IN
           /\ w \in AnalysisScans /\ w.policy = r /\ (w.complete <=> s.complete /\ r # "unavailable")
           /\ w.votes["policy"] = (IF r = "finding" THEN 1 ELSE 0)
           /\ \A k \in {"auth", "ip", "domain", "llm"} : w.votes[k] = s.votes[k]
           /\ w.llm = s.llm /\ w.wanted = s.wanted /\ w.ip = s.ip /\ w.ready = s.ready
           /\ w.content = s.content /\ w.sealable = s.sealable
<1>1. PICK v : v = [s.votes EXCEPT !["policy"] = @ + (IF r = "finding" THEN 1 ELSE 0)] OBVIOUS
<1>2. /\ v \in [{"auth", "policy", "ip", "domain", "llm"} -> 0..1]
      /\ v["policy"] = (IF r = "finding" THEN 1 ELSE 0)
      /\ \A k \in {"auth", "ip", "domain", "llm"} : v[k] = s.votes[k]
  BY <1>1, ScanTyped
<1>3. PICK b \in BOOLEAN : b = (s.complete /\ r # "unavailable") BY ScanTyped
<1>4. PICK w : w = Analysis(p)!WithPolicy(s, r) OBVIOUS
<1>5. w = [s EXCEPT !.policy = r, !.complete = b, !.votes = v]
  BY <1>1, <1>3, <1>4 DEF Analysis!WithPolicy
<1>6. w \in AnalysisScans BY <1>2, <1>5 DEF AnalysisScans
<1>7. /\ w.policy = r /\ w.complete = b /\ w.votes = v
      /\ w.llm = s.llm /\ w.wanted = s.wanted /\ w.ip = s.ip /\ w.ready = s.ready
      /\ w.content = s.content /\ w.sealable = s.sealable
  BY <1>5 DEF AnalysisScans
<1> QED BY <1>2, <1>3, <1>4, <1>6, <1>7

LEMMA LlmApplied ==
    ASSUME NEW p, NEW s \in AnalysisScans, NEW r \in Ended
    PROVE  LET w == Analysis(p)!WithLlm(s, r) IN
           /\ w \in AnalysisScans /\ w.llm = r /\ (w.complete <=> s.complete /\ r # "unavailable")
           /\ \A k \in {"auth", "policy", "ip", "domain"} : w.votes[k] = s.votes[k]
           /\ w.policy = s.policy /\ w.wanted = s.wanted /\ w.ip = s.ip /\ w.ready = s.ready
           /\ w.content = s.content /\ w.sealable = s.sealable
<1>1. PICK v : v = [s.votes EXCEPT !["llm"] = IF r = "finding" THEN 1 ELSE 0] OBVIOUS
<1>2. /\ v \in [{"auth", "policy", "ip", "domain", "llm"} -> 0..1]
      /\ \A k \in {"auth", "policy", "ip", "domain"} : v[k] = s.votes[k]
  BY <1>1, ScanTyped
<1>3. PICK b \in BOOLEAN : b = (s.complete /\ r # "unavailable") BY ScanTyped
<1>4. PICK w : w = Analysis(p)!WithLlm(s, r) OBVIOUS
<1>5. w = [s EXCEPT !.llm = r, !.complete = b, !.votes = v]
  BY <1>1, <1>3, <1>4 DEF Analysis!WithLlm
<1>6. w \in AnalysisScans BY <1>2, <1>5 DEF AnalysisScans
<1>7. /\ w.llm = r /\ w.complete = b /\ w.votes = v
      /\ w.policy = s.policy /\ w.wanted = s.wanted /\ w.ip = s.ip /\ w.ready = s.ready
      /\ w.content = s.content /\ w.sealable = s.sealable
  BY <1>5 DEF AnalysisScans
<1> QED BY <1>2, <1>3, <1>4, <1>6, <1>7

LEMMA Scored ==
    ASSUME NEW p, NEW s \in AnalysisScans
    PROVE  LET w == Analysis(p)!Score(s) IN
           /\ w \in AnalysisScans /\ w.scored = s.votes /\ w.votes = s.votes
           /\ w.complete = s.complete /\ w.policy = s.policy /\ w.llm = s.llm
           /\ w.wanted = s.wanted /\ w.ip = s.ip /\ w.ready = s.ready
           /\ w.content = s.content /\ w.sealable = s.sealable
<1>1. PICK w : w = Analysis(p)!Score(s) OBVIOUS
<1>2. PICK v \in [{"auth", "policy", "ip", "domain", "llm"} -> 0..1] : v = s.votes BY ScanTyped
<1>3. w = [s EXCEPT !.scored = v] BY <1>1, <1>2 DEF Analysis!Score
<1>4. w \in AnalysisScans BY <1>3 DEF AnalysisScans
<1>5. /\ w.scored = v /\ w.votes = s.votes
      /\ w.complete = s.complete /\ w.policy = s.policy /\ w.llm = s.llm
      /\ w.wanted = s.wanted /\ w.ip = s.ip /\ w.ready = s.ready
      /\ w.content = s.content /\ w.sealable = s.sealable
  BY <1>3 DEF AnalysisScans
<1> QED BY <1>1, <1>2, <1>4, <1>5

LEMMA SelectedScans ==
    ASSUME NEW p, AnalysisKept(p), NEW s \in AnalysisScans, NEW w \in Analysis(p)!Selected(s)
    PROVE  /\ w \in AnalysisScans /\ w.scored = s.votes /\ w.votes = s.votes
           /\ w.complete = s.complete /\ w.policy = s.policy
           /\ w.ip = s.ip /\ w.ready = s.ready /\ w.content = s.content /\ w.sealable = s.sealable
<1>1. PICK t \in AnalysisScans :
        /\ t = Analysis(p)!Score(s) /\ t.scored = s.votes /\ t.votes = s.votes
        /\ t.complete = s.complete /\ t.policy = s.policy
        /\ t.ip = s.ip /\ t.ready = s.ready /\ t.content = s.content /\ t.sealable = s.sealable
  BY Scored
<1>2. PICK b \in BOOLEAN : w = [t EXCEPT !.wanted = b, !.llm = IF b THEN "unavailable" ELSE "none"]
  BY <1>1 DEF Analysis!Selected
<1>3. PICK l \in Ended \cup {"none"} : l = IF b THEN "unavailable" ELSE "none" BY DEF Ended
<1>4. w = [t EXCEPT !.wanted = b, !.llm = l] BY <1>2, <1>3
<1>5. w \in AnalysisScans BY <1>4 DEF AnalysisScans
<1>6. /\ w.scored = t.scored /\ w.votes = t.votes /\ w.complete = t.complete /\ w.policy = t.policy
      /\ w.ip = t.ip /\ w.ready = t.ready /\ w.content = t.content /\ w.sealable = t.sealable
  BY <1>4 DEF AnalysisScans
<1> QED BY <1>1, <1>5, <1>6

LEMMA JoinedKeeps ==
    ASSUME NEW p, AnalysisKept(p), AnalysisInv(p), Analysis(p)!Joined PROVE AnalysisInv(p)'
<1> DEFINE Slots == [policy : Ended \cup {"none", "taken"}, llm : Ended \cup {"none", "taken"},
                     providers : BOOLEAN]
<1>1. PICK s \in AnalysisScans : s = scan BY DEF AnalysisInv, AnalysisTypes
<1>2. PICK t \in Slots : t = slots BY DEF AnalysisInv, AnalysisTypes
<1>3. /\ pc = "parallel" /\ pc' = "history" /\ t.policy \in Ended
      /\ UNCHANGED <<auth, looked, fallback, pending, variants>>
  BY <1>2 DEF Analysis!Joined, AnalysisInv, SlotsFollow, Ended
<1>4. slots' = [t EXCEPT !.policy = "taken"] BY <1>2 DEF Analysis!Joined
<1>5. slots' \in Slots /\ slots'.policy = "taken" /\ slots'.llm = slots.llm BY <1>2, <1>4
<1>6. s.votes["policy"] = 0 BY <1>1, <1>2, <1>3 DEF AnalysisInv, VotesBacked, Ended
<1>7. PICK w \in AnalysisScans :
        /\ w = Analysis(p)!WithPolicy(s, t.policy)
        /\ w.policy = t.policy /\ (w.complete <=> s.complete /\ t.policy # "unavailable")
        /\ w.votes["policy"] = (IF t.policy = "finding" THEN 1 ELSE 0)
        /\ \A k \in {"auth", "ip", "domain", "llm"} : w.votes[k] = s.votes[k]
        /\ w.llm = s.llm /\ w.wanted = s.wanted /\ w.ip = s.ip /\ w.ready = s.ready
        /\ w.content = s.content
  BY <1>3, <1>6, PolicyApplied
<1>8. PICK b \in BOOLEAN : b = (w.complete /\ "all" \in auth) BY ScanTyped
<1>9. scan' = [w EXCEPT !.complete = b] BY <1>1, <1>2, <1>7, <1>8 DEF Analysis!Joined
<1>10. scan' \in AnalysisScans BY <1>9 DEF AnalysisScans
<1>11. /\ scan'.complete = b /\ scan'.votes = w.votes /\ scan'.policy = w.policy /\ scan'.llm = w.llm
       /\ scan'.wanted = w.wanted /\ scan'.ip = w.ip /\ scan'.ready = w.ready /\ scan'.content = w.content
  BY <1>9 DEF AnalysisScans
<1>12. AnalysisTypes(p)'
  BY <1>3, <1>5, <1>10 DEF AnalysisInv, AnalysisTypes, AnalysisPlaces, EarlyPlaces
<1>13. VotesBacked'
  BY <1>1, <1>3, <1>5, <1>7, <1>11 DEF AnalysisInv, VotesBacked, EarlyPlaces
<1>14. SlotsFollow' BY <1>3, <1>5 DEF AnalysisInv, SlotsFollow, EarlyPlaces, LaterPlaces, Ended
<1>15. ScoreKept' BY <1>3 DEF ScoreKept
<1>16. CompleteKept'
  BY <1>1, <1>3, <1>7, <1>8, <1>11 DEF AnalysisInv, CompleteKept, EarlyPlaces, LaterPlaces, Ended
<1>17. TagsKept(p)' BY <1>1, <1>3, <1>7, <1>11, TagsStay DEF AnalysisInv, BeforeRender, EarlyPlaces
<1>18. PlacesKept(p)' BY <1>3, PlacesStay DEF AnalysisInv
<1> QED BY <1>12, <1>13, <1>14, <1>15, <1>16, <1>17, <1>18 DEF AnalysisInv

LEMMA HistoryKeeps ==
    ASSUME NEW p, AnalysisKept(p), AnalysisInv(p), Analysis(p)!History PROVE AnalysisInv(p)'
<1>1. /\ pc = "history" /\ pc' = "ip"
      /\ UNCHANGED <<auth, slots, looked, scan, fallback, pending, variants>>
  BY DEF Analysis!History
<1>2. AnalysisTypes(p)' BY <1>1 DEF AnalysisInv, AnalysisTypes, AnalysisPlaces, EarlyPlaces
<1>3. VotesBacked' BY <1>1 DEF AnalysisInv, VotesBacked, EarlyPlaces
<1>4. SlotsFollow' BY <1>1 DEF AnalysisInv, SlotsFollow, EarlyPlaces, LaterPlaces
<1>5. ScoreKept' BY <1>1 DEF ScoreKept
<1>6. CompleteKept' BY <1>1 DEF AnalysisInv, CompleteKept, EarlyPlaces, LaterPlaces
<1>7. TagsKept(p)' BY <1>1, TagsStay DEF AnalysisInv, BeforeRender, EarlyPlaces
<1>8. PlacesKept(p)' BY <1>1, PlacesStay DEF AnalysisInv
<1> QED BY <1>2, <1>3, <1>4, <1>5, <1>6, <1>7, <1>8 DEF AnalysisInv

\* The lookups leave for the advice with a scored scan: what they found so far holds.
LEMMA LeavesLookups ==
    ASSUME NEW p, AnalysisKept(p), AnalysisInv(p), pc \in {"ip", "domains"}, pc' = "advise",
           UNCHANGED <<auth, slots, fallback, pending, variants>>, looked' \in 0..p.domains,
           NEW s \in AnalysisScans, scan' \in Analysis(p)!Selected(s),
           s.policy = scan.policy, s.ip = scan.ip, s.ready = scan.ready, s.content = scan.content,
           \A k \in {"auth", "policy", "ip", "llm"} : s.votes[k] = scan.votes[k],
           s.complete => scan.complete /\ scan.ip
    PROVE  AnalysisInv(p)'
<1>1. /\ scan' \in AnalysisScans /\ scan'.scored = s.votes /\ scan'.votes = s.votes
      /\ scan'.complete = s.complete /\ scan'.policy = s.policy
      /\ scan'.ip = s.ip /\ scan'.ready = s.ready /\ scan'.content = s.content
  BY SelectedScans
<1>2. AnalysisTypes(p)' BY <1>1 DEF AnalysisInv, AnalysisTypes, AnalysisPlaces
<1>3. slots.llm = "none" /\ slots.policy = "taken" BY DEF AnalysisInv, SlotsFollow, EarlyPlaces
<1>4. VotesBacked' BY <1>1, <1>3 DEF AnalysisInv, VotesBacked, EarlyPlaces
<1>5. SlotsFollow' BY <1>3 DEF SlotsFollow, EarlyPlaces, LaterPlaces, Ended
<1>6. ScoreKept' BY <1>1 DEF ScoreKept
<1>7. CompleteKept' BY <1>1 DEF AnalysisInv, CompleteKept, EarlyPlaces, LaterPlaces
<1>8. TagsKept(p)' BY <1>1, TagsStay DEF AnalysisInv, BeforeRender, EarlyPlaces
<1>9. PlacesKept(p)' BY PlacesStay DEF AnalysisInv
<1> QED BY <1>2, <1>4, <1>5, <1>6, <1>7, <1>8, <1>9 DEF AnalysisInv

LEMMA LookupIpKeeps ==
    ASSUME NEW p, AnalysisKept(p), AnalysisInv(p), Analysis(p)!LookupIp PROVE AnalysisInv(p)'
<1>1. PICK s \in AnalysisScans : s = scan BY DEF AnalysisInv, AnalysisTypes
<1>2. pc = "ip" /\ UNCHANGED <<auth, slots, looked, fallback, pending, variants>> BY DEF Analysis!LookupIp
<1>3. PICK r \in Ended :
        IF r = "unavailable"
        THEN /\ scan' \in Analysis(p)!Selected([s EXCEPT !.complete = FALSE])
             /\ pc' = "advise"
        ELSE /\ scan' = [s EXCEPT !.ip = TRUE, !.votes["ip"] = @ + (IF r = "finding" THEN 1 ELSE 0)]
             /\ pc' = "domains"
  BY <1>1 DEF Analysis!LookupIp, Analysis!Results, Ended
<1>4. CASE r = "unavailable"
  <2>1. PICK w : w = [s EXCEPT !.complete = FALSE] OBVIOUS
  <2>2. w \in AnalysisScans BY <2>1 DEF AnalysisScans
  <2>3. /\ w.policy = s.policy /\ w.ip = s.ip /\ w.ready = s.ready /\ w.content = s.content
        /\ w.votes = s.votes /\ ~w.complete
    BY <2>1 DEF AnalysisScans
  <2>4. looked' \in 0..p.domains BY <1>2 DEF AnalysisInv, AnalysisTypes
  <2> QED BY <1>1, <1>2, <1>3, <1>4, <2>1, <2>2, <2>3, <2>4, LeavesLookups
<1>5. CASE r # "unavailable"
  <2>1. PICK v : v = [s.votes EXCEPT !["ip"] = @ + (IF r = "finding" THEN 1 ELSE 0)] OBVIOUS
  <2>2. s.votes["ip"] = 0 BY <1>1, <1>2 DEF AnalysisInv, VotesBacked
  <2>3. /\ v \in [{"auth", "policy", "ip", "domain", "llm"} -> 0..1]
        /\ \A k \in {"auth", "policy", "domain", "llm"} : v[k] = s.votes[k]
    BY <2>1, <2>2, ScanTyped
  <2>4. scan' = [s EXCEPT !.ip = TRUE, !.votes = v] /\ pc' = "domains" BY <1>3, <1>5, <2>1
  <2>5. scan' \in AnalysisScans BY <2>3, <2>4 DEF AnalysisScans
  <2>6. /\ scan'.complete = s.complete /\ scan'.votes = v /\ scan'.policy = s.policy /\ scan'.llm = s.llm
        /\ scan'.wanted = s.wanted /\ scan'.ip /\ scan'.ready = s.ready /\ scan'.content = s.content
    BY <2>4 DEF AnalysisScans
  <2>7. AnalysisTypes(p)' BY <1>2, <2>4, <2>5 DEF AnalysisInv, AnalysisTypes, AnalysisPlaces, EarlyPlaces
  <2>8. VotesBacked' BY <1>1, <1>2, <2>3, <2>4, <2>6 DEF AnalysisInv, VotesBacked, EarlyPlaces
  <2>9. SlotsFollow' BY <1>2, <2>4 DEF AnalysisInv, SlotsFollow, EarlyPlaces, LaterPlaces
  <2>10. ScoreKept' BY <2>4 DEF ScoreKept
  <2>11. CompleteKept' BY <1>1, <1>2, <2>4, <2>6 DEF AnalysisInv, CompleteKept, EarlyPlaces, LaterPlaces
  <2>12. TagsKept(p)' BY <1>1, <1>2, <2>4, <2>6, TagsStay DEF AnalysisInv, BeforeRender, EarlyPlaces
  <2>13. PlacesKept(p)' BY <1>2, <2>4, PlacesStay DEF AnalysisInv
  <2> QED BY <2>7, <2>8, <2>9, <2>10, <2>11, <2>12, <2>13 DEF AnalysisInv
<1> QED BY <1>4, <1>5

LEMMA LookupDomainKeeps ==
    ASSUME NEW p, AnalysisKept(p), AnalysisInv(p), Analysis(p)!LookupDomain PROVE AnalysisInv(p)'
<1>1. PICK s \in AnalysisScans : s = scan BY DEF AnalysisInv, AnalysisTypes
<1>2. pc = "domains" /\ UNCHANGED <<auth, slots, fallback, pending, variants>> BY DEF Analysis!LookupDomain
<1>3. s.complete => s.ip BY <1>1, <1>2 DEF AnalysisInv, CompleteKept
<1>4. looked \in 0..p.domains /\ p.domains \in Nat BY DEF AnalysisInv, AnalysisTypes, AnalysisKept
<1>5. CASE looked = p.domains /\ scan' \in Analysis(p)!Selected(scan) /\ pc' = "advise" /\ UNCHANGED looked
  BY <1>1, <1>2, <1>3, <1>4, <1>5, LeavesLookups
<1>6. ASSUME NEW r \in Ended, looked < p.domains,
             looked' = (IF r = "unavailable" THEN looked ELSE looked + 1),
             LET w == [s EXCEPT !.complete = @ /\ r # "unavailable",
                                !.votes["domain"] = @ + (IF r = "finding" THEN 1 ELSE 0)]
             IN IF r = "clean" THEN scan' = w /\ UNCHANGED pc
                ELSE scan' \in Analysis(p)!Selected(w) /\ pc' = "advise"
      PROVE  AnalysisInv(p)'
  <2>1. PICK v : v = [s.votes EXCEPT !["domain"] = @ + (IF r = "finding" THEN 1 ELSE 0)] OBVIOUS
  <2>2. s.votes["domain"] = 0 BY <1>1, <1>2 DEF AnalysisInv, VotesBacked, EarlyPlaces
  <2>3. /\ v \in [{"auth", "policy", "ip", "domain", "llm"} -> 0..1]
        /\ \A k \in {"auth", "policy", "ip", "llm"} : v[k] = s.votes[k]
        /\ r = "clean" => v["domain"] = 0
    BY <2>1, <2>2, ScanTyped
  <2>4. PICK b \in BOOLEAN : b = (s.complete /\ r # "unavailable") BY ScanTyped
  <2>5. PICK w : w = [s EXCEPT !.complete = b, !.votes = v] OBVIOUS
  <2>6. w \in AnalysisScans BY <2>3, <2>5 DEF AnalysisScans
  <2>7. /\ w.complete = b /\ w.votes = v /\ w.policy = s.policy /\ w.llm = s.llm /\ w.wanted = s.wanted
        /\ w.ip = s.ip /\ w.ready = s.ready /\ w.content = s.content
    BY <2>5 DEF AnalysisScans
  <2>8. IF r = "clean" THEN scan' = w /\ UNCHANGED pc
        ELSE scan' \in Analysis(p)!Selected(w) /\ pc' = "advise"
    BY <1>6, <2>1, <2>4, <2>5
  <2>9. looked' \in 0..p.domains BY <1>4, <1>6
  <2>10. CASE r # "clean"
    BY <1>1, <1>2, <1>3, <2>3, <2>4, <2>6, <2>7, <2>8, <2>9, <2>10, LeavesLookups
  <2>11. CASE r = "clean"
    <3>1. scan' = w /\ pc' = pc BY <2>8, <2>11
    <3>2. AnalysisTypes(p)' BY <1>2, <2>6, <2>9, <3>1 DEF AnalysisInv, AnalysisTypes
    <3>3. VotesBacked' BY <1>1, <1>2, <2>3, <2>7, <2>11, <3>1 DEF AnalysisInv, VotesBacked, EarlyPlaces
    <3>4. SlotsFollow' BY <1>1, <1>2, <2>7, <3>1 DEF AnalysisInv, SlotsFollow, EarlyPlaces, LaterPlaces
    <3>5. ScoreKept' BY <1>2, <3>1 DEF ScoreKept
    <3>6. CompleteKept' BY <1>1, <1>2, <2>4, <2>7, <3>1 DEF AnalysisInv, CompleteKept, EarlyPlaces, LaterPlaces
    <3>7. TagsKept(p)' BY <1>1, <1>2, <2>7, <3>1, TagsStay DEF AnalysisInv, BeforeRender, EarlyPlaces
    <3>8. PlacesKept(p)' BY <1>2, <3>1, PlacesStay DEF AnalysisInv
    <3> QED BY <3>2, <3>3, <3>4, <3>5, <3>6, <3>7, <3>8 DEF AnalysisInv
  <2> QED BY <2>10, <2>11
<1> QED BY <1>1, <1>5, <1>6 DEF Analysis!LookupDomain, Analysis!Results, Ended

LEMMA AdvisedKeeps ==
    ASSUME NEW p, AnalysisKept(p), AnalysisInv(p), Analysis(p)!Advised PROVE AnalysisInv(p)'
<1> DEFINE Slots == [policy : Ended \cup {"none", "taken"}, llm : Ended \cup {"none", "taken"},
                     providers : BOOLEAN]
<1>1. PICK s \in AnalysisScans : s = scan BY DEF AnalysisInv, AnalysisTypes
<1>2. PICK t \in Slots : t = slots BY DEF AnalysisInv, AnalysisTypes
<1>3. /\ pc = "advise" /\ UNCHANGED <<auth, looked, fallback, pending, variants>>
      /\ pc' = IF "all" \in auth THEN "contacts" ELSE "unauthenticated"
  BY DEF Analysis!Advised
<1>4. /\ t.policy = "taken" /\ t.llm # "taken" /\ (t.llm \in Ended => s.wanted)
      /\ s.wanted => t.llm \in Ended
      /\ s.scored = s.votes
  BY <1>1, <1>2, <1>3 DEF Analysis!Advised, AnalysisInv, SlotsFollow, ScoreKept, Ended
<1>5. PICK w \in AnalysisScans :
        /\ w = IF s.wanted THEN Analysis(p)!Score(Analysis(p)!WithLlm(s, t.llm)) ELSE s
        /\ w.scored = w.votes /\ w.policy = s.policy /\ w.wanted = s.wanted /\ w.ip = s.ip
        /\ w.ready = s.ready
        /\ \A k \in {"auth", "policy", "ip", "domain"} : w.votes[k] = s.votes[k]
        /\ s.wanted => w.llm = t.llm
        /\ ~s.wanted => w.votes["llm"] = s.votes["llm"]
        /\ w.complete => s.complete /\ (s.wanted => t.llm # "unavailable")
  <2>1. CASE s.wanted
    <3>1. PICK u \in AnalysisScans :
            /\ u = Analysis(p)!WithLlm(s, t.llm)
            /\ u.llm = t.llm /\ (u.complete <=> s.complete /\ t.llm # "unavailable")
            /\ \A k \in {"auth", "policy", "ip", "domain"} : u.votes[k] = s.votes[k]
            /\ u.policy = s.policy /\ u.wanted = s.wanted /\ u.ip = s.ip /\ u.ready = s.ready
      <4>1. PICK r \in Ended : r = t.llm BY <1>4, <2>1
      <4>2. PICK u : u = Analysis(p)!WithLlm(s, r) OBVIOUS
      <4>3. /\ u \in AnalysisScans /\ u.llm = r /\ (u.complete <=> s.complete /\ r # "unavailable")
            /\ \A k \in {"auth", "policy", "ip", "domain"} : u.votes[k] = s.votes[k]
            /\ u.policy = s.policy /\ u.wanted = s.wanted /\ u.ip = s.ip /\ u.ready = s.ready
        BY <4>2, LlmApplied
      <4> QED BY <4>1, <4>2, <4>3
    <3>2. PICK w \in AnalysisScans :
            /\ w = Analysis(p)!Score(u) /\ w.scored = u.votes /\ w.votes = u.votes
            /\ w.complete = u.complete /\ w.policy = u.policy /\ w.llm = u.llm
            /\ w.wanted = u.wanted /\ w.ip = u.ip /\ w.ready = u.ready
      BY Scored
    <3>3. /\ w = IF s.wanted THEN Analysis(p)!Score(Analysis(p)!WithLlm(s, t.llm)) ELSE s
          /\ w.scored = w.votes /\ w.policy = s.policy /\ w.wanted = s.wanted /\ w.ip = s.ip
          /\ w.ready = s.ready /\ w.llm = t.llm
          /\ \A k \in {"auth", "policy", "ip", "domain"} : w.votes[k] = s.votes[k]
      BY <2>1, <3>1, <3>2
    <3>4. w.complete => s.complete /\ t.llm # "unavailable" BY <3>1, <3>2
    <3> QED BY <2>1, <3>3, <3>4
  <2>2. CASE ~s.wanted BY <1>4, <2>2
  <2> QED BY <2>1, <2>2
<1>6. PICK b : b = ("all" \in auth) OBVIOUS
<1>7. b \in BOOLEAN /\ scan' = [w EXCEPT !.content = b]
  <2>1. scan' = [w EXCEPT !.content = b] BY <1>1, <1>2, <1>5, <1>6 DEF Analysis!Advised
  <2>2. b \in BOOLEAN BY <1>6
  <2> QED BY <2>1, <2>2
<1>8. scan' \in AnalysisScans BY <1>7 DEF AnalysisScans
<1>9. /\ scan'.complete = w.complete /\ scan'.votes = w.votes /\ scan'.scored = w.scored
      /\ scan'.policy = w.policy /\ scan'.llm = w.llm /\ scan'.wanted = w.wanted /\ scan'.ip = w.ip
      /\ scan'.ready = w.ready
  BY <1>7 DEF AnalysisScans
<1>10. /\ slots' \in Slots /\ slots'.policy = t.policy
       /\ slots'.llm = IF s.wanted THEN "taken" ELSE t.llm
  <2>1. PICK l \in Ended \cup {"none", "taken"} : l = IF s.wanted THEN "taken" ELSE t.llm OBVIOUS
  <2>2. slots' = [t EXCEPT !.llm = l] BY <1>1, <1>2, <2>1 DEF Analysis!Advised
  <2>3. slots' \in Slots /\ slots'.policy = t.policy /\ slots'.llm = l BY <2>2
  <2> QED BY <2>1, <2>3
<1>11. AnalysisTypes(p)' BY <1>3, <1>8, <1>10 DEF AnalysisInv, AnalysisTypes, AnalysisPlaces
<1>12. VotesBacked'
  <2>1. VotesBacked BY DEF AnalysisInv
  <2>2. s.votes["llm"] = 0 BY <2>1, <1>1, <1>2, <1>4, ScanTyped DEF VotesBacked
  <2> QED BY <2>1, <2>2, <1>1, <1>2, <1>3, <1>4, <1>5, <1>9, <1>10 DEF VotesBacked, EarlyPlaces
<1>13. SlotsFollow'
  BY <1>3, <1>4, <1>10 DEF SlotsFollow, EarlyPlaces, LaterPlaces, Ended
<1>14. ScoreKept' BY <1>5, <1>9 DEF ScoreKept
<1>15. CompleteKept'
  <2>1. CompleteKept BY DEF AnalysisInv
  <2>2. s.complete => "all" \in auth /\ s.policy \in {"finding", "clean"} /\ s.ip
    BY <2>1, <1>1, <1>3 DEF CompleteKept
  <2> QED BY <2>2, <1>3, <1>4, <1>5, <1>9 DEF CompleteKept, EarlyPlaces, LaterPlaces, Ended
<1>16. TagsKept(p)' BY <1>1, <1>3, <1>5, <1>9, TagsStay DEF AnalysisInv, BeforeRender, EarlyPlaces
<1>17. PlacesKept(p)' BY <1>3, PlacesStay DEF AnalysisInv
<1> QED BY <1>11, <1>12, <1>13, <1>14, <1>15, <1>16, <1>17 DEF AnalysisInv

LEMMA PreparedKeeps ==
    ASSUME NEW p, AnalysisKept(p), AnalysisInv(p), Analysis(p)!Prepared PROVE AnalysisInv(p)'
<1>1. PICK s \in AnalysisScans : s = scan BY DEF AnalysisInv, AnalysisTypes
<1>2. PICK b \in BOOLEAN : b = s.sealable BY ScanTyped
<1>3. /\ pc = "contacts" /\ pc' = "render" /\ scan' = [s EXCEPT !.ready = b]
      /\ UNCHANGED <<auth, slots, looked, fallback, pending, variants>>
  BY <1>1, <1>2 DEF Analysis!Prepared
<1>4. scan' \in AnalysisScans BY <1>3 DEF AnalysisScans
<1>5. /\ scan'.complete = s.complete /\ scan'.votes = s.votes /\ scan'.scored = s.scored
      /\ scan'.policy = s.policy /\ scan'.llm = s.llm /\ scan'.wanted = s.wanted /\ scan'.ip = s.ip
      /\ scan'.ready = b /\ scan'.sealable = s.sealable
  BY <1>3 DEF AnalysisScans
<1>6. AnalysisTypes(p)' BY <1>3, <1>4 DEF AnalysisInv, AnalysisTypes, AnalysisPlaces, LaterPlaces
<1>7. VotesBacked' BY <1>1, <1>3, <1>5 DEF AnalysisInv, VotesBacked, EarlyPlaces
<1>8. SlotsFollow' BY <1>3 DEF AnalysisInv, SlotsFollow, EarlyPlaces, LaterPlaces, Ended
<1>9. ScoreKept' BY <1>1, <1>3, <1>5 DEF AnalysisInv, ScoreKept
<1>10. CompleteKept' BY <1>1, <1>3, <1>5 DEF AnalysisInv, CompleteKept, EarlyPlaces, LaterPlaces
<1>11. TagsKept(p)'
  <2>1. variants = << >> /\ pending = p.recipients /\ ~fallback
    BY <1>3 DEF AnalysisInv, TagsKept, AnalysisPlaces
  <2>2. "all" \in auth BY <1>3 DEF AnalysisInv, CompleteKept
  <2>3. DOMAIN variants' = {} BY <1>3, <2>1
  <2> QED BY <1>2, <1>3, <1>5, <2>1, <2>2, <2>3 DEF TagsKept
<1>12. PlacesKept(p)' BY <1>3, PlacesStay DEF AnalysisInv
<1> QED BY <1>6, <1>7, <1>8, <1>9, <1>10, <1>11, <1>12 DEF AnalysisInv

LEMMA UncheckedKeeps ==
    ASSUME NEW p, AnalysisKept(p), AnalysisInv(p), Analysis(p)!Unchecked PROVE AnalysisInv(p)'
<1>1. PICK s \in AnalysisScans : s = scan BY DEF AnalysisInv, AnalysisTypes
<1>2. PICK w \in AnalysisScans :
        /\ w = Analysis(p)!Score(s) /\ w.scored = s.votes /\ w.votes = s.votes
        /\ w.complete = s.complete /\ w.policy = s.policy /\ w.llm = s.llm
        /\ w.wanted = s.wanted /\ w.ip = s.ip
  BY Scored
<1>3. /\ pc \in {"unauthenticated", "lost"} /\ pc' = "render" /\ fallback' = TRUE
      /\ scan' = [w EXCEPT !.ready = FALSE]
      /\ UNCHANGED <<auth, slots, looked, pending, variants>>
  BY <1>1, <1>2 DEF Analysis!Unchecked
<1>4. scan' \in AnalysisScans BY <1>3 DEF AnalysisScans
<1>5. /\ scan'.complete = w.complete /\ scan'.votes = w.votes /\ scan'.scored = w.scored
      /\ scan'.policy = w.policy /\ scan'.llm = w.llm /\ scan'.wanted = w.wanted /\ scan'.ip = w.ip
      /\ ~scan'.ready
  BY <1>3 DEF AnalysisScans
<1>6. AnalysisTypes(p)' BY <1>3, <1>4 DEF AnalysisInv, AnalysisTypes, AnalysisPlaces, LaterPlaces
<1>7. VotesBacked' BY <1>1, <1>2, <1>3, <1>5 DEF AnalysisInv, VotesBacked, EarlyPlaces
<1>8. SlotsFollow' BY <1>3 DEF AnalysisInv, SlotsFollow, EarlyPlaces, LaterPlaces, Ended
<1>9. ScoreKept' BY <1>2, <1>5 DEF ScoreKept
<1>10. CompleteKept' BY <1>1, <1>2, <1>3, <1>5 DEF AnalysisInv, CompleteKept, EarlyPlaces, LaterPlaces
<1>11. TagsKept(p)'
  <2>1. variants = << >> BY <1>3 DEF AnalysisInv, TagsKept, AnalysisPlaces, LaterPlaces
  <2>2. DOMAIN variants' = {} BY <1>3, <2>1
  <2> QED BY <1>3, <1>5, <2>1, <2>2 DEF TagsKept
<1>12. PlacesKept(p)' BY <1>3, PlacesStay DEF AnalysisInv
<1> QED BY <1>6, <1>7, <1>8, <1>9, <1>10, <1>11, <1>12 DEF AnalysisInv

\* The deadline applies what finished and empties its slots; the scan stays complete
\* only where it was already decided.
LEMMA DeadlineKeeps ==
    ASSUME NEW p, AnalysisKept(p), AnalysisInv(p), Analysis(p)!Deadline PROVE AnalysisInv(p)'
<1> DEFINE Slots == [policy : Ended \cup {"none", "taken"}, llm : Ended \cup {"none", "taken"},
                     providers : BOOLEAN]
<1>1. PICK s \in AnalysisScans : s = scan BY DEF AnalysisInv, AnalysisTypes
<1>2. PICK t \in Slots : t = slots BY DEF AnalysisInv, AnalysisTypes
<1>3. /\ pc \in {"parallel", "history", "ip", "domains", "advise", "unauthenticated", "contacts"}
      /\ pc' = "lost" /\ UNCHANGED <<auth, looked, fallback, pending, variants>>
  BY DEF Analysis!Deadline, Analysis!Awaits
<1>4. t.policy \in Ended => s.votes["policy"] = 0
  BY <1>1, <1>2 DEF AnalysisInv, VotesBacked, Ended
<1>5. PICK u \in AnalysisScans :
        /\ u = IF t.policy \in Ended THEN Analysis(p)!WithPolicy(s, t.policy) ELSE s
        /\ t.policy \in Ended => /\ u.policy = t.policy
                                 /\ u.votes["policy"] = (IF t.policy = "finding" THEN 1 ELSE 0)
        /\ t.policy \notin Ended => u.policy = s.policy /\ u.votes["policy"] = s.votes["policy"]
        /\ \A k \in {"auth", "ip", "domain", "llm"} : u.votes[k] = s.votes[k]
        /\ u.llm = s.llm /\ u.wanted = s.wanted /\ u.ip = s.ip /\ u.ready = s.ready
        /\ u.complete => s.complete /\ (t.policy \in Ended => t.policy # "unavailable")
  <2>1. CASE t.policy \in Ended
    <3>1. PICK r \in Ended : r = t.policy BY <2>1
    <3>2. PICK w : w = Analysis(p)!WithPolicy(s, r) OBVIOUS
    <3>3. /\ w \in AnalysisScans /\ w.policy = r
          /\ w.votes["policy"] = (IF r = "finding" THEN 1 ELSE 0)
          /\ \A k \in {"auth", "ip", "domain", "llm"} : w.votes[k] = s.votes[k]
          /\ w.llm = s.llm /\ w.wanted = s.wanted /\ w.ip = s.ip /\ w.ready = s.ready
      BY <1>4, <3>1, <3>2, PolicyApplied
    <3>4. w.complete => s.complete /\ r # "unavailable" BY <1>4, <3>1, <3>2, PolicyApplied
    <3> QED BY <2>1, <3>1, <3>2, <3>3, <3>4
  <2>2. CASE t.policy \notin Ended BY <2>2
  <2> QED BY <2>1, <2>2
<1>6. PICK w \in AnalysisScans :
        /\ w = IF t.llm \in Ended THEN Analysis(p)!WithLlm(u, t.llm) ELSE u
        /\ t.llm \in Ended => w.llm = t.llm
        /\ t.llm \notin Ended => w.llm = u.llm /\ w.votes["llm"] = u.votes["llm"]
        /\ \A k \in {"auth", "policy", "ip", "domain"} : w.votes[k] = u.votes[k]
        /\ w.policy = u.policy /\ w.wanted = u.wanted /\ w.ip = u.ip /\ w.ready = u.ready
        /\ w.complete => u.complete /\ (t.llm \in Ended => t.llm # "unavailable")
  <2>1. CASE t.llm \in Ended
    <3>1. PICK r \in Ended : r = t.llm BY <2>1
    <3>2. PICK w : w = Analysis(p)!WithLlm(u, r) OBVIOUS
    <3>3. /\ w \in AnalysisScans /\ w.llm = r
          /\ \A k \in {"auth", "policy", "ip", "domain"} : w.votes[k] = u.votes[k]
          /\ w.policy = u.policy /\ w.wanted = u.wanted /\ w.ip = u.ip /\ w.ready = u.ready
      BY <3>2, LlmApplied
    <3>4. w.complete => u.complete /\ r # "unavailable" BY <3>2, LlmApplied
    <3> QED BY <2>1, <3>1, <3>2, <3>3, <3>4
  <2>2. CASE t.llm \notin Ended BY <2>2
  <2> QED BY <2>1, <2>2
<1>7. w = Analysis(p)!RetainChecks(scan)
  BY <1>1, <1>2, <1>5, <1>6 DEF Analysis!RetainChecks, Analysis!Results, Ended
<1>8. PICK b \in BOOLEAN : b = (w.complete /\ s.content) BY ScanTyped
<1>9. scan' = [w EXCEPT !.complete = b] BY <1>1, <1>7, <1>8 DEF Analysis!Deadline
<1>10. scan' \in AnalysisScans BY <1>9 DEF AnalysisScans
<1>11. /\ scan'.complete = b /\ scan'.votes = w.votes /\ scan'.policy = w.policy /\ scan'.llm = w.llm
       /\ scan'.wanted = w.wanted /\ scan'.ip = w.ip /\ scan'.ready = w.ready
  BY <1>9 DEF AnalysisScans
<1>12. /\ slots' \in Slots
       /\ slots'.policy = IF t.policy \in Ended THEN "taken" ELSE t.policy
       /\ slots'.llm = IF t.llm \in Ended THEN "taken" ELSE t.llm
  <2>1. PICK l \in Ended \cup {"none", "taken"} : l = IF t.llm \in Ended THEN "taken" ELSE t.llm OBVIOUS
  <2>2. PICK q \in Ended \cup {"none", "taken"} : q = IF t.policy \in Ended THEN "taken" ELSE t.policy
    OBVIOUS
  <2>3. slots' = [t EXCEPT !.policy = q, !.llm = l]
    BY <1>2, <2>1, <2>2 DEF Analysis!Deadline, Analysis!Results, Ended
  <2>4. slots' \in Slots /\ slots'.policy = q /\ slots'.llm = l BY <2>3
  <2> QED BY <2>1, <2>2, <2>4
<1>13. AnalysisTypes(p)' BY <1>3, <1>10, <1>12 DEF AnalysisInv, AnalysisTypes, AnalysisPlaces, LaterPlaces
<1>14. VotesBacked'
  <2>1. VotesBacked BY DEF AnalysisInv
  <2>2. t.llm \in Ended => s.wanted
    BY <1>1, <1>2, <1>3 DEF AnalysisInv, SlotsFollow, EarlyPlaces, LaterPlaces, Ended
  <2>3. s.votes["llm"] = 1 => t.llm = "taken" /\ s.wanted BY <1>1, <1>2, <2>1 DEF VotesBacked
  <2>4. scan'.votes["llm"] = 1 => slots'.llm = "taken" /\ scan'.wanted
    BY <1>5, <1>6, <1>11, <1>12, <2>2, <2>3
  <2>5. slots'.llm = "taken" => scan'.llm \in Ended
    BY <1>1, <1>2, <1>5, <1>6, <1>11, <1>12, <2>1 DEF VotesBacked
  <2>6. IF slots'.policy = "taken"
        THEN /\ scan'.policy \in Ended
             /\ scan'.votes["policy"] = (IF scan'.policy = "finding" THEN 1 ELSE 0)
        ELSE scan'.votes["policy"] = 0
    BY <1>1, <1>2, <1>5, <1>6, <1>11, <1>12, <2>1 DEF VotesBacked
  <2>7. /\ "all" \in auth' => "ended" \in auth'
        /\ scan'.votes["auth"] = 1 => "all" \in auth'
        /\ scan'.votes["ip"] = 1 => scan'.ip
    BY <1>1, <1>3, <1>5, <1>6, <1>11, <2>1 DEF VotesBacked
  <2> QED BY <1>3, <2>4, <2>5, <2>6, <2>7 DEF VotesBacked, EarlyPlaces
<1>15. SlotsFollow' BY <1>3, <1>12 DEF SlotsFollow, EarlyPlaces, LaterPlaces, Ended
<1>16. ScoreKept' BY <1>3 DEF ScoreKept
<1>17. CompleteKept'
  <2>1. s.content => pc \in {"unauthenticated", "contacts"}
    BY <1>1, <1>3 DEF AnalysisInv, CompleteKept, EarlyPlaces
  <2>2. pc \in {"unauthenticated", "contacts"} => t.policy \notin Ended /\ t.llm \notin Ended
    BY <1>2 DEF AnalysisInv, SlotsFollow, Ended
  <2>3. ASSUME scan'.complete
        PROVE  /\ "all" \in auth /\ scan'.policy \in {"finding", "clean"} /\ scan'.ip
               /\ scan'.wanted => scan'.llm \in {"finding", "clean"}
    <3>1. w.complete /\ s.content BY <1>8, <1>11, <2>3
    <3>2. pc \in {"unauthenticated", "contacts"} /\ s.complete /\ w = s
      BY <1>5, <1>6, <2>1, <2>2, <3>1
    <3> QED BY <1>1, <1>11, <3>2 DEF AnalysisInv, CompleteKept
  <2> QED BY <1>3, <2>3 DEF CompleteKept, EarlyPlaces, LaterPlaces
<1>18. TagsKept(p)'
  BY <1>1, <1>3, <1>5, <1>6, <1>11, TagsStay DEF AnalysisInv, BeforeRender, EarlyPlaces
<1>19. PlacesKept(p)' BY <1>3, PlacesStay DEF AnalysisInv
<1> QED BY <1>13, <1>14, <1>15, <1>16, <1>17, <1>18, <1>19 DEF AnalysisInv

\* A recipient is put at place b of variant a, and every other place is as it was.
Placed(p, r, a, b) ==
    /\ variants' \in Seq(RenderedVariants(p))
    /\ a \in 1..Len(variants') /\ b = Len(variants'[a].to) /\ b \in 1..p.perVariant
    /\ variants'[a].to[b] = r /\ variants'[a].key = p.keyOf[r]
    /\ \A h \in 1..Len(variants') : h # a => h \in 1..Len(variants) /\ variants'[h] = variants[h]
    /\ \A h \in 1..Len(variants) : h \in 1..Len(variants')
    /\ \A j \in 1..b : j = b \/ /\ a \in 1..Len(variants) /\ j \in 1..Len(variants[a].to)
                                /\ variants'[a].to[j] = variants[a].to[j]
    /\ a \in 1..Len(variants) =>
        /\ variants'[a].key = variants[a].key /\ b = Len(variants[a].to) + 1
        /\ \A j \in 1..Len(variants[a].to) : variants'[a].to[j] = variants[a].to[j]
    /\ a \notin 1..Len(variants) => b = 1
    /\ variants'[a].tag => scan.ready \/ (a \in 1..Len(variants) /\ variants[a].tag)

LEMMA RenderPlaces ==
    ASSUME NEW p, AnalysisKept(p), AnalysisInv(p), Analysis(p)!Render
    PROVE  \E a, b : Placed(p, Head(pending), a, b)
<1> DEFINE r == Head(pending)
           k == p.keyOf[r]
<1>1. /\ pending \in Seq(Named(p)) /\ pending # << >> /\ variants \in Seq(RenderedVariants(p))
      /\ p.perVariant \in Nat \ {0}
  BY DEF AnalysisInv, PlacesKept, EnvelopeOrder, VariantsFilled, Analysis!Render, AnalysisKept
<1>2. r \in Named(p) /\ k \in {p.keyOf[x] : x \in Named(p)} BY <1>1
<1> HIDE DEF r, k
<1>3. CASE Analysis(p)!Open(k) # {}
  <2>1. PICK i : /\ i \in Analysis(p)!Open(k)
                 /\ variants' = [variants EXCEPT ![i].to = Append(@, r)]
    BY <1>3 DEF Analysis!Render, r, k
  <2>2. i \in 1..Len(variants) /\ variants[i].key = k /\ Len(variants[i].to) < p.perVariant
    BY <2>1 DEF Analysis!Open
  <2>3. PICK v \in RenderedVariants(p) : v = variants[i] BY <1>1, <2>2
  <2>4. v.to \in Seq(Named(p)) /\ v.key = k /\ Len(v.to) \in Nat /\ Len(v.to) < p.perVariant
    BY <2>2, <2>3 DEF RenderedVariants
  <2>5. PICK t : t = Append(v.to, r) OBVIOUS
  <2>6. /\ t \in Seq(Named(p)) /\ Len(t) = Len(v.to) + 1 /\ t[Len(t)] = r
        /\ \A j \in 1..Len(v.to) : t[j] = v.to[j]
    BY <1>2, <2>4, <2>5
  <2>7. PICK w : w = [v EXCEPT !.to = t] OBVIOUS
  <2>8. w \in RenderedVariants(p) /\ w.to = t /\ w.key = v.key /\ w.tag = v.tag
    BY <2>6, <2>7 DEF RenderedVariants
  <2>9. variants' = [variants EXCEPT ![i] = w] BY <2>1, <2>2, <2>3, <2>5, <2>7, <1>1
  <2>10. /\ variants' \in Seq(RenderedVariants(p)) /\ Len(variants') = Len(variants) /\ variants'[i] = w
         /\ \A h \in 1..Len(variants) : h # i => variants'[h] = variants[h]
    BY <1>1, <2>2, <2>8, <2>9
  <2>11. Placed(p, r, i, Len(t))
    BY <1>1, <2>2, <2>3, <2>4, <2>6, <2>8, <2>10 DEF Placed, k
  <2> QED BY <2>11 DEF r
<1>4. CASE Analysis(p)!Open(k) = {}
  <2>1. PICK g : g = (k \in p.tagKeys /\ scan.ready) OBVIOUS
  <2>2. PICK w : w = [key |-> k, to |-> <<r>>, tag |-> g] OBVIOUS
  <2>3. variants' = Append(variants, w) BY <1>4, <2>1, <2>2 DEF Analysis!Render, r, k
  <2>4. g \in BOOLEAN BY <2>1
  <2>5. <<r>> \in Seq(Named(p)) /\ Len(<<r>>) = 1 /\ <<r>>[1] = r BY <1>2
  <2>6. w \in RenderedVariants(p) /\ w.to = <<r>> /\ w.key = k /\ w.tag = g
    BY <1>2, <2>2, <2>4, <2>5 DEF RenderedVariants
  <2>7. w.tag => scan.ready BY <2>1, <2>6
  <2>8. /\ variants' \in Seq(RenderedVariants(p)) /\ Len(variants') = Len(variants) + 1
        /\ variants'[Len(variants) + 1] = w /\ Len(variants) \in Nat
        /\ \A h \in 1..Len(variants) : variants'[h] = variants[h]
    BY <1>1, <2>3, <2>6
  <2>9. Placed(p, r, Len(variants) + 1, 1)
    <3>1. PICK a \in Nat : a = Len(variants) + 1 BY <2>8
    <3>2. /\ a \in 1..Len(variants') /\ a \notin 1..Len(variants) /\ variants'[a] = w
          /\ \A h \in 1..Len(variants') : h # a => h \in 1..Len(variants) /\ variants'[h] = variants[h]
          /\ \A h \in 1..Len(variants) : h \in 1..Len(variants')
      BY <2>8, <3>1
    <3>3. /\ 1 = Len(variants'[a].to) /\ 1 \in 1..p.perVariant /\ variants'[a].to[1] = r
          /\ variants'[a].key = p.keyOf[r] /\ (variants'[a].tag => scan.ready)
      <4>1. 1 \in 1..p.perVariant BY <1>1
      <4>2. variants'[a].to = <<r>> /\ variants'[a].key = k /\ variants'[a].tag = w.tag BY <2>6, <3>2
      <4>3. variants'[a].key = p.keyOf[r] BY <4>2 DEF k
      <4> QED BY <2>5, <2>7, <4>1, <4>2, <4>3
    <3>4. \A j \in 1..1 : j = 1 OBVIOUS
    <3> QED BY <2>8, <3>1, <3>2, <3>3, <3>4 DEF Placed
  <2> QED BY <2>9 DEF r
<1> QED BY <1>3, <1>4

LEMMA RenderKeeps ==
    ASSUME NEW p, AnalysisKept(p), AnalysisInv(p), Analysis(p)!Render PROVE AnalysisInv(p)'
<1>1. /\ pc = "render" /\ pending # << >> /\ pending' = Tail(pending)
      /\ UNCHANGED <<pc, auth, slots, looked, scan, fallback>>
  BY DEF Analysis!Render
<1>2. PICK r : r = Head(pending) OBVIOUS
<1>3. PICK a, b : Placed(p, r, a, b) BY <1>2, RenderPlaces
<1>4. /\ pending \in Seq(Named(p)) /\ Len(pending) <= Len(p.recipients) /\ Len(p.recipients) \in Nat
      /\ variants \in Seq(RenderedVariants(p))
      /\ \A m \in 1..Len(pending) : pending[m] = p.recipients[Served(p) + m]
      /\ \A m, n \in 1..Len(p.recipients) : p.recipients[m] = p.recipients[n] => m = n
  BY DEF AnalysisInv, PlacesKept, EnvelopeOrder, VariantsFilled, AnalysisKept, NamesOnce
<1>5. PICK d \in Nat : d = Served(p) /\ d + Len(pending) = Len(p.recipients)
  <2>1. Len(pending) \in Nat BY <1>4
  <2>2. PICK d : d = Len(p.recipients) - Len(pending) OBVIOUS
  <2>3. d \in Nat /\ d + Len(pending) = Len(p.recipients) BY <1>4, <2>1, <2>2
  <2> QED BY <2>2, <2>3 DEF Served
<1>6. /\ pending' \in Seq(Named(p)) /\ Len(pending') = Len(pending) - 1 /\ Len(pending) \in Nat \ {0}
      /\ r = pending[1] /\ \A m \in 1..Len(pending') : pending'[m] = pending[m + 1]
  BY <1>1, <1>2, <1>4
<1>7. Served(p)' = d + 1 /\ d + 1 \in 1..Len(p.recipients) /\ Len(pending') <= Len(p.recipients)
  BY <1>4, <1>5, <1>6 DEF Served
<1>8. r = p.recipients[d + 1] BY <1>4, <1>5, <1>6
<1>9. \A m \in 1..Len(pending') : pending'[m] = p.recipients[(d + 1) + m]
  <2> SUFFICES ASSUME NEW m \in 1..Len(pending') PROVE pending'[m] = p.recipients[(d + 1) + m] OBVIOUS
  <2>1. m + 1 \in 1..Len(pending) /\ pending'[m] = pending[m + 1] /\ d + (m + 1) = (d + 1) + m
    BY <1>6
  <2> QED BY <2>1, <1>4, <1>5
\* The places before this step.
<1>10. ASSUME NEW h \in 1..Len(variants)
       PROVE  /\ Len(variants[h].to) \in 1..p.perVariant /\ Len(variants[h].to) <= d
              /\ \A j \in 1..Len(variants[h].to) :
                  /\ p.keyOf[variants[h].to[j]] = variants[h].key
                  /\ \E n \in 1..d : variants[h].to[j] = p.recipients[n]
                  /\ variants[h].to[j] # r
  <2>1. /\ Len(variants[h].to) \in 1..p.perVariant /\ Len(variants[h].to) <= d
        /\ \A j \in 1..Len(variants[h].to) :
            /\ p.keyOf[variants[h].to[j]] = variants[h].key
            /\ \E n \in 1..d : variants[h].to[j] = p.recipients[n]
    BY <1>5 DEF AnalysisInv, PlacesKept, VariantsFilled
  <2>2. \A n \in 1..d : p.recipients[n] # p.recipients[d + 1]
    <3>1. \A n \in 1..d : n \in 1..Len(p.recipients) /\ n # d + 1 BY <1>4, <1>5, <1>7
    <3> QED BY <1>4, <1>7, <3>1
  <2> QED BY <2>1, <2>2, <1>8
<1>11. /\ \A h, i \in 1..Len(variants) : \A j \in 1..Len(variants[h].to), k \in 1..Len(variants[i].to) :
            variants[h].to[j] = variants[i].to[k] => h = i /\ j = k
       /\ \A n \in 1..d : \E i \in 1..Len(variants) : \E j \in 1..Len(variants[i].to) :
            variants[i].to[j] = p.recipients[n]
  BY <1>1, <1>5 DEF AnalysisInv, PlacesKept, OnePlaceEach, NobodyLeftOut
\* A place now is the new one or was one before.
<1>12. ASSUME NEW h \in 1..Len(variants'), NEW j \in 1..Len(variants'[h].to)
       PROVE  \/ h = a /\ j = b
              \/ /\ h \in 1..Len(variants) /\ j \in 1..Len(variants[h].to)
                 /\ variants'[h].to[j] = variants[h].to[j]
  BY <1>3 DEF Placed
<1>13. ASSUME NEW h \in 1..Len(variants), NEW j \in 1..Len(variants[h].to)
       PROVE  /\ h \in 1..Len(variants') /\ j \in 1..Len(variants'[h].to)
              /\ variants'[h].to[j] = variants[h].to[j]
  <2>1. CASE h = a BY <1>3, <1>10, <2>1 DEF Placed
  <2>2. CASE h # a BY <1>3, <2>2 DEF Placed
  <2> QED BY <2>1, <2>2
<1>14. PlacesKept(p)'
  <2>1. ASSUME NEW i \in 1..Len(variants')
        PROVE  /\ Len(variants'[i].to) \in 1..p.perVariant /\ Len(variants'[i].to) <= d + 1
               /\ \A j \in 1..Len(variants'[i].to) :
                   /\ p.keyOf[variants'[i].to[j]] = variants'[i].key
                   /\ \E n \in 1..(d + 1) : variants'[i].to[j] = p.recipients[n]
    <3>1. CASE i # a
      <4>1. i \in 1..Len(variants) /\ variants'[i] = variants[i] BY <1>3, <3>1 DEF Placed
      <4>2. \A n \in 1..d : n \in 1..(d + 1) OBVIOUS
      <4>3. Len(variants[i].to) \in Nat /\ Len(variants[i].to) <= d + 1 BY <1>10, <4>1
      <4> QED BY <4>1, <4>2, <4>3, <1>10
    <3>2. CASE i = a
      <4>1. b = Len(variants'[a].to) /\ b \in 1..p.perVariant /\ b <= d + 1
        <5>1. CASE a \in 1..Len(variants) BY <1>3, <1>10, <5>1 DEF Placed
        <5>2. CASE a \notin 1..Len(variants) BY <1>3, <5>2 DEF Placed
        <5> QED BY <5>1, <5>2
      <4>2. ASSUME NEW j \in 1..b
            PROVE  /\ p.keyOf[variants'[a].to[j]] = variants'[a].key
                   /\ \E n \in 1..(d + 1) : variants'[a].to[j] = p.recipients[n]
        <5>1. CASE j = b
          <6>1. d + 1 \in 1..(d + 1) OBVIOUS
          <6> QED BY <1>3, <1>8, <5>1, <6>1 DEF Placed
        <5>2. CASE j # b
          <6>1. /\ a \in 1..Len(variants) /\ j \in 1..Len(variants[a].to)
                /\ variants'[a].to[j] = variants[a].to[j] /\ variants'[a].key = variants[a].key
            BY <1>3, <5>2 DEF Placed
          <6>2. \A n \in 1..d : n \in 1..(d + 1) OBVIOUS
          <6> QED BY <6>1, <6>2, <1>10
        <5> QED BY <5>1, <5>2
      <4> QED BY <3>2, <4>1, <4>2
    <3> QED BY <3>1, <3>2
  <2>2. ASSUME NEW h \in 1..Len(variants'), NEW i \in 1..Len(variants'),
               NEW j \in 1..Len(variants'[h].to), NEW k \in 1..Len(variants'[i].to),
               variants'[h].to[j] = variants'[i].to[k]
        PROVE  h = i /\ j = k
    <3>1. variants'[a].to[b] = r BY <1>3 DEF Placed
    <3>2. \/ h = a /\ j = b
          \/ /\ h \in 1..Len(variants) /\ j \in 1..Len(variants[h].to)
             /\ variants'[h].to[j] = variants[h].to[j]
      BY <1>12
    <3>3. \/ i = a /\ k = b
          \/ /\ i \in 1..Len(variants) /\ k \in 1..Len(variants[i].to)
             /\ variants'[i].to[k] = variants[i].to[k]
      BY <1>12
    <3>4. CASE h = a /\ j = b /\ i = a /\ k = b BY <3>4
    <3>5. ASSUME h \in 1..Len(variants), j \in 1..Len(variants[h].to),
                 variants'[h].to[j] = variants[h].to[j], i = a, k = b
          PROVE  FALSE
      <4>1. variants[h].to[j] # r BY <1>10, <3>5
      <4> QED BY <2>2, <3>1, <3>5, <4>1
    <3>6. ASSUME i \in 1..Len(variants), k \in 1..Len(variants[i].to),
                 variants'[i].to[k] = variants[i].to[k], h = a, j = b
          PROVE  FALSE
      <4>1. variants[i].to[k] # r BY <1>10, <3>6
      <4> QED BY <2>2, <3>1, <3>6, <4>1
    <3>7. ASSUME h \in 1..Len(variants), j \in 1..Len(variants[h].to),
                 variants'[h].to[j] = variants[h].to[j],
                 i \in 1..Len(variants), k \in 1..Len(variants[i].to),
                 variants'[i].to[k] = variants[i].to[k]
          PROVE  h = i /\ j = k
      <4>1. variants[h].to[j] = variants[i].to[k] BY <2>2, <3>7
      <4> QED BY <1>11, <3>7, <4>1
    <3> QED BY <3>2, <3>3, <3>4, <3>5, <3>6, <3>7
  <2>3. ASSUME NEW n \in 1..(d + 1)
        PROVE  \E i \in 1..Len(variants') : \E j \in 1..Len(variants'[i].to) :
                 variants'[i].to[j] = p.recipients[n]
    <3>1. CASE n = d + 1
      <4>1. a \in 1..Len(variants') /\ b \in 1..Len(variants'[a].to) /\ variants'[a].to[b] = r
        BY <1>3 DEF Placed
      <4> QED BY <4>1, <3>1, <1>8
    <3>2. CASE n # d + 1
      <4>1. n \in 1..d BY <3>2
      <4> QED BY <4>1, <1>11, <1>13
    <3> QED BY <3>1, <3>2
  <2>4. variants' \in Seq(RenderedVariants(p)) BY <1>3 DEF Placed
  <2>5. EnvelopeOrder(p)' BY <1>6, <1>7, <1>9 DEF EnvelopeOrder
  <2>6. VariantsFilled(p)' BY <2>1, <2>4, <1>6, <1>7, <1>9 DEF VariantsFilled
  <2>7. OnePlaceEach' BY <2>2 DEF OnePlaceEach
  <2>8. NobodyLeftOut(p)' BY <2>3, <1>6, <1>7, <1>9 DEF NobodyLeftOut
  <2> QED BY <2>5, <2>6, <2>7, <2>8 DEF PlacesKept
<1>15. TagsKept(p)'
  <2>1. TagsKept(p) BY DEF AnalysisInv
  <2>2. ASSUME NEW h \in DOMAIN variants' PROVE variants'[h].tag => scan.ready
    <3>1. h \in 1..Len(variants') /\ DOMAIN variants = 1..Len(variants) BY <1>3, <1>4 DEF Placed
    <3>2. CASE h = a BY <1>3, <2>1, <3>1, <3>2 DEF Placed, TagsKept
    <3>3. CASE h # a BY <1>3, <2>1, <3>1, <3>3 DEF Placed, TagsKept
    <3> QED BY <3>2, <3>3
  <2> QED BY <1>1, <2>1, <2>2 DEF TagsKept, AnalysisPlaces
<1>16. AnalysisTypes(p)' BY <1>1 DEF AnalysisInv, AnalysisTypes
<1>17. VotesBacked' /\ SlotsFollow' /\ ScoreKept' /\ CompleteKept'
  BY <1>1 DEF AnalysisInv, VotesBacked, SlotsFollow, ScoreKept, CompleteKept
<1> QED BY <1>14, <1>15, <1>16, <1>17 DEF AnalysisInv

LEMMA RenderingEnds ==
    ASSUME NEW p, AnalysisKept(p), AnalysisInv(p), Analysis(p)!Rendered \/ Analysis(p)!Overrun
    PROVE  AnalysisInv(p)'
<1>1. /\ pc = "render" /\ UNCHANGED <<auth, slots, looked, scan, fallback, pending>>
      /\ \/ pc' = "done" /\ pending = << >> /\ variants' = variants
         \/ pc' = "deferred" /\ variants' = << >>
  BY DEF Analysis!Rendered, Analysis!Overrun
<1>2. AnalysisTypes(p)' BY <1>1 DEF AnalysisInv, AnalysisTypes, AnalysisPlaces, LaterPlaces
<1>3. VotesBacked' BY <1>1 DEF AnalysisInv, VotesBacked, EarlyPlaces
<1>4. SlotsFollow' BY <1>1 DEF AnalysisInv, SlotsFollow, EarlyPlaces, LaterPlaces
<1>5. ScoreKept' BY <1>1 DEF AnalysisInv, ScoreKept
<1>6. CompleteKept' BY <1>1 DEF AnalysisInv, CompleteKept, EarlyPlaces, LaterPlaces
<1>7. TagsKept(p)'
  <2>1. TagsKept(p) BY DEF AnalysisInv
  <2>2. DOMAIN << >> = {} OBVIOUS
  <2> QED BY <1>1, <2>1, <2>2 DEF TagsKept, AnalysisPlaces
<1>8. PlacesKept(p)'
  <2>1. CASE pc' = "done" /\ variants' = variants BY <1>1, <2>1, PlacesStay DEF AnalysisInv
  <2>2. CASE pc' = "deferred" /\ variants' = << >>
    <3>1. Len(variants') = 0 /\ variants' \in Seq(RenderedVariants(p)) BY <2>2
    <3>2. Served(p)' = Served(p) BY <1>1 DEF Served
    <3>3. EnvelopeOrder(p)' BY <1>1, <3>2 DEF AnalysisInv, PlacesKept, EnvelopeOrder
    <3>4. VariantsFilled(p)' /\ OnePlaceEach' BY <3>1 DEF VariantsFilled, OnePlaceEach
    <3>5. NobodyLeftOut(p)' BY <2>2 DEF NobodyLeftOut
    <3> QED BY <3>3, <3>4, <3>5 DEF PlacesKept
  <2> QED BY <1>1, <2>1, <2>2
<1> QED BY <1>2, <1>3, <1>4, <1>5, <1>6, <1>7, <1>8 DEF AnalysisInv

LEMMA AnalysisStep ==
    ASSUME NEW p, AnalysisKept(p), AnalysisInv(p), [Analysis(p)!Next]_(Analysis(p)!vars)
    PROVE  AnalysisInv(p)'
<1>1. CASE UNCHANGED Analysis(p)!vars
  <2>1. UNCHANGED <<pc, auth, slots, looked, scan, fallback, pending, variants>>
    BY <1>1 DEF Analysis!vars
  <2>2. AnalysisTypes(p)' BY <2>1 DEF AnalysisInv, AnalysisTypes
  <2>3. VotesBacked' /\ SlotsFollow' /\ ScoreKept' /\ CompleteKept'
    BY <2>1 DEF AnalysisInv, VotesBacked, SlotsFollow, ScoreKept, CompleteKept
  <2>4. TagsKept(p)' BY <2>1 DEF AnalysisInv, TagsKept
  <2>5. PlacesKept(p)' BY <2>1, PlacesStay DEF AnalysisInv
  <2> QED BY <2>2, <2>3, <2>4, <2>5 DEF AnalysisInv
<1> QED
  BY <1>1, InspectKeeps, AuthenticateKeeps, AuthTimeoutKeeps, SlotFills, JoinedKeeps, HistoryKeeps,
     LookupIpKeeps, LookupDomainKeeps, AdvisedKeeps, PreparedKeeps, UncheckedKeeps, DeadlineKeeps,
     RenderKeeps, RenderingEnds DEF Analysis!Next

LEMMA AnalysisCardinality == ASSUME NEW p, NEW S PROVE Analysis(p)!Cardinality(S) = Cardinality(S)
BY DEF Analysis!Cardinality, Cardinality

\* Every recipient of an accepted message has one place.
LEMMA OnePlace ==
    ASSUME NEW p, AnalysisKept(p), AnalysisInv(p), pc = "done", NEW n \in 1..Len(p.recipients)
    PROVE  Cardinality({q \in (1..Len(variants)) \X (1..Len(p.recipients)) :
                          /\ q[2] <= Len(variants[q[1]].to)
                          /\ variants[q[1]].to[q[2]] = p.recipients[n]}) = 1
<1> DEFINE R == {q \in (1..Len(variants)) \X (1..Len(p.recipients)) :
                   /\ q[2] <= Len(variants[q[1]].to)
                   /\ variants[q[1]].to[q[2]] = p.recipients[n]}
<1>1. pending = << >> /\ Len(pending) = 0 BY DEF AnalysisInv, TagsKept
<1>2. Len(p.recipients) \in Nat /\ Served(p) = Len(p.recipients) BY <1>1 DEF Served, AnalysisKept, NamesOnce
<1>3. PICK i \in 1..Len(variants) : \E j \in 1..Len(variants[i].to) : variants[i].to[j] = p.recipients[n]
  BY <1>2 DEF AnalysisInv, PlacesKept, NobodyLeftOut
<1>4. PICK j \in 1..Len(variants[i].to) : variants[i].to[j] = p.recipients[n] BY <1>3
<1>5. \A h \in 1..Len(variants) :
        Len(variants[h].to) \in Nat /\ Len(variants[h].to) <= Len(p.recipients)
  <2>1. \A h \in 1..Len(variants) :
          Len(variants[h].to) \in 1..p.perVariant /\ Len(variants[h].to) <= Served(p)
    BY DEF AnalysisInv, PlacesKept, VariantsFilled
  <2>2. p.perVariant \in Nat BY DEF AnalysisKept
  <2> QED BY <1>2, <2>1, <2>2
<1>6. <<i, j>> \in R
  <2>1. j \in 1..Len(p.recipients) /\ j <= Len(variants[i].to) BY <1>2, <1>5
  <2> QED BY <1>4, <2>1
<1>7. ASSUME NEW q \in R PROVE q = <<i, j>>
  <2>1. PICK h \in 1..Len(variants), k \in 1..Len(p.recipients) : q = <<h, k>> BY <1>7
  <2>2. k <= Len(variants[h].to) /\ variants[h].to[k] = p.recipients[n] BY <1>7, <2>1
  <2>3. Len(variants[h].to) \in Nat BY <1>5
  <2>4. k \in 1..Len(variants[h].to) BY <1>2, <2>2, <2>3
  <2>5. variants[h].to[k] = variants[i].to[j] BY <1>4, <2>2
  <2>6. \A f, g \in 1..Len(variants) : \A l \in 1..Len(variants[f].to), m \in 1..Len(variants[g].to) :
          variants[f].to[l] = variants[g].to[m] => f = g /\ l = m
    BY DEF AnalysisInv, PlacesKept, OnePlaceEach
  <2>7. h = i /\ k = j BY <2>4, <2>5, <2>6
  <2> QED BY <2>1, <2>7
<1>8. R = {<<i, j>>} BY <1>6, <1>7
<1>9. Cardinality({<<i, j>>}) = 1 BY FS_Singleton
<1> QED BY <1>8, <1>9

LEMMA AnalysisImplies ==
    ASSUME NEW p, AnalysisKept(p), AnalysisInv(p)
    PROVE  /\ Analysis(p)!TypeOK /\ Analysis(p)!FinishedChecksSurvive
           /\ Analysis(p)!ScoreCountsEveryVote /\ Analysis(p)!UnfinishedNeverVotes
           /\ Analysis(p)!TagsAreSealed /\ Analysis(p)!EveryRecipientOnce
<1>0. /\ scan \in AnalysisScans /\ scan.votes \in [{"auth", "policy", "ip", "domain", "llm"} -> 0..1]
  BY ScanTyped DEF AnalysisInv, AnalysisTypes
<1>1. Analysis(p)!TypeOK
  <2>1. scan.votes \in [Analysis(p)!Checks -> 0..2] BY <1>0 DEF Analysis!Checks
  <2> QED
    BY <2>1 DEF AnalysisInv, AnalysisTypes, AnalysisPlaces, EarlyPlaces, LaterPlaces,
                Analysis!TypeOK, Analysis!Awaits
<1>2. Analysis(p)!FinishedChecksSurvive
  BY DEF AnalysisInv, VotesBacked, SlotsFollow, LaterPlaces, Ended,
         Analysis!FinishedChecksSurvive, Analysis!Results
<1>3. Analysis(p)!ScoreCountsEveryVote BY DEF AnalysisInv, ScoreKept, Analysis!ScoreCountsEveryVote
<1>4. Analysis(p)!UnfinishedNeverVotes
  <2>1. \A k \in {"auth", "policy", "ip", "domain", "llm"} : scan.votes[k] > 0 => scan.votes[k] = 1
    BY <1>0
  <2>2. /\ scan.votes["auth"] > 0 => "all" \in auth
        /\ scan.votes["ip"] > 0 => scan.ip
        /\ scan.votes["llm"] > 0 => slots.llm = "taken" /\ scan.wanted
    BY <2>1 DEF AnalysisInv, VotesBacked
  <2>3. pc \in {"render", "done"} /\ scan.complete =>
          /\ "all" \in auth /\ scan.policy \in {"finding", "clean"} /\ scan.ip
          /\ scan.wanted => scan.llm \in {"finding", "clean"}
    BY DEF AnalysisInv, CompleteKept, LaterPlaces
  <2> QED BY <2>2, <2>3 DEF Analysis!UnfinishedNeverVotes, Analysis!Results
<1>5. Analysis(p)!TagsAreSealed
  <2>1. DOMAIN variants = 1..Len(variants) BY DEF AnalysisInv, PlacesKept, VariantsFilled
  <2> QED BY <2>1 DEF AnalysisInv, TagsKept, Analysis!TagsAreSealed
<1>6. Analysis(p)!EveryRecipientOnce
  <2>1. pc = "deferred" => variants = << >> BY DEF AnalysisInv, TagsKept
  <2>2. \A i \in 1..Len(variants) :
          /\ Len(variants[i].to) \in 1..p.perVariant
          /\ \A j \in 1..Len(variants[i].to) : p.keyOf[variants[i].to[j]] = variants[i].key
    BY DEF AnalysisInv, PlacesKept, VariantsFilled
  <2>3. pc = "done" =>
          \A n \in 1..Len(p.recipients) :
            Analysis(p)!Cardinality({q \in (1..Len(variants)) \X (1..Len(p.recipients)) :
                          /\ q[2] <= Len(variants[q[1]].to)
                          /\ variants[q[1]].to[q[2]] = p.recipients[n]}) = 1
    BY OnePlace, AnalysisCardinality
  <2> QED BY <2>1, <2>2, <2>3 DEF Analysis!EveryRecipientOnce
<1> QED BY <1>1, <1>2, <1>3, <1>4, <1>5, <1>6

\* Whatever the deadlines cancel: a check that finished is in the scan that is decided,
\* once and counted by the score; one that did not finish casts no vote and leaves the
\* scan partial; a tag is sealed; and an accepted message has every recipient in one
\* variant, with those of its outcome (src/engine.rs, process_with_source).
THEOREM AnalysisKeepsWhatFinished ==
    ASSUME NEW p, AnalysisKept(p)
    PROVE  Analysis(p)!Spec =>
            [](/\ Analysis(p)!TypeOK /\ Analysis(p)!FinishedChecksSurvive
               /\ Analysis(p)!ScoreCountsEveryVote /\ Analysis(p)!UnfinishedNeverVotes
               /\ Analysis(p)!TagsAreSealed /\ Analysis(p)!EveryRecipientOnce)
<1>1. Analysis(p)!Init => AnalysisInv(p) BY AnalysisInit
<1>2. AnalysisInv(p) /\ [Analysis(p)!Next]_(Analysis(p)!vars) => AnalysisInv(p)' BY AnalysisStep
<1>3. AnalysisInv(p) =>
        /\ Analysis(p)!TypeOK /\ Analysis(p)!FinishedChecksSurvive
        /\ Analysis(p)!ScoreCountsEveryVote /\ Analysis(p)!UnfinishedNeverVotes
        /\ Analysis(p)!TagsAreSealed /\ Analysis(p)!EveryRecipientOnce
  BY AnalysisImplies
<1> QED BY <1>1, <1>2, <1>3, PTL DEF Analysis!Spec

LEMMA MessageKept == AnalysisKept(MessageAnalysis)
<1>1. /\ MessageAnalysis.recipients = <<r1, r2, r3, r4>> /\ MessageAnalysis.perVariant = 2
      /\ MessageAnalysis.domains = 1 /\ MessageAnalysis.usesLlm = TRUE
  BY DEF MessageAnalysis
<1>2. PICK e : e = <<r1, r2, r3, r4>> OBVIOUS
<1>3. Len(e) = 4 /\ DOMAIN e = 1..4 /\ e[1] = r1 /\ e[2] = r2 /\ e[3] = r3 /\ e[4] = r4 BY <1>2
<1>4. \A k \in 1..4 : k = 1 \/ k = 2 \/ k = 3 \/ k = 4 OBVIOUS
<1>5. \A m, n \in 1..4 : e[m] = e[n] => m = n BY <1>3, <1>4, ValuesApart
<1>6. e \in Seq({e[n] : n \in 1..4})
  <2>1. {r1, r2, r3, r4} = {e[n] : n \in 1..4} BY <1>3, <1>4
  <2>2. e \in Seq({r1, r2, r3, r4}) BY <1>2
  <2> QED BY <2>1, <2>2
<1>7. MessageAnalysis.recipients = e BY <1>1, <1>2
<1>8. NamesOnce(e) BY <1>3, <1>5, <1>6 DEF NamesOnce
<1>9. NamesOnce(MessageAnalysis.recipients) BY <1>7, <1>8
<1>10. MessageAnalysis.perVariant \in Nat \ {0} /\ MessageAnalysis.domains \in Nat BY <1>1
<1>11. MessageAnalysis.usesLlm \in BOOLEAN BY <1>1
<1> QED BY <1>9, <1>10, <1>11, Zenon DEF AnalysisKept

\* The suite's message, with four recipients and room for two in a variant
\* (src/engine.rs, process_with_source and variants_inner).
THEOREM AnalysisProved == Spec => []AnalysisSafe
<1> DEFINE A == Chosen("analysis") => AnalysisInv(MessageAnalysis)
<1>1. Init => A BY MessageKept, AnalysisInit DEF Init, Chosen
<1>2. A /\ [Next]_vars => A'
  <2> SUFFICES ASSUME A, [Next]_vars, Chosen("analysis") PROVE AnalysisInv(MessageAnalysis)' BY ChoiceStep
  <2>1. [Analysis(MessageAnalysis)!Next]_(Analysis(MessageAnalysis)!vars)
    BY DEF Next, vars, Analysis!vars, Chosen
  <2> QED BY <2>1, MessageKept, AnalysisStep
<1>3. A => AnalysisSafe
  BY MessageKept, AnalysisImplies DEF AnalysisSafe, Chosen
<1> QED BY <1>1, <1>2, <1>3, PTL DEF Spec

=============================================================================
