------------------------------ MODULE Decision ------------------------------
(***************************************************************************)
(* From detector facts to the action a recipient gets.  The engine decides *)
(* once for the message (Engine::decide), may raise the score for one       *)
(* recipient and decide again (identity correlation), assesses the          *)
(* recipient's policy (custom_filtering::assess_prepared) and freezes the   *)
(* result (decision_record::record_recipient).  The same chain runs again   *)
(* later as a simulation on the recorded facts.  Every stage rewrites the   *)
(* same Scan, keeps what it replaced (arbitration, score_resolution) and    *)
(* puts it back before it runs again; the properties are about what these   *)
(* rewritings add up to.                                                    *)
(*                                                                          *)
(* A fact record stands for what the detectors observed:                    *)
(*   features, av, auth, listed, context, opinion, grounded, signature,     *)
(*   gaps, publicity, finding, fusion, ready, score, body                   *)
(* where auth is the aligned-authentication result ("weak": SPF failed and  *)
(* nothing aligned, "fail": DMARC failed both ways), gaps the unavailable   *)
(* checks, score the content index on a coarse scale, fusion the usable     *)
(* prediction of a fusion model in decision mode ("off": none) and body what *)
(* a condition on the message itself (its text or size) finds.              *)
(***************************************************************************)
EXTENDS Integers, Sequences, FiniteSets

LOCAL INSTANCE SequencesExt

CONSTANTS Facts,     \* fact records a message may have
          Settings   \* filter settings and policies, see the policies below

VARIABLES facts, settings, scan, record, replay, phase

vars == <<facts, settings, scan, record, replay, phase>>

NoScore == -1
ContentThreshold == 2      \* config.filter.threshold on the model's scale
Scopes == {"any", "domain", "address"}
Rank == [any |-> 0, domain |-> 2, address |-> 4]

(***************************************************************************)
(* Detector evidence.                                                      *)
(***************************************************************************)

\* Observations besides the content index that confirm a high score.
Corroborated(f) == f.av = "malware" \/ f.auth = "fail" \/ f.listed

\* A PTR or sender-DNS timeout is the only gap of a readable message.
Readable(f) == f.features /\ f.av # "unavailable" /\ f.gaps = {"smtp"}

Opinion(f) == IF f.opinion = "phishing" THEN "unwanted" ELSE f.opinion

NeedsReview(f) ==
  /\ f.context \in {"notice", "passive"}
  /\ ~Corroborated(f)
  /\ f.auth = "pass"

BenignConflict(s, f) ==
  /\ s.complete \/ Readable(f)
  /\ f.features /\ f.av = "clean" /\ ~f.signature
  /\ ~Corroborated(f) /\ ~f.finding
  /\ f.auth = "pass" /\ f.context # "extortion"
  /\ Opinion(f) # "unwanted"
  /\ NeedsReview(f) \/ (f.opinion = "legitimate" /\ f.grounded)

\* Threats seen despite a missing SMTP policy check, or, with extortion and a
\* signature, a missing LLM.
ObservedThreat(s, f) ==
  LET extortion == f.context = "extortion"
      phishing  == f.opinion = "phishing"
      allowed   == {"smtp"} \cup (IF extortion /\ f.signature THEN {"llm"} ELSE {})
  IN /\ ~s.complete /\ f.features /\ f.av = "clean"
     /\ f.context # "notice"
     /\ f.gaps # {} /\ f.gaps \subseteq allowed
     /\ (f.signature /\ phishing) \/ (extortion /\ (f.signature \/ phishing))
     /\ f.opinion # "legitimate"
     /\ f.auth \in {"weak", "fail"}

(***************************************************************************)
(* The message's decision.                                                 *)
(***************************************************************************)

Legacy(s, t) ==
  [source  |-> "legacy",
   score   |-> IF s.complete THEN s.score ELSE NoScore,
   outcome |-> IF ~s.complete THEN "undetermined"
               ELSE IF s.score >= t THEN "unwanted" ELSE "legitimate"]

\* restore_score_resolution: put back what the last resolution replaced.
Restore(s) ==
  IF s.resolution # <<>> /\ s.decision = s.resolution[1].decision
  THEN [s EXCEPT !.decision = s.resolution[1].previous,
                 !.class = s.resolution[1].class, !.resolution = <<>>]
  ELSE [s EXCEPT !.resolution = <<>>]

\* An index that confirms itself.
MissingNever(s, f) == FALSE

\* Corroboration was required and nothing but the index is there.
Missing(s, f) == "confirmation" \in s.reasons /\ ~Corroborated(f)

\* The index a resolution uses: none without content features.
Index(s, f) == IF f.features THEN s.score ELSE NoScore

\* Benign evidence that contradicts the index.
Contradicted(s, f) ==
  ~Missing(s, f) /\ s.decision.source = "legacy" /\ BenignConflict(s, f)

\* The index settles the abstention, unless required corroboration is missing or
\* benign evidence contradicts it.
ByScore(s, f, t) ==
  [source  |-> "legacy", score |-> Index(s, f),
   outcome |-> IF ~Missing(s, f) /\ ~Contradicted(s, f) /\ Index(s, f) >= t
               THEN "unwanted" ELSE "legitimate"]

Resolved(s, new) ==
  [s EXCEPT !.decision = new,
            !.class = IF @ = "undetermined" THEN "none" ELSE @,
            !.resolution = <<[previous |-> s.decision, decision |-> new,
                              class |-> s.class, score |-> new.score]>>]

ResolveRestored(s, f, t) ==
  IF \/ s.decision.source = "antivirus"
     \/ s.decision.outcome # "undetermined" /\ s.class # "undetermined"
  THEN s ELSE Resolved(s, ByScore(s, f, t))

\* resolve_by_score
Resolve(s, f, t) == ResolveRestored(Restore(s), f, t)

\* A second opinion that disagrees, or is unsure about an uncorroborated
\* detection.
Disagrees(base, f) ==
  /\ Opinion(f) # base.outcome
  /\ ~(Opinion(f) = "undetermined" /\ base.outcome = "unwanted" /\ Corroborated(f))

Reviewed(s, after) ==
  [s EXCEPT !.decision = after,
            !.reasons = IF after # s.decision THEN @ \cup {"review"} ELSE @,
            !.arbitration = <<[baseline |-> s.decision, decision |-> after]>>]

\* arbitrate: such an opinion turns the decision into an abstention.
Arbitrate(s, f) ==
  IF \/ ~s.complete \/ s.decision.source # "legacy"
     \/ s.decision.outcome = "undetermined" \/ Opinion(f) = "none"
  THEN [s EXCEPT !.arbitration = <<>>]
  ELSE Reviewed(s, IF Disagrees(s.decision, f)
                   THEN [s.decision EXCEPT !.outcome = "undetermined", !.score = NoScore]
                   ELSE s.decision)

\* confirmation::apply: with the requirement on, the index alone abstains.
Confirm(s, f, require) ==
  LET reviewed == s.reasons \cap {"confirmation", "review"} # {}
      kept     == [s EXCEPT !.reasons = @ \ {"confirmation"}]
      d        == s.decision
  IN IF /\ require /\ ~Corroborated(f) /\ d.source = "legacy"
        /\ \/ d.outcome = "unwanted"
           \/ d.outcome = "undetermined" /\ (reviewed \/ ~s.complete)
     THEN [kept EXCEPT !.decision.outcome = "undetermined",
                       !.reasons = @ \cup {"confirmation"}]
     ELSE kept

Contextual(s, f, reviewed) ==
  IF /\ s.complete \/ Readable(f)
     /\ s.decision.source = "legacy"
     /\ \/ s.decision.outcome = "unwanted"
        \/ (reviewed \/ ~s.complete) /\ s.decision.outcome = "undetermined"
     /\ NeedsReview(f)
  THEN [s EXCEPT !.decision.outcome = "undetermined", !.decision.score = NoScore,
                 !.reasons = @ \cup {"context"}]
  ELSE s

\* Put back what the last arbitration replaced.
Unarbitrated(s) ==
  IF s.arbitration # <<>> /\ s.complete /\ s.decision = s.arbitration[1].decision
  THEN [s EXCEPT !.decision = s.arbitration[1].baseline, !.arbitration = <<>>]
  ELSE [s EXCEPT !.arbitration = <<>>]

Rearmed(s) == [s EXCEPT !.reasons = @ \ {"malware", "review", "context", "observed"}]

\* The arbitration record ends with the decision of the later stages.
Arbitrated(s) ==
  IF s.arbitration = <<>> THEN s ELSE [s EXCEPT !.arbitration[1].decision = s.decision]

Settle(s, f, require, reviewed) ==
  IF f.av = "malware"
  THEN [s EXCEPT !.decision = [source |-> "antivirus", outcome |-> "unwanted",
                               score |-> NoScore],
                 !.reasons = (@ \ {"confirmation"}) \cup {"malware"}]
  ELSE IF s.decision.source = "legacy" /\ ObservedThreat(s, f)
  THEN [s EXCEPT !.decision = [source |-> "legacy", outcome |-> "unwanted",
                               score |-> NoScore],
                 !.reasons = @ \cup {"observed"}]
  ELSE Arbitrated(Contextual(Confirm(Arbitrate(s, f), f, require), f, reviewed))

\* decision::apply
Apply(s, f, require) ==
  Settle(Rearmed(Unarbitrated(Restore(s))), f, require, "context" \in s.reasons)

\* Fusion::apply in decision mode: an unusable prediction abstains.
Fuse(s, f) ==
  IF f.fusion = "off" THEN s
  ELSE [s EXCEPT !.complete = @ /\ f.fusion # "unusable",
         !.decision = [source |-> "fusion",
                       outcome |-> CASE f.fusion = "spam" -> "unwanted"
                                     [] f.fusion = "ham" -> "legitimate"
                                     [] OTHER -> "undetermined",
                       score |-> IF f.fusion = "unusable" THEN NoScore ELSE 1]]

\* A scan without the decision it carried, as the stages find it.
Undecided(s, t) ==
  [s EXCEPT !.arbitration = <<>>, !.resolution = <<>>, !.decision = Legacy(s, t)]

\* Engine::decide
Decide(s, f, c) ==
  Resolve(Apply(Fuse([Undecided(s, ContentThreshold) EXCEPT
                        !.reasons = @ \ {"confirmation", "malware", "review"}], f),
                f, c.require), f, ContentThreshold)

\* mailing::category
Category(s, f) ==
  IF s.class # "none" THEN s.class
  ELSE CASE s.decision.outcome = "unwanted" -> "spam"
         [] s.decision.outcome = "undetermined" -> "undetermined"
         [] OTHER -> IF (s.complete \/ Readable(f)) /\ f.publicity
                     THEN "publicity" ELSE "legitimate"

(***************************************************************************)
(* Actions and what they require.                                          *)
(***************************************************************************)

\* What an incomplete scan may act on where partial coverage is allowed.
PartialBasis(s, f, c, category, t, matched) ==
  \/ f.av = "malware" \/ matched
  \/ category = "publicity" /\ f.publicity
  \/ /\ category = "spam"
     /\ \/ ObservedThreat(s, f)
        \/ /\ f.fusion \notin {"off", "unusable"} /\ s.decision.source = "fusion"
           /\ s.decision.outcome = "unwanted" /\ s.decision.score # NoScore
        \/ /\ f.fusion = "off" /\ f.features /\ s.score # NoScore
           /\ c.auto /\ s.score >= t

\* action_coverage::evaluate: may `action` be taken with this coverage?
Covered(s, f, c, category, action, t, matched) ==
  \/ action = "deliver"
  \/ /\ action = "tag" => f.ready
     /\ \/ f.av = "malware" /\ action = "quarantine"
        \/ s.complete
        \/ c.partial /\ PartialBasis(s, f, c, category, t, matched)

\* actions::constrain
Constrain(s, f, c, category, requested, t, matched) ==
  IF \/ c.mode = "observe"
     \/ ~Covered(s, f, c, category, requested, t, matched)
     \/ requested = "tag" /\ category \notin {"spam", "publicity"}
  THEN "deliver" ELSE requested

Requested(c, category) ==
  CASE category = "spam" -> c.spam
    [] category = "publicity" -> c.publicity
    [] OTHER -> "deliver"

\* actions::evaluate for a scan with no recipient record
GlobalAction(s, f, c, category) ==
  Constrain(s, f, c, category,
            IF f.av = "malware" THEN c.malware ELSE Requested(c, category),
            ContentThreshold, FALSE)

(***************************************************************************)
(* Policies.  c.profiles and c.prefs map the scopes that are bound to a     *)
(* profile, or to a preference [profile, rules]; rules are in priority      *)
(* order.  One recipient is in every scope.                                 *)
(***************************************************************************)

ByRank(S) == CHOOSE q \in [1..Cardinality(S) -> S] :
               \A i, j \in 1..Cardinality(S) : i < j => Rank[q[i]] > Rank[q[j]]

Narrowest(S) == CHOOSE x \in S : \A y \in S : Rank[x] >= Rank[y]

Gather(Op(_), q) == FlattenSeq([i \in 1..Len(q) |-> Op(q[i])])

FirstThreshold(profiles) ==
  LET own == {i \in 1..Len(profiles) : profiles[i].threshold # NoScore}
  IN IF own = {} THEN NoScore ELSE profiles[CHOOSE i \in own : \A j \in own : i <= j].threshold

AdminProfiles(c) ==
  Gather(LAMBDA x : <<c.profiles[x]>>, ByRank(DOMAIN c.profiles))

Personal(c) == IF c.enabled THEN DOMAIN c.prefs ELSE {}
WithProfile(c) == {x \in Personal(c) : c.prefs[x].profile # <<>>}

\* The profiles of the recipient, the one in force first.
Profiles(c) ==
  IF Personal(c) = {} THEN AdminProfiles(c)
  ELSE IF c.ordering = "scoped"
  THEN Gather(LAMBDA x : (IF x \in WithProfile(c) THEN c.prefs[x].profile ELSE <<>>)
                         \o (IF x \in DOMAIN c.profiles THEN <<c.profiles[x]>> ELSE <<>>),
              ByRank(Scopes))
  ELSE LET own == c.prefs[Narrowest(Personal(c))].profile
       IN IF own = <<>> THEN AdminProfiles(c)
          ELSE <<[own[1] EXCEPT !.threshold =
                    IF @ = NoScore THEN FirstThreshold(AdminProfiles(c)) ELSE @]>>
               \o Gather(LAMBDA x : <<c.profiles[x]>>,
                         ByRank(DOMAIN c.profiles \ {"address"}))

\* Personal rules run first and may not stop the administrator's.
Harmless(rules) == [i \in 1..Len(rules) |-> [rules[i] EXCEPT !.stop = FALSE]]

AdminRules(c) ==
  IF c.ordering = "scoped"
  THEN Gather(LAMBDA x : SelectSeq(c.rules, LAMBDA r : r.scope = x), Reverse(ByRank(Scopes)))
  ELSE c.rules

Rules(c) ==
  (IF Personal(c) = {} THEN <<>>
   ELSE IF c.ordering = "scoped"
   THEN Gather(LAMBDA x : Harmless(c.prefs[x].rules), Reverse(ByRank(Personal(c))))
   ELSE Harmless(c.prefs[Narrowest(Personal(c))].rules))
  \o AdminRules(c)

(***************************************************************************)
(* The recipient's assessment.                                             *)
(***************************************************************************)

\* The index a receipt shows: the decision's own, else the content index.
ShownScore(s, f) ==
  IF s.decision.source # "antivirus" /\ s.decision.score # NoScore THEN s.decision.score
  ELSE IF ~f.features \/ (s.resolution # <<>> /\ s.resolution[1].score = NoScore) THEN NoScore
  ELSE s.score

\* Facts::matches on a condition; a fact that is not known matches nothing.
Known(s, f, c, cond, original) ==
  CASE cond = "recipient" -> "yes"
    [] cond = "body"      -> f.body
    [] cond = "spam"      -> IF original = "spam" THEN "yes" ELSE "no"
    [] cond = "score"     ->
         LET v == IF c.ordering = "scoped" THEN ShownScore(s, f)
                  ELSE IF f.features THEN s.score ELSE NoScore
         IN IF v = NoScore THEN "unknown" ELSE IF v >= 1 THEN "yes" ELSE "no"
    [] cond = "unreviewed" -> IF ~s.complete THEN "unknown"
                              ELSE IF "review" \in s.reasons THEN "no" ELSE "yes"

Hit(s, f, c, r, original) ==
  LET yes == {x \in r.conds : Known(s, f, c, x, original) = "yes"}
  IN IF r.any THEN yes # {} ELSE yes = r.conds

\* The threshold of the recipient's own profiles, where it applies.
Override(s, f, c) ==
  IF f.fusion # "off" \/ s.decision.source # "legacy" \/ s.score = NoScore
  THEN NoScore ELSE FirstThreshold(Profiles(c))

Effective(override) == IF override = NoScore THEN ContentThreshold ELSE override

\* The scan decided again under the profile in force.
Reopened(s, f, require, override) ==
  Resolve(Apply(IF override = NoScore THEN s
                ELSE [Undecided(s, override) EXCEPT !.class = "none"],
                f, require \/ override # NoScore), f, Effective(override))

Profiled(s, f, c, profiles, override, original) ==
  IF profiles = <<>> THEN original
  ELSE Category(Reopened(s, f, c.require \/ profiles[1].require, override), f)

Choose(c, profiles, category) ==
  IF profiles # <<>> /\ category \in {"spam", "publicity", "undetermined"}
  THEN profiles[1][category] ELSE Requested(c, category)

\* The category a rule sets: an abstention is settled by the index.
Ruled(s, f, category, t) ==
  IF category # "undetermined" THEN category
  ELSE Category(Resolve([s EXCEPT !.resolution = <<>>, !.class = category], f, t), f)

\* What a matching rule makes of the verdict; cat is the category it leaves.
Followed(v, r, c, profiles, cat) ==
  [category |-> cat,
   requested |-> IF r.action # "none" THEN r.action
                 ELSE IF r.category = "none" THEN v.requested ELSE Choose(c, profiles, cat),
   matched |-> TRUE, stopped |-> r.stop,
   says |-> IF r.category = "none" THEN v.says ELSE r.category,
   ruled |-> v.ruled \/ r.category # "none"]

\* The rules in order, from the profile's category to the end or a stop.
RunRules(s, f, c, profiles, t, original, profiled) ==
  FoldLeft(LAMBDA v, r :
             IF v.stopped \/ ~Hit(s, f, c, r, original) THEN v
             ELSE Followed(v, r, c, profiles,
                           IF r.category = "none" THEN v.category
                           ELSE Ruled(s, f, r.category, t)),
           [category |-> profiled, requested |-> Choose(c, profiles, profiled),
            matched |-> FALSE, stopped |-> FALSE, says |-> "none", ruled |-> FALSE],
           Rules(c))

\* Malware overrides what the rules say; the action is what coverage allows.
Outcome(s, f, c, t, end, category, requested) ==
  [category |-> category, threshold |-> t, matched |-> end.matched, says |-> end.says,
   ruled |-> end.ruled, requested |-> requested,
   action |-> Constrain(s, f, c, category, requested, t, end.matched)]

Concluded(s, f, c, t, end) ==
  IF f.av = "malware" THEN Outcome(s, f, c, t, end, "spam", c.malware)
  ELSE Outcome(s, f, c, t, end, end.category, end.requested)

AssessFrom(s, f, c, profiles, override, original) ==
  Concluded(s, f, c, Effective(override),
            RunRules(s, f, c, profiles, Effective(override), original,
                     Profiled(s, f, c, profiles, override, original)))

\* assess_prepared: profile, rules in order, malware, constraints.
Assess(s, f, c) ==
  AssessFrom(s, f, c, Profiles(c), Override(s, f, c),
             Category(Resolve(s, f, ContentThreshold), f))

Custom(c) == c.rules # <<>> \/ DOMAIN c.profiles # {} \/ DOMAIN c.prefs # {}

\* The detector part of the record, taken before any recipient policy.
Analysis(s, f) ==
  [raw |-> IF ~f.features \/ (s.resolution # <<>> /\ s.resolution[1].score = NoScore)
           THEN NoScore ELSE s.score,
   reasons |-> s.reasons, decision |-> s.decision]

Class(s, f, category) ==
  IF f.av = "malware" THEN "malware"
  ELSE IF category = "spam" /\ f.opinion = "phishing" THEN "phishing"
  ELSE IF category \in {"spam", "publicity"} THEN category
  ELSE IF category = "legitimate" /\ ShownScore(s, f) # NoScore THEN "legitimate"
  ELSE "unassessed"

\* says is the category the last matching rule names, "none" without one.
Classified(class, category, action, matched, says) ==
  [category |-> IF class = "unassessed" THEN "legitimate" ELSE category,
   class |-> class, action |-> action, matched |-> matched, says |-> says]

\* record_recipient without a recipient policy, and under one
RecordGlobal(s, f, c, category) ==
  Classified(Class(s, f, category), category, GlobalAction(s, f, c, category), FALSE, "none")

RecordPolicy(s, f, policy, category) ==
  Classified(Class(s, f, category), category, policy.action, policy.matched, policy.says)

(***************************************************************************)
(* Steps.                                                                  *)
(***************************************************************************)

Fresh(f) ==
  [decision |-> [source |-> "legacy", outcome |-> "undetermined", score |-> NoScore],
   arbitration |-> <<>>, resolution |-> <<>>, reasons |-> {}, class |-> "none",
   complete |-> f.features /\ f.av # "unavailable" /\ f.gaps = {}, score |-> f.score,
   analysis |-> <<>>]

Nothing ==
  [category |-> "none", class |-> "none", action |-> "none", matched |-> FALSE, says |-> "none"]

Init ==
  /\ facts \in Facts
  /\ settings \in Settings
  /\ scan = Fresh(facts)
  /\ record = Nothing /\ replay = Nothing
  /\ phase = "new"

\* Engine::decide, at the end of the checks
Analyse ==
  /\ phase = "new"
  /\ scan' = Decide(scan, facts, settings)
  /\ phase' = "decided"
  /\ UNCHANGED <<facts, settings, record, replay>>

\* A corroborated identity change raises this recipient's index and everything
\* is decided again on the scan that already carries a decision.
Weigh ==
  /\ phase = "decided"
  /\ Custom(settings) /\ scan.score < 2
  /\ scan' = Decide([scan EXCEPT !.score = @ + 1], facts, settings)
  /\ phase' = "weighed"
  /\ UNCHANGED <<facts, settings, record, replay>>

Based == [scan EXCEPT !.analysis = <<Analysis(scan, facts)>>]

\* variants_inner for one recipient with no policy of its own: classify, record
Conclude(s) ==
  /\ scan' = s
  /\ record' = RecordGlobal(s, facts, settings, Category(s, facts))

\* and under a policy, whose category stands unless it abstains
ConcludeUnder(s, policy) ==
  /\ scan' = s
  /\ record' = RecordPolicy(s, facts, policy,
                            IF policy.category = "undetermined" THEN Category(s, facts)
                            ELSE policy.category)

Receive ==
  /\ phase \in {"decided", "weighed"}
  /\ IF Custom(settings)
     THEN \E policy \in {Assess(scan, facts, settings)} :
            ConcludeUnder(Resolve([Based EXCEPT !.class = policy.category], facts,
                                  policy.threshold), policy)
     ELSE Conclude(Resolve(Based, facts, ContentThreshold))
  /\ phase' = "received"
  /\ UNCHANGED <<facts, settings, replay>>

\* The recorded scan as the detectors left it.
AsAnalysed(s, r) ==
  [s EXCEPT !.score = r.raw, !.reasons = r.reasons, !.decision = r.decision,
            !.class = "none", !.arbitration = <<>>, !.resolution = <<>>]

\* A legacy decision is taken again from the index.
Redecided(s) ==
  IF s.decision.source = "legacy"
  THEN [s EXCEPT !.decision = Legacy(s, ContentThreshold)] ELSE s

\* Facts::metadata: what was retained does not hold the message itself.
Retained == [facts EXCEPT !.body = "unknown"]

\* custom_filtering::simulate on the recorded scan and the retained facts
Simulate ==
  /\ phase = "received"
  /\ \E a \in {Assess(Resolve(Apply(Redecided(AsAnalysed(scan, scan.analysis[1])),
                                     facts, settings.require),
                               facts, ContentThreshold), Retained, settings)} :
       replay' = [category |-> a.category, class |-> "none", action |-> a.action,
                  matched |-> a.matched, says |-> a.says]
  /\ phase' = "simulated"
  /\ UNCHANGED <<facts, settings, scan, record>>

Next == Analyse \/ Weigh \/ Receive \/ Simulate

Spec == Init /\ [][Next]_vars

(***************************************************************************)
(* Properties.                                                             *)
(***************************************************************************)

\* Every stage leaves a well-formed scan, and once decided no abstention is left
\* (finalize: "Delivery policy always terminates").
TypeOK ==
  /\ phase \in {"new", "decided", "weighed", "received", "simulated"}
  /\ scan.score \in NoScore..2
  /\ phase # "new" => scan.decision.outcome # "undetermined"
  /\ record.category \in {"none", "spam", "publicity", "legitimate"}

\* Corroboration is required, by the filter, the profile in force or because a
\* profile moves the threshold; the message is spam; and nothing else was observed.
SpamByIndexAlone ==
  LET profiles == Profiles(settings) IN
  /\ phase = "received" /\ record.category = "spam" /\ facts.fusion = "off"
  /\ \/ settings.require
     \/ profiles # <<>> /\ (profiles[1].require \/ FirstThreshold(profiles) # NoScore)
  /\ ~Corroborated(facts) /\ ~ObservedThreat(scan, facts)

\* Where corroboration is required a message is never spam on the index alone: some
\* other observation, an observed threat or a rule that says so stands behind it
\* (confirmation.rs "the content index alone cannot classify this message as spam").
\* Rules that leave the message undetermined are apart, see RequirementBindsRules.
IndexNeverActsAlone == SpamByIndexAlone => record.says \in {"spam", "undetermined"}

\* The same where a rule leaves the message undetermined, so that the index settles
\* it: docs/automatic-classification.md, "the same content index cannot undo that
\* requirement".  The code does not carry the requirement of the profile into the
\* settlement of the rule, so this does not hold.
RequirementBindsRules == SpamByIndexAlone => record.says = "spam"

\* A trusted malware finding survives every gap, opinion, rule and profile: the
\* record says malware, and the malware action is taken unless only observing.
MalwareWins ==
  phase = "received" /\ facts.av = "malware" =>
    /\ record.category = "spam" /\ record.class = "malware"
    /\ settings.mode = "enforce" /\ settings.malware = "quarantine"
       => record.action = "quarantine"

SameVerdict(a, b, f) == a.decision = b.decision /\ Category(a, f) = Category(b, f)

\* Running the decision stages again on their own result changes neither the
\* decision nor the category: abstentions are never taken for new evidence.
ReplayStable ==
  phase \in {"decided", "weighed"} =>
    SameVerdict(Resolve(Apply(scan, facts, settings.require), facts, ContentThreshold),
                scan, facts)

OnMessage(r) == "body" \in r.conds

\* A later simulation under the same policy reaches what was recorded at receipt
\* where no rule looks at the message itself; and where one does, no rule matches in
\* a simulation when none did at receipt (Facts::metadata, "absence of a retained
\* field must not satisfy a negative rule").
SimulationAgrees ==
  phase = "simulated" /\ facts.fusion = "off" =>
    /\ replay.matched => record.matched
    /\ (\A i \in DOMAIN Rules(settings) : ~OnMessage(Rules(settings)[i]))
       => replay.category = record.category /\ replay.action = record.action

\* With a fusion model in charge nothing is tagged or held as spam unless fusion
\* itself says so, or malware, an observed threat or a rule does.
FusionHasNoFallback ==
  phase = "received" /\ facts.fusion # "off" /\ record.category = "spam"
    /\ record.action # "deliver"
    => \/ facts.fusion = "spam" \/ facts.av = "malware" \/ record.matched
       \/ ObservedThreat(scan, facts)

Upheld(own, admin) ==
  admin.ruled => own.category = admin.category /\ own.requested = admin.requested

\* What an administrator's rule decides stands whatever the mailbox's own rules say.
AdminRulesAuthoritative ==
  phase \in {"decided", "weighed"} /\ facts.av # "malware" =>
    Upheld(Assess(scan, facts, settings),
           Assess(scan, facts, [settings EXCEPT !.prefs =
                                  [x \in DOMAIN @ |-> [@[x] EXCEPT !.rules = <<>>]]]))
=============================================================================
