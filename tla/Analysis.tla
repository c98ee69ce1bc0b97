------------------------------ MODULE Analysis ------------------------------
(***************************************************************************)
(* The analysis of one message (Engine::process_with_source).  Independent *)
(* checks run under one overall deadline that may cancel the work at any    *)
(* await: authentication with its own shorter timeout next to the SMTP      *)
(* policy, DNS reputation, then the LLM next to the providers.  Finished    *)
(* checks leave their result in a slot that outlives the cancelled work;    *)
(* the message is scored and decided from what is there, and rendered once  *)
(* per group of recipients with the same outcome (variants_inner).          *)
(*                                                                          *)
(* A vote counts how often a check's reasons are in the scan; `scored` is   *)
(* what the last score counted.                                             *)
(***************************************************************************)
EXTENDS Naturals, Sequences, FiniteSets

CONSTANTS Recipients,   \* the envelope, a sequence
          KeyOf,        \* recipient -> outcome of its policy, contacts and traffic
          TagKeys,      \* outcomes whose action is a subject tag
          PerVariant,   \* MAX_RECIPIENTS_PER_VARIANT
          Domains,      \* number of domains looked up in DNS
          UsesLlm       \* whether an LLM is configured

VARIABLES
  pc,         \* where the work is
  auth,       \* authentication: finished stages
  slots,      \* completed_policy and completed_llm, and whether providers ended
  looked,     \* reputation: domains looked up
  scan,       \* what the scan retains
  fallback,   \* the work was cancelled or could not authenticate
  pending,    \* recipients not yet rendered
  variants    \* groups <<key, recipients, tagged>>

vars == <<pc, auth, slots, looked, scan, fallback, pending, variants>>

Checks == {"auth", "policy", "ip", "domain", "llm"}
NoVotes == [k \in Checks |-> 0]

\* Where an await may be cancelled by the overall deadline.
Awaits == {"parallel", "history", "ip", "domains", "advise", "unauthenticated", "contacts"}

\* Every stage of process_with_source leaves a well-formed scan, with no check's reasons
\* in it more often than two attempts could put them there.
TypeOK ==
  /\ pc \in Awaits \cup {"inspect", "lost", "render", "done", "deferred"}
  /\ auth \subseteq {"arc", "dkim", "spf", "dmarc", "all", "ended"}
  /\ scan.votes \in [Checks -> 0..2]
  /\ looked \in 0..Domains

Init ==
  /\ pc = "inspect"
  /\ auth = {} /\ looked = 0
  /\ slots = [policy |-> "none", llm |-> "none", providers |-> FALSE]
  /\ scan = [complete |-> TRUE, votes |-> NoVotes, scored |-> NoVotes, policy |-> "none",
             llm |-> "none", wanted |-> FALSE, ip |-> FALSE, ready |-> FALSE,
             content |-> FALSE, sealable |-> FALSE]
  /\ fallback = FALSE
  /\ pending = Recipients /\ variants = <<>>

\* Every result a check may leave: a finding, nothing, or an unavailable service.
Results == {"finding", "clean", "unavailable"}

Score(s) == [s EXCEPT !.scored = s.votes]

\* The content checks end together; a failed one leaves the scan incomplete.  A
\* message that cannot be read, or has too many signatures, is not checked further.
Inspect ==
  /\ pc = "inspect"
  /\ \E complete, readable \in BOOLEAN :
       /\ ~readable => ~complete
       /\ scan' = [scan EXCEPT !.complete = complete]
       /\ pc' = IF readable THEN "parallel" ELSE "lost"
  /\ UNCHANGED <<auth, slots, looked, fallback, pending, variants>>

\* One authentication stage ends.  A temporary error ends the whole check.
Authenticate ==
  /\ pc = "parallel" /\ "ended" \notin auth
  /\ \E stage \in {"arc", "dkim", "spf", "dmarc"} \ auth, ok \in BOOLEAN :
       /\ stage # "arc" => "arc" \in auth
       /\ stage = "dmarc" => {"dkim", "spf"} \subseteq auth
       /\ IF ~ok THEN auth' = auth \cup {"ended"} /\ UNCHANGED scan
          ELSE IF stage # "dmarc"
          THEN /\ auth' = auth \cup {stage}
               /\ \E seal \in BOOLEAN :
                    scan' = IF stage = "arc" THEN [scan EXCEPT !.sealable = seal] ELSE scan
          ELSE /\ auth' = auth \cup {"dmarc", "all", "ended"}
               /\ \E fails \in BOOLEAN :
                    scan' = [scan EXCEPT !.votes["auth"] = @ + (IF fails THEN 1 ELSE 0)]
  /\ UNCHANGED <<pc, slots, looked, fallback, pending, variants>>

\* The 2 s timeout of authentication.
AuthTimeout ==
  /\ pc = "parallel" /\ "ended" \notin auth
  /\ auth' = auth \cup {"ended"}
  /\ UNCHANGED <<pc, slots, looked, scan, fallback, pending, variants>>

PolicyEnds ==
  /\ pc = "parallel" /\ slots.policy = "none"
  /\ \E r \in Results : slots' = [slots EXCEPT !.policy = r]
  /\ UNCHANGED <<pc, auth, looked, scan, fallback, pending, variants>>

\* Applying a policy or LLM result, as the normal path and retain_checks both do.
WithPolicy(s, r) ==
  [s EXCEPT !.policy = r, !.complete = @ /\ r # "unavailable",
            !.votes["policy"] = @ + (IF r = "finding" THEN 1 ELSE 0)]

WithLlm(s, r) ==
  [s EXCEPT !.llm = r, !.complete = @ /\ r # "unavailable",
            !.votes["llm"] = IF r = "finding" THEN 1 ELSE 0]

\* Both ended: the policy result leaves its slot, authentication is judged.
Joined ==
  /\ pc = "parallel" /\ "ended" \in auth /\ slots.policy # "none"
  /\ LET s == WithPolicy(scan, slots.policy)
     IN scan' = [s EXCEPT !.complete = @ /\ "all" \in auth]
  /\ slots' = [slots EXCEPT !.policy = "taken"]
  /\ pc' = "history"
  /\ UNCHANGED <<auth, looked, fallback, pending, variants>>

\* Sender history and the native filter's memory: local, bounded waits.
History ==
  /\ pc = "history" /\ pc' = "ip"
  /\ UNCHANGED <<auth, slots, looked, scan, fallback, pending, variants>>

\* After reputation: score, choose whether to ask the LLM, start both calls.
Selected(s) ==
  LET scored == Score(s)
  IN {[scored EXCEPT !.wanted = w, !.llm = IF w THEN "unavailable" ELSE "none"]
        : w \in IF UsesLlm THEN BOOLEAN ELSE {FALSE}}

\* reputation: the address, then each domain until one is positive.
LookupIp ==
  /\ pc = "ip"
  /\ \E r \in Results :
       IF r = "unavailable"
       THEN /\ scan' \in Selected([scan EXCEPT !.complete = FALSE])
            /\ pc' = "advise"
       ELSE /\ scan' = [scan EXCEPT !.ip = TRUE,
                                    !.votes["ip"] = @ + (IF r = "finding" THEN 1 ELSE 0)]
            /\ pc' = "domains"
  /\ UNCHANGED <<auth, slots, looked, fallback, pending, variants>>

LookupDomain ==
  /\ pc = "domains"
  /\ \/ /\ looked = Domains
        /\ scan' \in Selected(scan)
        /\ pc' = "advise" /\ UNCHANGED looked
     \/ /\ looked < Domains
        /\ \E r \in Results :
             /\ looked' = IF r = "unavailable" THEN looked ELSE looked + 1
             /\ LET s == [scan EXCEPT !.complete = @ /\ r # "unavailable",
                                      !.votes["domain"] = @ + (IF r = "finding" THEN 1 ELSE 0)]
                IN IF r = "clean" THEN scan' = s /\ UNCHANGED pc
                   ELSE scan' \in Selected(s) /\ pc' = "advise"
  /\ UNCHANGED <<auth, slots, fallback, pending, variants>>

ProvidersEnd ==
  /\ pc = "advise" /\ ~slots.providers
  /\ slots' = [slots EXCEPT !.providers = TRUE]
  /\ UNCHANGED <<pc, auth, looked, scan, fallback, pending, variants>>

LlmEnds ==
  /\ pc = "advise" /\ scan.wanted /\ slots.llm = "none"
  /\ \E r \in Results : slots' = [slots EXCEPT !.llm = r]
  /\ UNCHANGED <<pc, auth, looked, scan, fallback, pending, variants>>

\* Both ended: retain and score the LLM's advice; decide, or fall back when
\* authentication could not be completed.
Advised ==
  /\ pc = "advise" /\ slots.providers
  /\ scan.wanted => slots.llm # "none"
  /\ LET s == IF scan.wanted THEN Score(WithLlm(scan, slots.llm)) ELSE scan
     IN scan' = [s EXCEPT !.content = "all" \in auth]
  /\ slots' = [slots EXCEPT !.llm = IF scan.wanted THEN "taken" ELSE @]
  /\ pc' = IF "all" \in auth THEN "contacts" ELSE "unauthenticated"
  /\ UNCHANGED <<auth, looked, fallback, pending, variants>>

\* Contact lookups and traffic counters, then the wire is rendered.
Prepared ==
  /\ pc = "contacts"
  /\ scan' = [scan EXCEPT !.ready = scan.sealable]
  /\ pc' = "render"
  /\ UNCHANGED <<auth, slots, looked, fallback, pending, variants>>

\* finish_unchecked: score again, never tag.
Unchecked ==
  /\ pc \in {"unauthenticated", "lost"}
  /\ scan' = [Score(scan) EXCEPT !.ready = FALSE]
  /\ fallback' = TRUE
  /\ pc' = "render"
  /\ UNCHANGED <<auth, slots, looked, pending, variants>>

\* A cancellation that forgets the finished slots.
RetainNothing(s) == s

\* retain_checks: finished checks survive another one's exhausted deadline.
RetainChecks(s) ==
  LET p == IF slots.policy \in Results THEN WithPolicy(s, slots.policy) ELSE s
  IN IF slots.llm \in Results THEN WithLlm(p, slots.llm) ELSE p

\* The 5 s deadline drops the work at the await it is in.
Deadline ==
  /\ pc \in Awaits
  /\ LET s == RetainChecks(scan)
     IN scan' = [s EXCEPT !.complete = @ /\ scan.content]
  /\ slots' = [slots EXCEPT !.policy = IF @ \in Results THEN "taken" ELSE @,
                            !.llm = IF @ \in Results THEN "taken" ELSE @]
  /\ pc' = "lost"
  /\ UNCHANGED <<auth, looked, fallback, pending, variants>>

\* The last variant opened for a key, if it still has room.
Open(key) ==
  LET same == {i \in 1..Len(variants) : variants[i].key = key}
  IN {i \in same : (\A j \in same : j <= i) /\ Len(variants[i].to) < PerVariant}

\* variants_inner: each recipient joins the group of its outcome or opens one.
Render ==
  /\ pc = "render" /\ pending # <<>>
  /\ LET r == Head(pending)
         k == KeyOf[r]
     IN variants' = IF Open(k) # {}
          THEN [variants EXCEPT ![CHOOSE i \in Open(k) : TRUE].to = Append(@, r)]
          ELSE Append(variants, [key |-> k, to |-> <<r>>, tag |-> k \in TagKeys /\ scan.ready])
  /\ pending' = Tail(pending)
  /\ UNCHANGED <<pc, auth, slots, looked, scan, fallback>>

Rendered ==
  /\ pc = "render" /\ pending = <<>>
  /\ pc' = "done"
  /\ UNCHANGED <<auth, slots, looked, scan, fallback, pending, variants>>

\* Rendering runs out of its capacity or its 30 s: the client must try again.
Overrun ==
  /\ pc = "render" /\ pending # <<>>
  /\ pc' = "deferred" /\ variants' = <<>>
  /\ UNCHANGED <<auth, slots, looked, scan, fallback, pending>>

Next ==
  \/ Inspect \/ Authenticate \/ AuthTimeout \/ PolicyEnds \/ Joined \/ History
  \/ LookupIp \/ LookupDomain \/ ProvidersEnd \/ LlmEnds \/ Advised \/ Prepared
  \/ Unchecked \/ Deadline \/ Render \/ Rendered \/ Overrun

Spec == Init /\ [][Next]_vars

(***************************************************************************)
(* Properties.                                                             *)
(***************************************************************************)

\* Whatever cancels the work, a policy or LLM check that finished is in the scan that
\* is decided, once (comment above the slots in process_with_source).
FinishedChecksSurvive ==
  pc \in {"render", "done"} =>
    /\ slots.policy \notin Results /\ slots.llm \notin Results
    /\ slots.policy = "taken" => scan.policy \in Results
    /\ slots.policy = "taken" /\ scan.policy = "finding" => scan.votes["policy"] = 1
    /\ slots.llm = "taken" => scan.llm \in Results

\* The decided score counts exactly the votes that are in the scan.
ScoreCountsEveryVote ==
  pc \in {"render", "done"} => scan.scored = scan.votes

\* A check that was begun and not finished makes the analysis partial and casts no
\* vote: a silent resolver or provider is never taken for an answer.
UnfinishedNeverVotes ==
  /\ scan.votes["auth"] > 0 => "all" \in auth
  /\ scan.votes["ip"] > 0 => scan.ip
  /\ scan.votes["llm"] > 0 => slots.llm = "taken" /\ scan.wanted
  /\ pc \in {"render", "done"} /\ scan.complete /\ auth # {} =>
       /\ "all" \in auth
       /\ scan.policy \in Results \ {"unavailable"}
       /\ scan.ip
       /\ scan.wanted => scan.llm \in Results \ {"unavailable"}

\* The wire carries a subject tag only where the authentication chain can be sealed
\* again, and never after a fallback.
TagsAreSealed ==
  \A i \in 1..Len(variants) :
    variants[i].tag => scan.sealable /\ "all" \in auth /\ ~fallback

\* Accepted means every recipient is in exactly one variant, with those that share
\* its outcome, within the bound; a deferred message queues nothing.
EveryRecipientOnce ==
  /\ pc = "done" =>
       \A n \in 1..Len(Recipients) :
         Cardinality({p \in (1..Len(variants)) \X (1..Len(Recipients)) :
                        /\ p[2] <= Len(variants[p[1]].to)
                        /\ variants[p[1]].to[p[2]] = Recipients[n]}) = 1
  /\ \A i \in 1..Len(variants) :
       /\ Len(variants[i].to) \in 1..PerVariant
       /\ \A j \in 1..Len(variants[i].to) : KeyOf[variants[i].to[j]] = variants[i].key
  /\ pc = "deferred" => variants = <<>>
=============================================================================
