-------------------------- MODULE MailQueueProofs --------------------------
(***************************************************************************)
(* TLAPS proofs about MailQueue, for every set of messages, recipients and *)
(* transactions, every number of workers and hosts and any bound on        *)
(* crashes.                                                                *)
(***************************************************************************)
EXTENDS MailQueue, TLAPS

\* Identifiers of DSNs and their deliveries do not collide with accepted mail.
LEMMA Identities ==
    /\ \A d \in Envelope :
         /\ d \in Deliveries /\ d[1] \in Mail /\ d[1] \in Ids /\ d[1] \notin Notices
         /\ Reply(d) \in Deliveries /\ Reply(d) \notin Envelope
         /\ Reply(d)[1] = Notice(d)
         /\ Notice(d) \in Notices /\ Notice(d) \in Ids /\ Notice(d) \notin Mail
    /\ \A d, e \in Envelope : Reply(d) = Reply(e) => d = e
    /\ \A d, e \in Envelope : Notice(d) = Notice(e) => d = e
    /\ \A d \in Deliveries : d[1] \in Ids
    /\ \A d \in Deliveries : d \in Envelope \/ \E e \in Envelope : d = Reply(e)
  BY EnvelopeAssumption
     DEF Ids, Notices, Notice, Deliveries, Reply

\* A fresh database and spool (store.rs, open) are well typed.
LEMMA TypeInit == Init => TypeOK
  BY BoundAssumption DEF Init, TypeOK, Status, Stages, Phases, Live, Terminal

\* Every step keeps the variables in their types.
LEMMA TypeStep == TypeOK /\ [Next]_vars => TypeOK'
<1> SUFFICES ASSUME TypeOK, [Next]_vars PROVE TypeOK' OBVIOUS
<1> USE DEF TypeOK, Status, Live, Terminal, Stages, Phases
<1>1. CASE Enqueue
  BY <1>1, BatchAssumption DEF Enqueue, BeginEnqueue, WriteBody, CommitBatch,
     FailBatch, Ids, durable, clock, evidence, worker, relay, history
<1>2. CASE Housekeeping
  BY <1>2 DEF Housekeeping, Unreported, BeginNotify, durable, clock, evidence, relay, history
<1>3. CASE Cleanup
  BY <1>3 DEF Cleanup, EndNotify, ExpireHolds, ListResolved, EndSweep, Tombstone,
     RemoveBody, Purge, durable, clock, evidence, worker, relay, history
<1>4. CASE Crash
  BY <1>4, BoundAssumption DEF Crash, Die, clock, evidence
<1>5. CASE Restart
  BY <1>5 DEF Restart, RecoverClaims, RecoverSpool, clock, evidence, worker,
     relay, history
<1>6. ASSUME NEW d \in Deliveries, Relay(d) PROVE TypeOK'
  <2>1. CASE Claim(d) \/ Spawn(d) \/ SyncFails(d)
    BY <2>1 DEF Claim, Spawn, SyncFails, durable, clock, evidence, history
  <2>2. CASE ExpireJob(d) \/ Contact(d) \/ Finish(d)
    BY <2>2, BoundAssumption DEF ExpireJob, Contact, Finish, durable, clock,
       evidence, worker, history
  <2>3. CASE HostAccepts(d) \/ \E kind \in {"refused", "content"} : HostRefuses(d, kind)
    BY <2>3 DEF HostAccepts, HostRefuses, OneMore, durable, clock, evidence,
       worker, history
  <2>4. CASE HostDefers(d) \/ ReplyLost(d)
    BY <2>4, BoundAssumption DEF HostDefers, ReplyLost, NextHost, OneMore, durable,
       clock, evidence, worker, history
  <2> QED BY <1>6, <2>1, <2>2, <2>3, <2>4 DEF Relay
<1>7. ASSUME NEW d \in Deliveries, Notify(d) PROVE TypeOK'
  <2>1. CASE NotifyNobody(d) \/ NotifyNullMx(d) \/ Suppress(d) \/ LookupFails(d)
    BY <2>1 DEF NotifyNobody, NotifyNullMx, Suppress, LookupFails, FinishNotified,
       durable, clock, evidence, relay, history
  <2>2. CASE d \in Envelope /\ EnqueueDsn(d)
    BY <2>2, Identities DEF EnqueueDsn, clock, evidence, relay, history
  <2>3. CASE d \in Envelope /\ CrashInDsn(d)
    BY <2>3, Identities, BoundAssumption DEF CrashInDsn, Die, clock, evidence
  <2> QED BY <1>7, <2>1, <2>2, <2>3 DEF Notify
<1>8. ASSUME NEW d \in Deliveries, Console(d) \/ Passage(d) PROVE TypeOK'
  BY <1>8 DEF Console, Passage, Release, Discard, HoldPasses, Age, durable, clock,
     evidence, worker, relay, history
<1>9. ASSUME NEW m \in Hostile, NEW l \in BOOLEAN, Feedback(m, l) PROVE TypeOK'
  BY <1>9, SenderAssumption DEF Feedback, durable, clock, worker, relay, history
<1>10. CASE UNCHANGED vars
  BY <1>10 DEF vars, durable, clock, evidence, worker, relay, history
<1> QED
  BY <1>1, <1>2, <1>3, <1>4, <1>5, <1>6, <1>7, <1>8, <1>9, <1>10 DEF Next

\* Type correctness of the queue.
THEOREM TypeCorrect == Spec => []TypeOK
  BY TypeInit, TypeStep, PTL DEF Spec
-----------------------------------------------------------------------------
\* A fresh database and spool satisfy the inductive invariant.
LEMMA InvInit == Init => QueueInv
<1> SUFFICES ASSUME Init PROVE QueueInv OBVIOUS
<1>1. TypeOK BY TypeInit
<1>2. \A d \in Envelope : Reply(d) \in Deliveries BY Identities
<1> QED
  BY <1>1, <1>2, Identities DEF Init, QueueInv, BodyOnDisk, UnresolvedHasBody, UnacceptedInvisible,
     ClaimsHaveJobs, UnacceptedUntouched, SweptIsResolved, BouncesStillFailed, NoSilentDuplicate,
     CopiesAccounted, OneAnswer, UnlinkedUnsent, Live

\* The SMTP side: files come before rows, and a batch's rows come together.
LEMMA EnqueueStep == QueueInv /\ TypeOK' /\ Enqueue => QueueInv'
<1> SUFFICES ASSUME QueueInv, TypeOK', NEW b \in Batches,
                    \/ BeginEnqueue(b)
                    \/ \E m \in b : WriteBody(b, m)
                    \/ \E held \in SUBSET {d \in Envelope : d[1] \in b} : CommitBatch(b, held)
                    \/ FailBatch(b)
             PROVE QueueInv'
  BY DEF Enqueue
<1> USE DEF QueueInv, TypeOK, Live
<1>0. b \subseteq Mail BY BatchAssumption
<1>1. CASE BeginEnqueue(b) \/ \E m \in b : WriteBody(b, m)
  BY <1>1 DEF BeginEnqueue, WriteBody, durable, clock, evidence, worker, relay,
     history, BodyOnDisk, UnresolvedHasBody, UnacceptedInvisible, ClaimsHaveJobs,
     UnacceptedUntouched, SweptIsResolved, BouncesStillFailed, NoSilentDuplicate, CopiesAccounted,
     OneAnswer, UnlinkedUnsent, Resolved
<1>2. ASSUME NEW held \in SUBSET {d \in Envelope : d[1] \in b}, CommitBatch(b, held)
      PROVE QueueInv'
  <2> USE <1>2 DEF CommitBatch, clock, evidence, worker, relay, history
  <2>1. \A d \in Deliveries : d[1] \in b => d \in Envelope /\ status[d] = "none"
    BY <1>0, Identities DEF UnacceptedInvisible
  <2>2. BodyOnDisk' /\ UnresolvedHasBody'
    BY DEF BodyOnDisk, UnresolvedHasBody
  <2>3. UnacceptedInvisible' /\ UnacceptedUntouched'
    BY BatchAssumption, Identities DEF UnacceptedInvisible, UnacceptedUntouched
  <2>4. ClaimsHaveJobs'
    BY <2>1 DEF ClaimsHaveJobs
  <2>5. SweptIsResolved'
    BY DEF SweptIsResolved, Resolved, DeliveriesOf
  <2>6. NoSilentDuplicate' /\ CopiesAccounted'
    BY <2>1 DEF NoSilentDuplicate, CopiesAccounted, UnacceptedInvisible
  <2>7. OneAnswer' /\ UnlinkedUnsent'
    BY <1>0, <2>1, Identities DEF OneAnswer, UnlinkedUnsent, NoSender, UnacceptedUntouched
  <2>8. BouncesStillFailed'
    BY <2>1 DEF BouncesStillFailed
  <2> QED BY <2>2, <2>3, <2>4, <2>5, <2>6, <2>7, <2>8
<1>3. CASE FailBatch(b)
  BY <1>3 DEF FailBatch, durable, clock, evidence, worker, relay,
     history, BodyOnDisk, UnresolvedHasBody, UnacceptedInvisible, ClaimsHaveJobs,
     UnacceptedUntouched, SweptIsResolved, BouncesStillFailed, NoSilentDuplicate, CopiesAccounted,
     OneAnswer, UnlinkedUnsent, Resolved
<1> QED BY <1>1, <1>2, <1>3
\* The relay: only the job that owns a claim moves it.
LEMMA RelayStep ==
    ASSUME NEW d \in Deliveries, QueueInv, TypeOK', Relay(d) PROVE QueueInv'
<1> USE DEF QueueInv, TypeOK, Live, clock, evidence, worker, relay, history, durable
<1>1. CASE Claim(d) \/ Spawn(d) \/ SyncFails(d)
  <2> USE <1>1 DEF Claim, Spawn, SyncFails
  <2>1. BodyOnDisk' /\ UnresolvedHasBody' /\ UnacceptedInvisible' /\ UnacceptedUntouched'
    BY Identities DEF BodyOnDisk, UnresolvedHasBody, UnacceptedInvisible,
       UnacceptedUntouched, ClaimsHaveJobs
  <2>2. ClaimsHaveJobs'
    BY DEF ClaimsHaveJobs
  <2>3. SweptIsResolved' /\ BouncesStillFailed'
    BY DEF SweptIsResolved, BouncesStillFailed, Resolved, DeliveriesOf, ClaimsHaveJobs
  <2>4. NoSilentDuplicate' /\ CopiesAccounted'
    BY DEF NoSilentDuplicate, CopiesAccounted, ClaimsHaveJobs
  <2>5. OneAnswer' /\ UnlinkedUnsent'
    BY Identities DEF OneAnswer, UnlinkedUnsent, NoSender, ClaimsHaveJobs
  <2> QED BY <2>1, <2>2, <2>3, <2>4, <2>5
<1>2. CASE ExpireJob(d) \/ Finish(d)
  <2> USE <1>2 DEF ExpireJob, Finish
  <2>0. status[d] = "sending" BY DEF ClaimsHaveJobs
  <2>1. BodyOnDisk' /\ UnresolvedHasBody' /\ UnacceptedInvisible' /\ UnacceptedUntouched'
    BY <2>0, Identities DEF BodyOnDisk, UnresolvedHasBody, UnacceptedInvisible,
       UnacceptedUntouched
  <2>2. ClaimsHaveJobs'
    BY DEF ClaimsHaveJobs
  <2>3. SweptIsResolved' /\ BouncesStillFailed'
    BY <2>0 DEF SweptIsResolved, BouncesStillFailed, Resolved, DeliveriesOf
  <2>4. NoSilentDuplicate' /\ CopiesAccounted'
    BY <2>0 DEF NoSilentDuplicate, CopiesAccounted
  <2>5. OneAnswer' /\ UnlinkedUnsent'
    BY <2>0, Identities DEF OneAnswer, UnlinkedUnsent, NoSender
  <2> QED BY <2>1, <2>2, <2>3, <2>4, <2>5
<1>3. CASE \/ Contact(d) \/ HostAccepts(d) \/ HostDefers(d) \/ ReplyLost(d)
           \/ \E kind \in {"refused", "content"} : HostRefuses(d, kind)
  <2> USE <1>3 DEF Contact, HostAccepts, HostDefers, ReplyLost, HostRefuses, NextHost
  <2>0. status[d] = "sending" /\ UNCHANGED <<durable, smtp, mode, worker>>
    BY DEF ClaimsHaveJobs
  <2>1. BodyOnDisk' /\ UnresolvedHasBody' /\ UnacceptedUntouched'
    BY <2>0 DEF BodyOnDisk, UnresolvedHasBody, UnacceptedUntouched
  <2>2. UnacceptedInvisible'
    BY <2>0, Identities DEF UnacceptedInvisible
  <2>3. ClaimsHaveJobs'
    BY <2>0 DEF ClaimsHaveJobs
  <2>4. SweptIsResolved' /\ BouncesStillFailed'
    BY <2>0 DEF SweptIsResolved, BouncesStillFailed, Resolved, DeliveriesOf
  <2>5. NoSilentDuplicate' /\ CopiesAccounted'
    BY <2>0 DEF NoSilentDuplicate, CopiesAccounted, OneMore
  <2>6. OneAnswer' /\ UnlinkedUnsent'
    BY <2>0, Identities DEF OneAnswer, UnlinkedUnsent, NoSender
  <2> QED BY <2>1, <2>2, <2>3, <2>4, <2>5, <2>6
<1> QED BY <1>1, <1>2, <1>3 DEF Relay

\* Failure reports: a failed delivery becomes terminal together with its DSN.
LEMMA NotifyStep ==
    ASSUME NEW d \in Deliveries, QueueInv, TypeOK',
           \/ NotifyNobody(d) \/ NotifyNullMx(d) \/ Suppress(d) \/ LookupFails(d)
           \/ (d \in Envelope /\ EnqueueDsn(d))
    PROVE  QueueInv'
<1> USE DEF QueueInv, TypeOK, Live, Sweeping, clock, evidence, worker, relay, history, durable
<1>0. status[d] = "failed" /\ d \notin linked /\ phase = "notify" /\ mode = "running"
  BY DEF BouncesStillFailed, NotifyNobody, NotifyNullMx, Suppress, LookupFails, EnqueueDsn
<1>1. CASE NotifyNobody(d) \/ NotifyNullMx(d) \/ Suppress(d) \/ LookupFails(d)
  <2> USE <1>1 DEF NotifyNobody, NotifyNullMx, Suppress, LookupFails, FinishNotified
  <2>0. /\ UNCHANGED <<files, raw, linked, hold, clock, evidence, smtp, mode, phase,
                       sweep, relay, history>>
        /\ bounces' = bounces \ {d}
        /\ \E s \in {"failed", "notified", "dsn_suppressed"} :
             status' = [status EXCEPT ![d] = s]
    BY <1>0
  <2> HIDE <1>1
  <2> HIDE DEF NotifyNobody, NotifyNullMx, Suppress, LookupFails, FinishNotified
  <2>1. BodyOnDisk' /\ UnresolvedHasBody'
    BY <1>0, <2>0 DEF BodyOnDisk, UnresolvedHasBody
  <2>2. UnacceptedInvisible' /\ UnacceptedUntouched'
    BY <1>0, <2>0, Identities DEF UnacceptedInvisible, UnacceptedUntouched
  <2>3. ClaimsHaveJobs' /\ BouncesStillFailed'
    BY <1>0, <2>0 DEF ClaimsHaveJobs, BouncesStillFailed
  <2>4. SweptIsResolved'
    BY <1>0, <2>0 DEF SweptIsResolved
  <2>5. NoSilentDuplicate' /\ CopiesAccounted'
    BY <1>0, <2>0 DEF NoSilentDuplicate, CopiesAccounted, ClaimsHaveJobs
  <2>6. OneAnswer' /\ UnlinkedUnsent'
    BY <1>0, <2>0, Identities DEF OneAnswer, UnlinkedUnsent, NoSender
  <2> QED BY <2>1, <2>2, <2>3, <2>4, <2>5, <2>6
<1>2. CASE d \in Envelope /\ EnqueueDsn(d)
  <2> USE <1>2 DEF EnqueueDsn
  <2>0. status[Reply(d)] = "none" /\ copies[Reply(d)] = 0 /\ Reply(d) # d
    BY <1>0, Identities DEF OneAnswer, UnlinkedUnsent
  <2>1. BodyOnDisk' /\ UnresolvedHasBody'
    BY <1>0, <2>0, Identities DEF BodyOnDisk, UnresolvedHasBody
  <2>2. UnacceptedInvisible'
    BY <1>0, Identities DEF UnacceptedInvisible
  <2>3. UnacceptedUntouched'
    BY <1>0, Identities, BatchAssumption DEF UnacceptedUntouched, UnacceptedInvisible
  <2>4. ClaimsHaveJobs' /\ BouncesStillFailed'
    BY <1>0, <2>0 DEF ClaimsHaveJobs, BouncesStillFailed
  <2>5. SweptIsResolved'
    BY <1>0 DEF SweptIsResolved
  <2>6. NoSilentDuplicate' /\ CopiesAccounted'
    BY <1>0, <2>0 DEF NoSilentDuplicate, CopiesAccounted, ClaimsHaveJobs
  <2>7. OneAnswer' /\ UnlinkedUnsent'
    BY <1>0, <2>0, Identities DEF OneAnswer, UnlinkedUnsent, NoSender, Eligible
  <2> QED BY <2>1, <2>2, <2>3, <2>4, <2>5, <2>6, <2>7
<1> QED BY <1>1, <1>2

\* Housekeeping: the sweep only ever holds messages nobody needs.
LEMMA CleanupStep == QueueInv /\ TypeOK' /\ (Housekeeping \/ Cleanup) => QueueInv'
<1> SUFFICES ASSUME QueueInv, TypeOK', Housekeeping \/ Cleanup PROVE QueueInv' OBVIOUS
<1> USE DEF QueueInv, TypeOK, Live, clock, evidence, worker, relay, history, durable
<1>1. CASE Housekeeping \/ EndNotify \/ EndSweep
           \/ \E behind \in SUBSET raw : ListResolved(behind)
  <2> USE <1>1 DEF Housekeeping, Unreported, BeginNotify, EndNotify, ListResolved, EndSweep
  <2>1. BodyOnDisk' /\ UnresolvedHasBody' /\ UnacceptedInvisible' /\ UnacceptedUntouched'
    BY DEF BodyOnDisk, UnresolvedHasBody, UnacceptedInvisible, UnacceptedUntouched
  <2>2. ClaimsHaveJobs' /\ NoSilentDuplicate' /\ CopiesAccounted'
    BY DEF ClaimsHaveJobs, NoSilentDuplicate, CopiesAccounted
  <2>3. OneAnswer' /\ UnlinkedUnsent'
    BY DEF OneAnswer, UnlinkedUnsent, NoSender
  <2>4. SweptIsResolved' /\ BouncesStillFailed'
    BY DEF SweptIsResolved, BouncesStillFailed, Resolved, UnacceptedUntouched
  <2> QED BY <2>1, <2>2, <2>3, <2>4
<1>2. CASE ExpireHolds \/ \E old \in SUBSET {m \in Ids : m \notin raw} : Purge(old)
  <2>0. /\ UNCHANGED <<files, raw, linked, smtp, mode, bounces, sweep, relay, history>>
        /\ phase \in {"expire", "purge"}
        /\ \A d \in Deliveries :
              \/ status'[d] = status[d]
              \/ status[d] = "quarantined" /\ status'[d] = "expired"
              \/ d[1] \notin raw /\ status'[d] = "none"
    BY <1>2 DEF ExpireHolds, Purge
  <2>1. BodyOnDisk' /\ UnresolvedHasBody' /\ UnacceptedUntouched'
    BY <2>0 DEF BodyOnDisk, UnresolvedHasBody, UnacceptedUntouched
  <2>2. UnacceptedInvisible'
    BY <2>0, Identities DEF UnacceptedInvisible
  <2>3. ClaimsHaveJobs'
    BY <2>0 DEF ClaimsHaveJobs, UnresolvedHasBody
  <2>4. NoSilentDuplicate' /\ CopiesAccounted'
    BY <2>0 DEF NoSilentDuplicate, CopiesAccounted
  <2>5. OneAnswer' /\ UnlinkedUnsent'
    BY <2>0, Identities DEF OneAnswer, UnlinkedUnsent, NoSender
  <2>6. SweptIsResolved' /\ BouncesStillFailed'
    BY <2>0, <1>2 DEF SweptIsResolved, BouncesStillFailed, ExpireHolds, Purge
  <2> QED BY <2>1, <2>2, <2>3, <2>4, <2>5, <2>6
<1>3. CASE \E m \in Ids : Tombstone(m) \/ RemoveBody(m)
  <2> PICK m \in Ids : Tombstone(m) \/ RemoveBody(m) BY <1>3
  <2> USE DEF Tombstone, RemoveBody
  <2>1. BodyOnDisk' BY DEF BodyOnDisk
  <2>2. UnresolvedHasBody'
    BY DEF UnresolvedHasBody, SweptIsResolved, Resolved, DeliveriesOf
  <2>3. UnacceptedInvisible' /\ UnacceptedUntouched'
    BY DEF UnacceptedInvisible, UnacceptedUntouched
  <2>4. ClaimsHaveJobs' /\ NoSilentDuplicate' /\ CopiesAccounted'
    BY DEF ClaimsHaveJobs, NoSilentDuplicate, CopiesAccounted
  <2>5. OneAnswer' /\ UnlinkedUnsent'
    BY DEF OneAnswer, UnlinkedUnsent, NoSender
  <2>6. SweptIsResolved' /\ BouncesStillFailed'
    BY DEF SweptIsResolved, BouncesStillFailed, Resolved
  <2> QED BY <2>1, <2>2, <2>3, <2>4, <2>5, <2>6
<1> QED BY <1>1, <1>2, <1>3 DEF Cleanup
\* Console commands and the clock.
LEMMA OutsideStep ==
    ASSUME QueueInv, TypeOK',
           \/ \E d \in Deliveries : Console(d) \/ Passage(d)
           \/ \E m \in Hostile, l \in BOOLEAN : Feedback(m, l)
           \/ UNCHANGED vars
    PROVE  QueueInv'
<1> USE DEF QueueInv, TypeOK, Live, clock, evidence, worker, relay, history, durable
<1>1. ASSUME NEW d \in Deliveries, Console(d) PROVE QueueInv'
  <2>0. /\ UNCHANGED <<files, raw, linked, smtp, mode, worker, relay, history>>
        /\ status[d] = "quarantined"
        /\ \E s \in {"pending", "discarded"} : status' = [status EXCEPT ![d] = s]
    BY <1>1 DEF Console, Release, Discard, MayAct
  <2>1. BodyOnDisk' /\ UnresolvedHasBody' /\ UnacceptedUntouched'
    BY <2>0 DEF BodyOnDisk, UnresolvedHasBody, UnacceptedUntouched
  <2>2. UnacceptedInvisible'
    BY <2>0, Identities DEF UnacceptedInvisible
  <2>3. ClaimsHaveJobs' /\ BouncesStillFailed'
    BY <2>0 DEF ClaimsHaveJobs, BouncesStillFailed
  <2>4. SweptIsResolved'
    BY <2>0 DEF SweptIsResolved, Resolved, DeliveriesOf
  <2>5. NoSilentDuplicate' /\ CopiesAccounted'
    BY <2>0 DEF NoSilentDuplicate, CopiesAccounted, ClaimsHaveJobs
  <2>6. OneAnswer' /\ UnlinkedUnsent'
    BY <2>0, Identities DEF OneAnswer, UnlinkedUnsent, NoSender
  <2> QED BY <2>1, <2>2, <2>3, <2>4, <2>5, <2>6
<1>2. CASE \/ \E d \in Deliveries : Passage(d)
           \/ \E m \in Hostile, l \in BOOLEAN : Feedback(m, l)
           \/ UNCHANGED vars
  <2>0. UNCHANGED <<files, raw, status, linked, smtp, mode, worker, relay, history>>
    BY <1>2 DEF Passage, HoldPasses, Age, Feedback, vars
  <2> QED
    BY <2>0 DEF BodyOnDisk, UnresolvedHasBody, UnacceptedInvisible, ClaimsHaveJobs,
       UnacceptedUntouched, SweptIsResolved, BouncesStillFailed, NoSilentDuplicate,
       CopiesAccounted, OneAnswer, UnlinkedUnsent, Resolved, NoSender
<1> QED BY <1>1, <1>2

\* Death keeps the journal and the spool; recovery undoes only claims and orphans.
LEMMA CrashStep ==
    ASSUME QueueInv, TypeOK',
           Crash \/ Restart \/ \E d \in Envelope : CrashInDsn(d)
    PROVE  QueueInv'
<1> USE DEF QueueInv, TypeOK, Live, clock, evidence, worker, relay, history, durable
<1>1. CASE Crash \/ \E d \in Envelope : CrashInDsn(d)
  <2>0. files \subseteq files' /\ Die
    BY <1>1 DEF Crash, CrashInDsn
  <2> USE DEF Die
  <2>1. BodyOnDisk' /\ UnresolvedHasBody' /\ UnacceptedUntouched'
    BY <2>0 DEF BodyOnDisk, UnresolvedHasBody, UnacceptedUntouched
  <2>2. UnacceptedInvisible' BY <2>0 DEF UnacceptedInvisible
  <2>3. ClaimsHaveJobs' /\ BouncesStillFailed' /\ SweptIsResolved'
    BY <2>0 DEF ClaimsHaveJobs, BouncesStillFailed, SweptIsResolved
  <2>4. NoSilentDuplicate' /\ CopiesAccounted'
    BY <2>0 DEF NoSilentDuplicate, CopiesAccounted
  <2>5. OneAnswer' /\ UnlinkedUnsent'
    BY <2>0 DEF OneAnswer, UnlinkedUnsent, NoSender
  <2> QED BY <2>1, <2>2, <2>3, <2>4, <2>5
<1>2. CASE RecoverClaims
  <2> USE <1>2 DEF RecoverClaims
  <2>0. bounces = {} /\ sweep = {} /\ \A d \in Deliveries : job[d] = "idle"
    BY DEF BouncesStillFailed, SweptIsResolved, ClaimsHaveJobs
  <2>1. BodyOnDisk' /\ UnresolvedHasBody' /\ UnacceptedUntouched'
    BY DEF BodyOnDisk, UnresolvedHasBody, UnacceptedUntouched
  <2>2. UnacceptedInvisible' BY Identities DEF UnacceptedInvisible
  <2>3. ClaimsHaveJobs' /\ BouncesStillFailed' /\ SweptIsResolved'
    BY <2>0 DEF ClaimsHaveJobs, BouncesStillFailed, SweptIsResolved
  <2>4. NoSilentDuplicate' /\ CopiesAccounted'
    BY <2>0 DEF NoSilentDuplicate, CopiesAccounted
  <2>5. OneAnswer' /\ UnlinkedUnsent'
    BY Identities DEF OneAnswer, UnlinkedUnsent, NoSender
  <2> QED BY <2>1, <2>2, <2>3, <2>4, <2>5
<1>3. CASE RecoverSpool
  BY <1>3 DEF RecoverSpool, BodyOnDisk, UnresolvedHasBody, UnacceptedInvisible,
     ClaimsHaveJobs, UnacceptedUntouched, SweptIsResolved, BouncesStillFailed,
     NoSilentDuplicate, CopiesAccounted, OneAnswer, UnlinkedUnsent, Resolved, NoSender
<1> QED BY <1>1, <1>2, <1>3 DEF Restart

\* Every step, of whichever actor, keeps the inductive invariant.
LEMMA InvStep == QueueInv /\ [Next]_vars => QueueInv'
<1> SUFFICES ASSUME QueueInv, [Next]_vars PROVE QueueInv' OBVIOUS
<1>1. TypeOK' BY TypeStep DEF QueueInv
<1>2. CASE Enqueue BY <1>1, <1>2, EnqueueStep
<1>3. CASE Housekeeping \/ Cleanup BY <1>1, <1>3, CleanupStep
<1>4. CASE Crash \/ Restart BY <1>1, <1>4, CrashStep
<1>5. ASSUME NEW d \in Deliveries, Relay(d) PROVE QueueInv'
  BY <1>1, <1>5, RelayStep
<1>6. ASSUME NEW d \in Deliveries, Notify(d) PROVE QueueInv'
  BY <1>1, <1>6, NotifyStep, CrashStep DEF Notify
<1>7. CASE \/ \E d \in Deliveries : Console(d) \/ Passage(d)
           \/ \E m \in Hostile, l \in BOOLEAN : Feedback(m, l)
           \/ UNCHANGED vars
  BY <1>1, <1>7, OutsideStep
<1> QED BY <1>2, <1>3, <1>4, <1>5, <1>6, <1>7 DEF Next

\* The inductive invariant of the queue holds in every reachable state.
THEOREM QueueCorrect == Spec => []QueueInv
  BY InvInit, InvStep, PTL DEF Spec

\* recover never meets a journal row without its body, so a restart always
\* serves again (store.rs, recover).
THEOREM RecoveryAlwaysServes == Spec => []BodyOnDisk
<1>1. QueueInv => BodyOnDisk BY DEF QueueInv
<1> QED BY <1>1, QueueCorrect, PTL

\* Mail that still needs work has its body (store.rs, cleanup and claim).
THEOREM NeverWithoutBody == Spec => []UnresolvedHasBody
<1>1. QueueInv => UnresolvedHasBody BY DEF QueueInv
<1> QED BY <1>1, QueueCorrect, PTL

\* Nobody's copy of a transaction that was not answered 250 is visible or sent
\* (store.rs, enqueue_variants_with_reserve).
THEOREM AcceptedAsOne == Spec => []UnacceptedInvisible
<1>1. QueueInv => UnacceptedInvisible BY DEF QueueInv
<1> QED BY <1>1, QueueCorrect, PTL

\* A duplicate at the upstream is always explained by a reply or a process that
\* died (relay.rs, outcome_after_attempt and run_job).
THEOREM DuplicatesExplained == Spec => []NoSilentDuplicate
<1>1. QueueInv => NoSilentDuplicate BY DEF QueueInv
<1> QED BY <1>1, QueueCorrect, PTL

\* One DSN at most per failure, and none for a suppressed or sender-less one
\* (store.rs, enqueue_dsn and suppress_hostile_dsn).
THEOREM AnsweredOnce == Spec => []OneAnswer
<1>1. QueueInv => OneAnswer BY DEF QueueInv
<1> QED BY <1>1, QueueCorrect, PTL

\* No step changes a terminal recipient or forgets one that needs work.
LEMMA ForgetsNothing ==
    QueueInv /\ [Next]_vars =>
      [\A d \in Deliveries :
         /\ status[d] \in Terminal => status'[d] \in {status[d], "none"}
         /\ status[d] \in Live => status'[d] # "none"]_vars
<1> SUFFICES ASSUME QueueInv, Next, NEW d \in Deliveries
             PROVE  /\ status[d] \in Terminal => status'[d] \in {status[d], "none"}
                    /\ status[d] \in Live => status'[d] # "none"
  OBVIOUS
<1> USE DEF QueueInv, TypeOK, Live, Terminal, durable
<1>1. CASE Enqueue
  <2> PICK b \in Batches :
        \/ BeginEnqueue(b)
        \/ \E m \in b : WriteBody(b, m)
        \/ \E held \in SUBSET {e \in Envelope : e[1] \in b} : CommitBatch(b, held)
        \/ FailBatch(b)
    BY <1>1 DEF Enqueue
  <2>1. smtp[b] # "accepted" /\ d[1] \in b => status[d] = "none"
    BY BatchAssumption, Identities DEF UnacceptedInvisible
  <2> QED BY <2>1 DEF BeginEnqueue, WriteBody, CommitBatch, FailBatch
<1>2. CASE Housekeeping \/ Crash
  BY <1>2 DEF Housekeeping, BeginNotify, Crash, Die
<1>3. CASE Cleanup
  BY <1>3 DEF Cleanup, EndNotify, ExpireHolds, ListResolved, EndSweep, Tombstone,
     RemoveBody, Purge, UnresolvedHasBody
<1>4. CASE Restart
  BY <1>4 DEF Restart, RecoverClaims, RecoverSpool
<1>5. ASSUME NEW e \in Deliveries, Relay(e)
      PROVE /\ status[d] \in Terminal => status'[d] \in {status[d], "none"}
            /\ status[d] \in Live => status'[d] # "none"
  BY <1>5 DEF Relay, Claim, Spawn, SyncFails, ExpireJob, Contact, HostAccepts,
     HostRefuses, HostDefers, ReplyLost, Finish, ClaimsHaveJobs
<1>6. ASSUME NEW e \in Deliveries, Notify(e)
      PROVE /\ status[d] \in Terminal => status'[d] \in {status[d], "none"}
            /\ status[d] \in Live => status'[d] # "none"
  <2>1. e \in bounces => status[e] = "failed" /\ e \notin linked BY DEF BouncesStillFailed
  <2>2. e \in Envelope /\ e \notin linked => status[Reply(e)] = "none" /\ Reply(e) # e
    BY Identities DEF OneAnswer
  <2> QED
    BY <1>6, <2>1, <2>2, Identities DEF Notify, NotifyNobody, NotifyNullMx, Suppress,
       LookupFails, FinishNotified, EnqueueDsn, CrashInDsn, Die, Sweeping
<1>7. CASE \/ \E e \in Deliveries : Console(e) \/ Passage(e)
           \/ \E m \in Hostile, l \in BOOLEAN : Feedback(m, l)
  BY <1>7 DEF Console, Passage, Release, Discard, MayAct, HoldPasses, Age, Feedback
<1> QED BY <1>1, <1>2, <1>3, <1>4, <1>5, <1>6, <1>7 DEF Next

\* Terminal states are final and unresolved recipients are never dropped.
THEOREM NothingIsForgotten == Spec => NothingForgotten
  BY QueueCorrect, ForgetsNothing, PTL DEF Spec, NothingForgotten
=============================================================================
