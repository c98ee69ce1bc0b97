------------------------- MODULE ReplicationProofs --------------------------
(***************************************************************************)
(* TLAPS proofs about Replication, for any mail, envelopes, requests under *)
(* way and crashes of the owner.                                           *)
(***************************************************************************)
EXTENDS Replication, TLAPS

\* Identities are what the code makes them: a message has an envelope of its own
\* recipients, a DSN gets a fresh identity, a process is not a message.
IdsApart ==
    /\ Envelope \subseteq Mail \X Rcpt
    /\ Mail \cap Notices = {} /\ Mail \cap Syncers = {}
    /\ MaxCrashes \in Nat

-----------------------------------------------------------------------------
(* The inductive invariant                                                  *)

\* The manifests of m that are on their way or may still be sent.
Outgoing(m) ==
    {r.man : r \in {q \in net : q.kind = "manifest" /\ q.id = m}} \cup
    {sync[p].man : p \in {q \in Syncers : sync[q].stage # "idle" /\ sync[q].id = m}}

\* With the one the peer has.
Manifests(m) == Outgoing(m) \cup {man \in {remote[m]} : man.known}

\* m was never committed, and nobody has heard of it.
Unborn(m) ==
    /\ gen[m] = 0 /\ acked[m] = 0 /\ m \notin raw
    /\ \A d \in Of(m) : status[d] = "none" /\ talk[d] = "idle" /\ d \notin sent

\* Requests name their caller; what is being sent has an identity.
Requests ==
    /\ \A r \in net : /\ r.kind \in {"body", "manifest"} /\ r.id \in Ids
                      /\ r.proc \in Mail \cup Syncers
                      /\ r.proc \in Mail => r.id = r.proc
    /\ \A p \in Syncers :
         \/ sync[p] = Idle
         \/ sync[p].stage \in {"body", "manifest"} /\ sync[p].id \in Ids
    /\ DOMAIN sync = Syncers
    /\ \A m \in Ids : ~remote[m].known => remote[m] = NoManifest

\* A row of ha_local goes with its message, a body with its unfinished work, and
\* neither comes back.
JournalKept ==
    /\ \A m \in Ids : /\ m \in raw => gen[m] > 0
                      /\ gen[m] = 0 => acked[m] = 0
                      /\ \A d \in Of(m) : /\ status[d] \in Live => m \in raw
                                          /\ status[d] # "none" => gen[m] > 0
                                          /\ talk[d] = "taken" => d \in sent
    /\ \A d \in linked : status[d] = "notified"
    /\ \A m \in Mail : smtp[m] # "accepted" => Unborn(m)
    /\ \A d \in Envelope : status[d] \in Live \/ smtp[d[1]] # "accepted" =>
         Unborn(Notice(d)) /\ Manifests(Notice(d)) = {}

\* What a manifest of m says is, or was, so: it is the candidate or an export, of
\* this generation or of an earlier one.
Honest(m, man) ==
    /\ man.known /\ man.gen \in Nat /\ man.body \in BOOLEAN /\ DOMAIN man.st = Of(m)
    /\ \A d \in Of(m) : man.st[d] \in Status
    /\ man.confirmed <=> man.gen > 0
    /\ man.gen = 0 => man.body /\ m \in Mail /\ \A d \in Of(m) : man.st[d] \in Live
    /\ m \in Mail /\ smtp[m] # "accepted" => man.gen = 0
    /\ gen[m] > 0 => man.gen <= gen[m]
    /\ gen[m] > 0 /\ man.gen = gen[m] =>
         (man.body <=> m \in raw) /\ \A d \in Of(m) : man.st[d] = status[d]
    /\ m \in raw => man.body
    /\ \A d \in Of(m) : status[d] \in Live => man.st[d] \in Live
    /\ ~man.body => /\ \A d \in Of(m) : man.st[d] \notin Live
                    /\ gen[m] > 0 => man.gen = gen[m]

AllHonest ==
    \A m \in Ids : \A man \in Manifests(m) :
        /\ Honest(m, man)
        /\ ~man.body => \A other \in Manifests(m) : other.gen <= man.gen

\* The peer's catalogue has the bodies its journal names.
PeerKept == \A m \in Ids : remote[m].body => blob[m] = "present" /\ m \in pfiles

\* An answered request has had its effect, and has it until it is used.
Answered ==
    /\ \A m \in Mail : m \in ok /\ smtp[m] = "manifest" => remote[m].known
    /\ \A p \in Syncers : p \in ok => sync[p].stage # "idle"
    /\ \A p \in Syncers : p \in ok /\ sync[p].stage = "manifest" =>
         /\ sync[p].man.body => remote[sync[p].id].known
         /\ remote[sync[p].id].known => remote[sync[p].id].gen >= sync[p].man.gen

\* The peer has every accepted message and every acknowledged generation; what it
\* forgot is never offered to it again with a body.
Copied ==
    \A m \in Ids :
        /\ m \in raw /\ (m \in Mail \/ acked[m] > 0) => remote[m].known
        /\ remote[m].known => acked[m] <= remote[m].gen
        /\ ~remote[m].known /\ m \notin raw /\ (m \in Mail => smtp[m] = "accepted") =>
             \A man \in Manifests(m) : ~man.body

\* From now on the peer only learns manifests in which d's state is in S.
Settles(d, g, S) == \A man \in Manifests(d[1]) : man.gen >= g => man.st[d] \in S

\* A claim is made known before its conversation opens, and stays known.
ClaimsKnown ==
    /\ \A d \in claimed : status[d] = "sending" /\ talk[d] = "idle" /\ claimed = {d}
    /\ sync["worker"].stage # "idle" =>
         \E d \in claimed : /\ sync["worker"].id = d[1] /\ sync["worker"].man.gen > 0
                            /\ Settles(d, sync["worker"].man.gen, {"sending"})
    /\ \A d \in Deliveries : talk[d] # "idle" =>
         /\ status[d] = "sending" /\ remote[d[1]].known /\ remote[d[1]].gen > 0
         /\ Settles(d, remote[d[1]].gen, {"sending"})

\* What was delivered and recorded is never pending or failed again, anywhere.
DeliveredKnown ==
    \A d \in sent \ doubt :
        /\ status[d] \in {"delivered", "none"} \/ (status[d] = "sending" /\ talk[d] = "taken")
        /\ Settles(d, remote[d[1]].gen, Status \ {"pending", "failed"})

\* The peer can only learn that a retired message is resolved.
RetiredKnown ==
    \A m \in Ids : gen[m] > 0 /\ m \notin raw =>
        \A d \in Of(m) : Settles(d, remote[m].gen, Status \ Live)

ReplicationInv ==
    /\ TypeOK /\ Requests /\ JournalKept /\ AllHonest /\ PeerKept /\ Answered /\ Copied
    /\ ClaimsKnown /\ DeliveredKnown /\ RetiredKnown

-----------------------------------------------------------------------------
(* Names                                                                    *)

\* How identities, recipients and DSNs are named.
LEMMA Names ==
    ASSUME IdsApart
    PROVE  /\ \A d \in Deliveries : d[1] \in Ids /\ d \in Of(d[1])
           /\ \A m : \A d \in Of(m) : d \in Deliveries /\ d[1] = m
           /\ \A m \in Mail : m \in Ids /\ m \notin Syncers /\ Of(m) \subseteq Envelope
           /\ \A d \in Envelope : /\ d \in Deliveries /\ d[1] \in Mail
                                  /\ Notice(d) \in Ids /\ Notice(d) \notin Mail
                                  /\ Reply(d) \in Deliveries /\ Reply(d)[1] = Notice(d)
                                  /\ Reply(d) \notin Envelope /\ Of(Notice(d)) = {Reply(d)}
           /\ \A c, d \in Envelope : Notice(c) = Notice(d) => c = d
           /\ \A m \in Ids : m \notin Mail => \E d \in Envelope : m = Notice(d)
<1>1. \A d \in Envelope : d[1] \in Mail /\ d \in Deliveries BY DEF IdsApart, Deliveries
<1>2. \A d \in Envelope : Notice(d) \in Notices /\ Notice(d) \in Ids /\ Notice(d) \notin Mail
  BY DEF Notices, Ids, IdsApart
<1>3. \A d \in Envelope : Reply(d) \in Deliveries /\ Reply(d)[1] = Notice(d)
  BY DEF Reply, Deliveries
<1>4. \A c, d : Notice(c) = Notice(d) => c = d
  BY DEF Notice
<1>5. \A d \in Envelope : Reply(d) \notin Envelope
  BY <1>1, <1>2, <1>3
<1>6. \A d \in Deliveries : d \in Envelope \/ \E c \in Envelope : d = Reply(c)
  BY DEF Deliveries
<1>7. \A d \in Deliveries : d[1] \in Ids
  BY <1>1, <1>2, <1>3, <1>6 DEF Ids
<1>8. \A d \in Envelope : Of(Notice(d)) = {Reply(d)}
  <2> TAKE d \in Envelope
  <2>1. \A c \in Deliveries : c[1] = Notice(d) => c = Reply(d)
    BY <1>1, <1>2, <1>3, <1>4, <1>6
  <2> QED BY <1>3, <2>1 DEF Of
<1>9. \A m \in Mail : Of(m) \subseteq Envelope
  BY <1>2, <1>3, <1>6 DEF Of
<1>10. \A m \in Mail : m \in Ids /\ m \notin Syncers BY DEF Ids, IdsApart
<1>11. \A m \in Ids : m \notin Mail => \E d \in Envelope : m = Notice(d) BY DEF Ids, Notices
<1>12. /\ \A d \in Deliveries : d \in Of(d[1])
       /\ \A m : \A d \in Of(m) : d \in Deliveries /\ d[1] = m
  BY DEF Of
<1> QED BY <1>1, <1>2, <1>3, <1>4, <1>5, <1>7, <1>8, <1>9, <1>10, <1>11, <1>12

\* The fields of the manifest and of the synchronizer that are not there.
LEMMA NullFields ==
    /\ NoManifest.gen = 0 /\ ~NoManifest.known /\ ~NoManifest.body /\ NoManifest.st = <<>>
    /\ Idle.stage = "idle" /\ Idle.man = NoManifest /\ Idle.id = <<>>
BY DEF NoManifest, Idle

\* Elements of Manifests, one by one.
LEMMA ManifestOf ==
    ASSUME NEW m
    PROVE  /\ remote[m].known => remote[m] \in Manifests(m)
           /\ \A p \in Syncers :
                sync[p].stage # "idle" /\ sync[p].id = m => sync[p].man \in Manifests(m)
           /\ \A q \in net : q.kind = "manifest" /\ q.id = m => q.man \in Manifests(m)
           /\ \A man \in Manifests(m) :
                \/ man = remote[m] /\ remote[m].known
                \/ \E p \in Syncers : sync[p].stage # "idle" /\ sync[p].id = m /\ man = sync[p].man
                \/ \E q \in net : q.kind = "manifest" /\ q.id = m /\ man = q.man
BY DEF Manifests, Outgoing

\* Requests are handled or lost, synchronizers stop: nothing new is said.
LEMMA NothingNew ==
    ASSUME remote' = remote, \A q \in net' : q \in net \/ q.kind = "body",
           \A p \in Syncers : sync'[p] = sync[p] \/ sync'[p] = Idle
    PROVE  \A m : Manifests(m)' \subseteq Manifests(m)
<1> SUFFICES ASSUME NEW m, NEW man \in Manifests(m)' PROVE man \in Manifests(m)
  OBVIOUS
<1>1. \/ man = remote[m] /\ remote[m].known
      \/ \E p \in Syncers : sync'[p].stage # "idle" /\ sync'[p].id = m /\ man = sync'[p].man
      \/ \E q \in net' : q.kind = "manifest" /\ q.id = m /\ man = q.man
  BY DEF Manifests, Outgoing
<1> QED BY <1>1, ManifestOf, NullFields

\* Or just one manifest is.
LEMMA OneNew ==
    ASSUME NEW m0, NEW man0, remote' = remote,
           \A q \in net' : q \in net \/ q.kind = "body" \/ (q.id = m0 /\ q.man = man0),
           \A p \in Syncers : \/ sync'[p] = sync[p]
                              \/ sync'[p].id = m0 /\ sync'[p].man = man0
    PROVE  \A m : \A man \in Manifests(m)' : man \in Manifests(m) \/ (m = m0 /\ man = man0)
<1> SUFFICES ASSUME NEW m, NEW man \in Manifests(m)'
             PROVE  man \in Manifests(m) \/ (m = m0 /\ man = man0)
  OBVIOUS
<1>1. \/ man = remote[m] /\ remote[m].known
      \/ \E p \in Syncers : sync'[p].stage # "idle" /\ sync'[p].id = m /\ man = sync'[p].man
      \/ \E q \in net' : q.kind = "manifest" /\ q.id = m /\ man = q.man
  BY DEF Manifests, Outgoing
<1> QED BY <1>1, ManifestOf

-----------------------------------------------------------------------------
(* Steps of the journal                                                     *)

\* What a transaction of the owner does to message m.
Same(m) ==
    /\ gen'[m] = gen[m] /\ acked'[m] = acked[m] /\ (m \in raw' <=> m \in raw)
    /\ \A d \in Of(m) : status'[d] = status[d]
Edited(m) ==
    /\ gen'[m] = gen[m] + 1 /\ acked'[m] = acked[m] /\ m \in raw /\ m \in raw'
    /\ \A d \in Of(m) : status'[d] \in Live => status[d] \in Live
Retired(m) ==
    /\ gen'[m] = gen[m] + 1 /\ acked'[m] = acked[m] /\ m \in raw /\ m \notin raw'
    /\ acked[m] >= gen[m] /\ \A d \in Of(m) : status'[d] = status[d] /\ status[d] \notin Live
Purged(m) ==
    /\ gen[m] > 0 /\ acked[m] >= gen[m] /\ m \notin raw
    /\ gen'[m] = 0 /\ acked'[m] = 0 /\ m \notin raw'
    /\ \A d \in Of(m) : status'[d] = "none"
Born(m) ==
    /\ Unborn(m) /\ gen'[m] = 1 /\ acked'[m] = 0 /\ m \in raw'
    /\ \A d \in Of(m) : status'[d] \in {"pending", "quarantined"}
    /\ \/ m \in Mail /\ remote[m].known /\ smtp[m] # "accepted" /\ smtp'[m] = "accepted"
       \/ \E d \in Envelope : /\ m = Notice(d) /\ Manifests(m) = {}
                              /\ status[d] = "failed" /\ status'[d] = "notified"

\* What they all do; a conversation or a claim they touch ends.
JournalStep ==
    /\ \A m \in Ids : Same(m) \/ Edited(m) \/ Retired(m) \/ Purged(m) \/ Born(m)
    /\ \A m \in Mail : \/ smtp'[m] = smtp[m]
                       \/ Born(m) /\ smtp'[m] = "accepted"
                       \/ smtp[m] # "accepted" /\ smtp'[m] = "refused"
    /\ \A d \in linked' : status'[d] = "notified"
    /\ \A d \in Deliveries : talk'[d] # "idle" => talk'[d] = talk[d] /\ status'[d] = status[d]
    /\ \A d \in claimed' : \/ claimed' = claimed /\ status'[d] = status[d]
                           \/ claimed = {} /\ claimed' = {d} /\ status'[d] = "sending"
                                /\ talk'[d] = "idle"
    /\ sync'["worker"] = Idle \/ claimed \subseteq claimed'
    /\ \A d \in sent \ doubt' : \/ status'[d] \in {"delivered", "none"}
                                \/ status'[d] = status[d] /\ talk'[d] = talk[d]
    /\ \A p \in Syncers : sync'[p] = sync[p] \/ (sync'[p] = Idle /\ p \notin ok')
    /\ DOMAIN sync' = Syncers
    /\ ok' \subseteq ok /\ doubt \subseteq doubt'
    /\ UNCHANGED <<net, peer, sent>>

\* A transaction of the owner preserves the invariant: what it changes is newer than
\* every manifest, and what it retires the peer already knows as resolved.
LEMMA JournalStepKeeps ==
    ASSUME IdsApart, ReplicationInv, TypeOK', JournalStep
    PROVE  ReplicationInv'
<1>0. UNCHANGED <<net, remote, blob, pfiles, sent>>
  BY DEF JournalStep, peer
<1>1. \A m : Manifests(m)' \subseteq Manifests(m)
  BY <1>0, NothingNew DEF JournalStep
<1>2. Requests'
  BY <1>0 DEF ReplicationInv, Requests, JournalStep
<1>t. /\ gen \in [Ids -> Nat] /\ acked \in [Ids -> Nat] /\ \A m \in Ids : acked[m] <= gen[m]
      /\ status \in [Deliveries -> Status] /\ status' \in [Deliveries -> Status]
  BY DEF ReplicationInv, TypeOK
<1>3. ASSUME NEW m \in Ids
      PROVE  /\ m \in raw' => gen'[m] > 0
             /\ gen'[m] = 0 => acked'[m] = 0
             /\ \A d \in Of(m) : /\ status'[d] \in Live => m \in raw'
                                 /\ status'[d] # "none" => gen'[m] > 0
                                 /\ talk'[d] = "taken" => d \in sent'
  <2>1. /\ m \in raw => gen[m] > 0
        /\ gen[m] = 0 => acked[m] = 0
        /\ \A d \in Of(m) : /\ status[d] \in Live => m \in raw
                            /\ status[d] # "none" => gen[m] > 0
                            /\ talk[d] = "taken" => d \in sent
    BY DEF ReplicationInv, JournalKept
  <2>2. gen[m] \in Nat BY <1>t
  <2>3. \A d \in Of(m) : talk'[d] = "taken" => d \in sent'
    BY <1>0, <2>1, Names DEF JournalStep
  <2>4. CASE Same(m) BY <2>1, <2>3, <2>4 DEF Same
  <2>5. CASE Edited(m) BY <2>1, <2>2, <2>3, <2>5 DEF Edited
  <2>6. CASE Retired(m) BY <2>1, <2>2, <2>3, <2>6 DEF Retired
  <2>7. CASE Purged(m) BY <2>3, <2>7 DEF Purged, Live
  <2>8. CASE Born(m) BY <2>3, <2>8 DEF Born, Live
  <2> QED BY <2>4, <2>5, <2>6, <2>7, <2>8 DEF JournalStep
<1>4. ASSUME NEW m \in Ids, Unborn(m), ~Born(m) PROVE Same(m) /\ Unborn(m)'
  <2>1. gen[m] = 0 /\ m \notin raw BY <1>4 DEF Unborn
  <2>2. Same(m) BY <1>4, <2>1, <1>t DEF JournalStep, Edited, Retired, Purged
  <2>3. \A d \in Of(m) : talk'[d] = "idle" /\ status'[d] = "none"
    BY <1>4, <2>2, Names DEF Unborn, JournalStep, Same
  <2> QED BY <1>0, <1>4, <2>2, <2>3 DEF Unborn, Same
<1>5. ASSUME NEW m \in Mail, smtp'[m] # "accepted" PROVE smtp[m] # "accepted" /\ Unborn(m)'
  <2>1. smtp[m] # "accepted" BY <1>5 DEF JournalStep
  <2>2. Unborn(m) BY <2>1 DEF ReplicationInv, JournalKept
  <2>3. ~Born(m) BY <1>5, Names DEF Born
  <2> QED BY <1>4, <2>1, <2>2, <2>3, Names
<1>6. ASSUME NEW d \in Envelope, status'[d] \in Live \/ smtp'[d[1]] # "accepted"
      PROVE  Unborn(Notice(d))' /\ Manifests(Notice(d))' = {}
  <2>1. d \in Of(d[1]) /\ d[1] \in Ids /\ d[1] \in Mail /\ Notice(d) \in Ids
    BY Names
  <2>2. status[d] \in Live \/ smtp[d[1]] # "accepted"
    <3>1. CASE smtp'[d[1]] # "accepted" BY <1>5, <2>1, <3>1
    <3>2. CASE status'[d] \in Live
      <4>1. status'[d] # "none" /\ status'[d] \in Live BY <3>2 DEF Live
      <4>2. Same(d[1]) => status[d] \in Live BY <2>1, <4>1 DEF Same
      <4>3. Edited(d[1]) => status[d] \in Live BY <2>1, <4>1 DEF Edited
      <4>4. ~Retired(d[1]) /\ ~Purged(d[1]) BY <2>1, <4>1 DEF Retired, Purged
      <4>5. Born(d[1]) => smtp[d[1]] # "accepted" BY <2>1, Names DEF Born
      <4> QED BY <2>1, <4>2, <4>3, <4>4, <4>5 DEF JournalStep
    <3> QED BY <1>6, <3>1, <3>2
  <2>3. Unborn(Notice(d)) /\ Manifests(Notice(d)) = {}
    BY <2>2 DEF ReplicationInv, JournalKept
  <2>4. ~Born(Notice(d))
    <3> SUFFICES ASSUME Born(Notice(d)) PROVE FALSE
      OBVIOUS
    <3>1. status[d] = "failed" /\ status'[d] = "notified" BY Names DEF Born
    <3>2. status'[d] \notin Live BY <3>1 DEF Live
    <3>3. gen[d[1]] > 0 BY <2>1, <3>1 DEF ReplicationInv, JournalKept
    <3>4. smtp[d[1]] = "accepted" BY <2>1, <3>3 DEF ReplicationInv, JournalKept, Unborn
    <3> QED BY <1>5, <1>6, <2>1, <3>2, <3>4
  <2> QED BY <1>1, <1>4, <2>1, <2>3, <2>4
<1>7. JournalKept'
  BY <1>3, <1>5, <1>6 DEF JournalStep, JournalKept
<1>8. ASSUME NEW m \in Ids, NEW man \in Manifests(m) PROVE Honest(m, man)'
  <2>1. Honest(m, man) /\ gen[m] \in Nat BY <1>t DEF ReplicationInv, AllHonest
  <2>2. m \in Mail /\ smtp'[m] # "accepted" => man.gen = 0
    BY <1>5, <2>1 DEF Honest
  <2>3. CASE Same(m)
    BY <2>1, <2>2, <2>3 DEF Same, Honest
  <2>4. CASE Edited(m)
    <3>1. gen[m] > 0 /\ man.gen \in Nat /\ man.gen <= gen[m] /\ man.body
      BY <2>1, <2>4 DEF Edited, Honest, ReplicationInv, JournalKept
    <3>2. gen'[m] > man.gen BY <2>1, <2>4, <3>1 DEF Edited
    <3> QED BY <2>1, <2>2, <2>4, <3>1, <3>2 DEF Edited, Honest
  <2>5. CASE Retired(m)
    <3>1. gen[m] > 0 /\ man.gen \in Nat /\ man.gen <= gen[m] /\ man.body
      BY <2>1, <2>5 DEF Retired, Honest, ReplicationInv, JournalKept
    <3>2. gen'[m] > man.gen BY <2>1, <2>5, <3>1 DEF Retired
    <3> QED BY <2>1, <2>2, <2>5, <3>1, <3>2 DEF Retired, Honest
  <2>6. CASE Purged(m)
    BY <2>1, <2>2, <2>6 DEF Purged, Honest, Live
  <2>7. CASE Born(m)
    <3>1. m \in Mail /\ smtp[m] # "accepted" BY <2>7 DEF Born
    <3>2. man.gen = 0 BY <2>1, <3>1 DEF Honest
    <3> QED BY <2>1, <2>2, <2>7, <3>2 DEF Born, Honest
  <2> QED BY <2>3, <2>4, <2>5, <2>6, <2>7 DEF JournalStep
<1>9. AllHonest'
  BY <1>1, <1>8 DEF AllHonest, ReplicationInv
<1>10. PeerKept' BY <1>0 DEF ReplicationInv, PeerKept
<1>11. Answered'
  <2>1. \A m \in Mail : m \in ok' /\ smtp'[m] = "manifest" => remote'[m].known
    BY <1>0 DEF JournalStep, ReplicationInv, Answered
  <2>2. \A p \in Syncers : p \in ok' => p \in ok /\ sync'[p] = sync[p]
    BY DEF JournalStep
  <2> QED BY <1>0, <2>1, <2>2 DEF ReplicationInv, Answered
<1>12. Copied'
  <2> SUFFICES ASSUME NEW m \in Ids
               PROVE  /\ m \in raw' /\ (m \in Mail \/ acked'[m] > 0) => remote[m].known
                      /\ remote[m].known => acked'[m] <= remote[m].gen
                      /\ ~remote[m].known /\ m \notin raw' /\ (m \in Mail => smtp'[m] = "accepted")
                           => \A man \in Manifests(m)' : ~man.body
    BY <1>0 DEF Copied
  <2>1. /\ m \in raw /\ (m \in Mail \/ acked[m] > 0) => remote[m].known
        /\ remote[m].known => acked[m] <= remote[m].gen
        /\ ~remote[m].known /\ m \notin raw /\ (m \in Mail => smtp[m] = "accepted")
             => \A man \in Manifests(m) : ~man.body
    BY DEF ReplicationInv, Copied
  <2>2. remote[m].known => remote[m].gen \in Nat
    BY ManifestOf DEF ReplicationInv, AllHonest, Honest
  <2>3. m \in Mail /\ smtp'[m] = "accepted" /\ ~Born(m) => smtp[m] = "accepted"
    BY DEF JournalStep
  <2>4. CASE Same(m) /\ ~Born(m)
    BY <1>1, <2>1, <2>3, <2>4 DEF Same
  <2>5. CASE Edited(m)
    BY <2>1, <2>5 DEF Edited
  <2>6. CASE Retired(m)
    <3>1. acked[m] > 0
      BY <1>t, <2>6 DEF Retired, ReplicationInv, JournalKept
    <3> QED BY <2>1, <2>6, <3>1 DEF Retired
  <2>7. CASE Purged(m)
    <3>1. m \in Mail => smtp[m] = "accepted"
      BY <2>7 DEF Purged, ReplicationInv, JournalKept, Unborn
    <3> QED BY <1>1, <2>1, <2>2, <2>7, <3>1 DEF Purged
  <2>8. CASE Born(m)
    <3>1. m \in Mail => remote[m].known BY <2>8, Names DEF Born
    <3>2. m \in raw' /\ acked'[m] = 0 BY <2>8 DEF Born
    <3> QED BY <2>2, <3>1, <3>2
  <2> QED BY <2>4, <2>5, <2>6, <2>7, <2>8 DEF JournalStep
<1>14. ClaimsKnown'
  <2>1. ASSUME NEW d \in claimed'
        PROVE  status'[d] = "sending" /\ talk'[d] = "idle" /\ claimed' = {d}
    <3>1. CASE claimed' = claimed /\ status'[d] = status[d]
      <4>1. d \in Deliveries /\ status[d] = "sending" /\ talk[d] = "idle" /\ claimed = {d}
        BY <2>1, <3>1 DEF ReplicationInv, ClaimsKnown, TypeOK
      <4> QED BY <3>1, <4>1 DEF JournalStep
    <3>2. CASE claimed' = {d} /\ status'[d] = "sending" /\ talk'[d] = "idle"
      BY <3>2
    <3> QED BY <2>1, <3>1, <3>2 DEF JournalStep
  <2>2. ASSUME sync'["worker"].stage # "idle"
        PROVE  \E d \in claimed' : /\ sync'["worker"].id = d[1] /\ sync'["worker"].man.gen > 0
                                   /\ Settles(d, sync["worker"].man.gen, {"sending"})'
                                   /\ sync'["worker"] = sync["worker"]
    <3>1. sync'["worker"] = sync["worker"] /\ claimed \subseteq claimed'
      BY <2>2, NullFields DEF JournalStep, Syncers
    <3>2. PICK d \in claimed : /\ sync["worker"].id = d[1] /\ sync["worker"].man.gen > 0
                               /\ Settles(d, sync["worker"].man.gen, {"sending"})
      BY <2>2, <3>1 DEF ReplicationInv, ClaimsKnown
    <3>3. Settles(d, sync["worker"].man.gen, {"sending"})'
      BY <1>1, <3>1, <3>2 DEF Settles
    <3> QED BY <3>1, <3>2, <3>3
  <2>3. ASSUME NEW d \in Deliveries, talk'[d] # "idle"
        PROVE  /\ status'[d] = "sending" /\ remote'[d[1]].known /\ remote'[d[1]].gen > 0
               /\ Settles(d, remote[d[1]].gen, {"sending"})'
    <3>1. talk[d] # "idle" /\ status'[d] = status[d] BY <2>3 DEF JournalStep
    <3>2. /\ status[d] = "sending" /\ remote[d[1]].known /\ remote[d[1]].gen > 0
          /\ Settles(d, remote[d[1]].gen, {"sending"})
      BY <3>1 DEF ReplicationInv, ClaimsKnown
    <3> QED BY <1>0, <1>1, <3>1, <3>2 DEF Settles
  <2> QED BY <2>1, <2>2, <2>3 DEF ClaimsKnown, Settles
<1>15. DeliveredKnown'
  <2> SUFFICES ASSUME NEW d \in sent \ doubt'
               PROVE  /\ \/ status'[d] \in {"delivered", "none"}
                         \/ status'[d] = "sending" /\ talk'[d] = "taken"
                      /\ Settles(d, remote[d[1]].gen, Status \ {"pending", "failed"})'
    BY <1>0 DEF DeliveredKnown
  <2>1. /\ status[d] \in {"delivered", "none"} \/ (status[d] = "sending" /\ talk[d] = "taken")
        /\ Settles(d, remote[d[1]].gen, Status \ {"pending", "failed"})
    BY DEF JournalStep, ReplicationInv, DeliveredKnown
  <2>2. Settles(d, remote[d[1]].gen, Status \ {"pending", "failed"})'
    BY <1>0, <1>1, <2>1 DEF Settles
  <2> QED BY <2>1, <2>2 DEF JournalStep
<1>16. RetiredKnown'
  <2> SUFFICES ASSUME NEW m \in Ids, gen'[m] > 0, m \notin raw',
                      NEW d \in Of(m), NEW man \in Manifests(d[1])', man.gen >= remote[m].gen
               PROVE  man.st[d] \in Status \ Live
    BY <1>0 DEF RetiredKnown, Settles
  <2>1. d[1] = m /\ man \in Manifests(m) /\ Honest(m, man)
    BY <1>1, Names DEF ReplicationInv, AllHonest
  <2>2. CASE Same(m)
    BY <2>1, <2>2 DEF Same, ReplicationInv, RetiredKnown, Settles
  <2>3. CASE Retired(m)
    <3>1. acked[m] > 0 /\ gen[m] > 0 /\ gen[m] \in Nat /\ acked[m] \in Nat /\ acked[m] >= gen[m]
      BY <1>t, <2>3 DEF Retired, ReplicationInv, JournalKept
    <3>2. remote[m].known /\ acked[m] <= remote[m].gen
      BY <2>3, <3>1 DEF Retired, ReplicationInv, Copied
    <3>3. remote[m].gen \in Nat
      BY <3>2, ManifestOf DEF ReplicationInv, AllHonest, Honest
    <3>4. man.gen \in Nat /\ man.gen <= gen[m] BY <2>1, <3>1 DEF Honest
    <3>5. man.gen = gen[m] BY <3>1, <3>2, <3>3, <3>4
    <3>6. man.st[d] = status[d] /\ man.st[d] \in Status BY <2>1, <3>1, <3>5 DEF Honest
    <3> QED BY <2>3, <3>6 DEF Retired
  <2>4. ~Edited(m) /\ ~Purged(m) /\ ~Born(m)
    BY DEF Edited, Purged, Born
  <2> QED BY <2>2, <2>3, <2>4 DEF JournalStep
<1> QED BY <1>2, <1>7, <1>9, <1>10, <1>11, <1>12, <1>14, <1>15, <1>16 DEF ReplicationInv

\* One delivery changes its state: its message is edited, every other one is left alone.
LEMMA OneChange ==
    ASSUME IdsApart, ReplicationInv, NEW d \in Deliveries, NEW s, Change(d, s),
           status[d] \in Live, UNCHANGED <<raw, linked, acked>>
    PROVE  /\ \A m \in Ids : Same(m) \/ Edited(m)
           /\ \A c \in linked' : status'[c] = "notified"
           /\ status'[d] = s /\ \A c \in Deliveries : c # d => status'[c] = status[c]
<1>1. status \in [Deliveries -> Status] /\ gen \in [Ids -> Nat]
  BY DEF ReplicationInv, TypeOK
<1>2. status'[d] = s /\ \A c \in Deliveries : c # d => status'[c] = status[c]
  BY <1>1 DEF Change
<1>3. d[1] \in Ids /\ gen'[d[1]] = gen[d[1]] + 1 /\ \A m \in Ids : m # d[1] => gen'[m] = gen[m]
  BY <1>1, Names DEF Change, Touch
<1>4. d[1] \in raw BY Names DEF ReplicationInv, JournalKept
<1>5. Edited(d[1]) BY <1>2, <1>3, <1>4, Names DEF Edited
<1>6. \A m \in Ids : m # d[1] => Same(m) BY <1>2, <1>3, Names DEF Same
<1>7. \A c \in linked : c # d /\ c \in Deliveries /\ status[c] = "notified"
  BY Names DEF ReplicationInv, JournalKept, TypeOK, Live
<1> QED BY <1>2, <1>5, <1>6, <1>7

\* A conversation, a claim and a delivery taken and recorded each pin the state.
LEMMA Pinned ==
    ASSUME IdsApart, ReplicationInv
    PROVE  /\ \A d \in Deliveries : talk[d] # "idle" => status[d] = "sending"
           /\ \A d \in claimed : status[d] = "sending" /\ talk[d] = "idle" /\ d \in Deliveries
           /\ \A d \in sent \ doubt : \/ status[d] \in {"delivered", "none"}
                                      \/ status[d] = "sending" /\ talk[d] = "taken"
           /\ claimed \subseteq Deliveries /\ sent \subseteq Deliveries
           /\ linked \subseteq Deliveries /\ DOMAIN sync = Syncers
           /\ talk \in [Deliveries -> {"idle", "talking", "taken", "deferred"}]
BY Names DEF ReplicationInv, ClaimsKnown, DeliveredKnown, Requests, TypeOK

\* Each of the owner's transactions is a JournalStep.
LEMMA ClaimSteps ==
    ASSUME IdsApart, ReplicationInv, NEW d \in Deliveries, Claim(d) PROVE JournalStep
<1>1. /\ claimed = {} /\ claimed' = {d} /\ status[d] = "pending" /\ Change(d, "sending")
      /\ UNCHANGED <<raw, linked, acked, smtp, talk, sync, ok, net, peer, sent, doubt>>
  BY DEF Claim, history
<1>2. status[d] \in Live BY <1>1 DEF Live
<1>3. /\ \A m \in Ids : Same(m) \/ Edited(m)
      /\ \A c \in linked' : status'[c] = "notified"
      /\ status'[d] = "sending" /\ \A c \in Deliveries : c # d => status'[c] = status[c]
  BY <1>1, <1>2, OneChange
<1>4. talk[d] = "idle" /\ d \notin sent \ doubt BY <1>1, Pinned
<1> QED BY <1>1, <1>3, <1>4, Pinned DEF JournalStep

\* A claim whose copy failed.
LEMMA UnclaimSteps ==
    ASSUME IdsApart, ReplicationInv, NEW d \in Deliveries, Unclaim(d) PROVE JournalStep
<1>1. /\ d \in claimed /\ claimed' = {} /\ GiveUp("worker") /\ Change(d, "pending")
      /\ UNCHANGED <<raw, linked, acked, smtp, talk, net, peer, sent, doubt>>
  BY DEF Unclaim, history
<1>2. status[d] = "sending" /\ talk[d] = "idle" /\ d \notin sent \ doubt
  BY <1>1, Pinned
<1>3. status[d] \in Live BY <1>2 DEF Live
<1>4. /\ \A m \in Ids : Same(m) \/ Edited(m)
      /\ \A c \in linked' : status'[c] = "notified"
      /\ status'[d] = "pending" /\ \A c \in Deliveries : c # d => status'[c] = status[c]
  BY <1>1, <1>3, OneChange
<1>5. /\ DOMAIN sync' = Syncers /\ ok' \subseteq ok /\ sync'["worker"] = Idle
      /\ \A p \in Syncers : sync'[p] = sync[p] \/ (sync'[p] = Idle /\ p \notin ok')
  BY <1>1, Pinned DEF GiveUp, Syncers
<1> QED BY <1>1, <1>2, <1>4, <1>5, Pinned DEF JournalStep

\* The end of a conversation.
LEMMA FinishSteps ==
    ASSUME IdsApart, ReplicationInv, NEW d \in Deliveries, NEW s, Finish(d, s) PROVE JournalStep
<1>1. /\ talk[d] # "idle" /\ Change(d, s) /\ talk' = [talk EXCEPT ![d] = "idle"]
      /\ talk[d] = "taken" => s = "delivered"
      /\ UNCHANGED <<raw, linked, acked, smtp, claimed, sync, ok, net, peer, sent, doubt>>
  BY DEF Finish, history
<1>2. status[d] = "sending" /\ d \notin claimed BY <1>1, Pinned
<1>3. status[d] \in Live BY <1>2 DEF Live
<1>4. /\ \A m \in Ids : Same(m) \/ Edited(m)
      /\ \A c \in linked' : status'[c] = "notified"
      /\ status'[d] = s /\ \A c \in Deliveries : c # d => status'[c] = status[c]
  BY <1>1, <1>3, OneChange
<1>5. talk'[d] = "idle" /\ \A c \in Deliveries : c # d => talk'[c] = talk[c] BY <1>1, Pinned
<1>6. d \in sent \ doubt => s = "delivered" BY <1>1, <1>2, Pinned
<1>7. \A c \in sent \ doubt' : \/ status'[c] \in {"delivered", "none"}
                               \/ status'[c] = status[c] /\ talk'[c] = talk[c]
  BY <1>1, <1>4, <1>5, <1>6, Pinned
<1>8. \A c \in claimed' : claimed' = claimed /\ status'[c] = status[c]
  BY <1>1, <1>2, <1>4, Pinned
<1>9. \A c \in Deliveries : talk'[c] # "idle" => talk'[c] = talk[c] /\ status'[c] = status[c]
  BY <1>4, <1>5
<1> QED BY <1>1, <1>4, <1>7, <1>8, <1>9, Pinned DEF JournalStep

\* A failure that needs no report, or the end of a hold.
LEMMA SettleSteps ==
    ASSUME IdsApart, ReplicationInv, NEW d \in Deliveries, NEW s,
           NotifyNobody(d) \/ EndHold(d, s)
    PROVE  JournalStep
<1>1. PICK v : /\ status[d] \in {"failed", "quarantined"} /\ Change(d, v)
               /\ UNCHANGED <<raw, linked, acked, smtp, claimed, talk, sync, ok, net, peer,
                              sent, doubt>>
  BY DEF NotifyNobody, EndHold, process, history
<1>2. status[d] \in Live BY <1>1 DEF Live
<1>3. /\ \A m \in Ids : Same(m) \/ Edited(m)
      /\ \A c \in linked' : status'[c] = "notified"
      /\ status'[d] = v /\ \A c \in Deliveries : c # d => status'[c] = status[c]
  BY <1>1, <1>2, OneChange
<1>4. talk[d] = "idle" /\ d \notin sent \ doubt /\ d \notin claimed BY <1>1, Pinned
<1> QED BY <1>1, <1>3, <1>4, Pinned DEF JournalStep

\* The acceptance of a message the peer has the candidate of.
LEMMA CommitSteps ==
    ASSUME IdsApart, ReplicationInv, NEW m \in Mail, Commit(m) PROVE JournalStep
<1>1. /\ smtp[m] = "manifest" /\ m \in ok /\ smtp' = [smtp EXCEPT ![m] = "accepted"]
      /\ ok' = ok \ {m} /\ raw' = raw \cup {m} /\ gen' = [gen EXCEPT ![m] = 1]
      /\ UNCHANGED <<linked, acked, claimed, talk, sync, net, peer, sent, doubt>>
  BY DEF Commit, history
<1>2. \A d \in Deliveries :
         /\ d[1] # m => status'[d] = status[d]
         /\ d[1] = m => status'[d] \in {"pending", "quarantined"}
  BY DEF Commit
<1>3. smtp \in [Mail -> {"idle", "body", "manifest", "accepted", "refused"}] /\ gen \in [Ids -> Nat]
  BY DEF ReplicationInv, TypeOK
<1>4. Unborn(m) /\ remote[m].known
  BY <1>1 DEF ReplicationInv, JournalKept, Answered
<1>5. Born(m)
  BY <1>1, <1>2, <1>3, <1>4, Names DEF Born, Unborn
<1>6. \A n \in Ids : n # m => Same(n)
  BY <1>1, <1>2, <1>3, Names DEF Same
<1>7. \A d \in Deliveries : d[1] = m => status[d] = "none" /\ talk[d] = "idle" /\ d \notin sent
  BY <1>4, Names DEF Unborn
<1>8. \A d \in linked' : status'[d] = "notified"
  <2>1. \A d \in linked : d \in Deliveries /\ status[d] = "notified"
    BY Pinned DEF ReplicationInv, JournalKept
  <2> QED BY <1>1, <1>2, <1>7, <2>1
<1>9. \A d \in Deliveries : talk'[d] # "idle" => talk'[d] = talk[d] /\ status'[d] = status[d]
  BY <1>1, <1>2, <1>7
<1>10. \A d \in claimed' : claimed' = claimed /\ status'[d] = status[d]
  BY <1>1, <1>2, <1>7, Pinned
<1>11. \A d \in sent \ doubt' : status'[d] = status[d] /\ talk'[d] = talk[d]
  BY <1>1, <1>2, <1>7, Pinned
<1>12. \A n \in Mail : n # m => smtp'[n] = smtp[n] BY <1>1, <1>3
<1>13. smtp'[m] = "accepted" BY <1>1, <1>3
<1> QED BY <1>1, <1>5, <1>6, <1>8, <1>9, <1>10, <1>11, <1>12, <1>13, Pinned DEF JournalStep

\* A DSN is born of the failure it reports.
LEMMA EnqueueDsnSteps ==
    ASSUME IdsApart, ReplicationInv, NEW d \in Envelope, EnqueueDsn(d) PROVE JournalStep
<1>1. /\ status[d] = "failed" /\ raw' = raw \cup {Notice(d)} /\ linked' = linked \cup {d}
      /\ status' = [status EXCEPT ![d] = "notified", ![Reply(d)] = "pending"]
      /\ gen' = [gen EXCEPT ![d[1]] = @ + 1, ![Notice(d)] = 1]
      /\ UNCHANGED <<acked, smtp, claimed, talk, sync, ok, net, peer, sent, doubt>>
  BY DEF EnqueueDsn, process, history
<1>2. status \in [Deliveries -> Status] /\ gen \in [Ids -> Nat]
  BY DEF ReplicationInv, TypeOK
<1>3. /\ d \in Deliveries /\ d[1] \in Ids /\ d[1] \in Mail /\ d \in Of(d[1])
      /\ Notice(d) \in Ids /\ Notice(d) \notin Mail /\ Reply(d) \in Deliveries
      /\ Reply(d)[1] = Notice(d) /\ Of(Notice(d)) = {Reply(d)} /\ Reply(d) \notin Envelope
  BY Names
<1>4. Unborn(Notice(d)) /\ Manifests(Notice(d)) = {}
  BY <1>1 DEF ReplicationInv, JournalKept, Live
<1>5. status[Reply(d)] = "none" /\ talk[Reply(d)] = "idle" /\ Reply(d) \notin sent
  BY <1>3, <1>4 DEF Unborn
<1>6. /\ status'[d] = "notified" /\ status'[Reply(d)] = "pending"
      /\ \A c \in Deliveries : c # d /\ c # Reply(d) => status'[c] = status[c]
  BY <1>1, <1>2, <1>3
<1>7. /\ gen'[d[1]] = gen[d[1]] + 1 /\ gen'[Notice(d)] = 1
      /\ \A m \in Ids : m # d[1] /\ m # Notice(d) => gen'[m] = gen[m]
  BY <1>1, <1>2, <1>3
<1>8. Born(Notice(d))
  BY <1>1, <1>3, <1>4, <1>6, <1>7 DEF Born, Unborn
<1>9. Edited(d[1])
  <2>1. d[1] \in raw BY <1>1, <1>3 DEF ReplicationInv, JournalKept, Live
  <2>2. \A c \in Of(d[1]) : c # Reply(d) /\ c \in Deliveries BY <1>3, Names
  <2> QED BY <1>1, <1>6, <1>7, <2>1, <2>2 DEF Edited, Live
<1>10. \A m \in Ids : m # d[1] /\ m # Notice(d) => Same(m)
  <2> SUFFICES ASSUME NEW m \in Ids, m # d[1], m # Notice(d) PROVE Same(m)
    OBVIOUS
  <2>1. \A c \in Of(m) : c \in Deliveries /\ c # d /\ c # Reply(d) BY <1>3, Names
  <2>2. \A c \in Of(m) : status'[c] = status[c] BY <1>6, <2>1
  <2>3. m \in raw' <=> m \in raw BY <1>1
  <2> QED BY <1>1, <1>7, <2>2, <2>3 DEF Same
<1>11. talk[d] = "idle" /\ d \notin claimed /\ d \notin sent \ doubt
       /\ Reply(d) \notin claimed
  BY <1>1, <1>3, <1>5, Pinned
<1>12. \A c \in linked' : status'[c] = "notified"
  <2>1. \A c \in linked : c \in Envelope /\ c \in Deliveries /\ status[c] = "notified"
    BY Pinned DEF ReplicationInv, JournalKept, TypeOK
  <2> QED BY <1>1, <1>3, <1>6, <2>1
<1>13. \A c \in Deliveries : talk'[c] # "idle" => talk'[c] = talk[c] /\ status'[c] = status[c]
  BY <1>1, <1>5, <1>6, <1>11
<1>14. \A c \in claimed' : claimed' = claimed /\ status'[c] = status[c]
  BY <1>1, <1>6, <1>11, Pinned
<1>15. \A c \in sent \ doubt' : status'[c] = status[c] /\ talk'[c] = talk[c]
  BY <1>1, <1>5, <1>6, <1>11, Pinned
<1> QED BY <1>1, <1>8, <1>9, <1>10, <1>12, <1>13, <1>14, <1>15, Pinned DEF JournalStep

\* The body of a resolved message goes.
LEMMA TombstoneSteps ==
    ASSUME IdsApart, ReplicationInv, NEW m \in Ids, Tombstone(m) PROVE JournalStep
<1>1. /\ m \in raw /\ raw' = raw \ {m} /\ gen' = [gen EXCEPT ![m] = @ + 1]
      /\ acked[m] >= gen[m] /\ \A d \in Of(m) : status[d] \notin Live
      /\ UNCHANGED <<status, linked, acked, smtp, claimed, talk, sync, ok, net, peer,
                     sent, doubt>>
  BY DEF Tombstone, Resolved, Touch, process, history
<1>2. gen \in [Ids -> Nat] BY DEF ReplicationInv, TypeOK
<1>3. Retired(m) BY <1>1, <1>2 DEF Retired
<1>4. \A n \in Ids : n # m => Same(n) BY <1>1, <1>2 DEF Same
<1>5. \A d \in linked' : status'[d] = "notified" BY <1>1 DEF ReplicationInv, JournalKept
<1> QED BY <1>1, <1>3, <1>4, <1>5, Pinned DEF JournalStep

\* Its row goes.
LEMMA PurgeSteps ==
    ASSUME IdsApart, ReplicationInv, NEW m \in Ids, Purge(m) PROVE JournalStep
<1>1. /\ gen[m] > 0 /\ acked[m] >= gen[m] /\ m \notin raw /\ linked' = linked \ Of(m)
      /\ gen' = [gen EXCEPT ![m] = 0] /\ acked' = [acked EXCEPT ![m] = 0]
      /\ UNCHANGED <<raw, smtp, claimed, talk, sync, ok, net, peer, sent, doubt>>
  BY DEF Purge, process, history
<1>2. \A d \in Deliveries : /\ d[1] # m => status'[d] = status[d]
                            /\ d[1] = m => status'[d] = "none"
  BY DEF Purge
<1>3. gen \in [Ids -> Nat] /\ acked \in [Ids -> Nat] BY DEF ReplicationInv, TypeOK
<1>4. Purged(m) BY <1>1, <1>2, <1>3, Names DEF Purged
<1>5. \A n \in Ids : n # m => Same(n) BY <1>1, <1>2, <1>3, Names DEF Same
<1>6. \A d \in Deliveries : d[1] = m => status[d] # "sending"
  BY <1>1, Names DEF ReplicationInv, JournalKept, Live
<1>7. \A d \in linked' : status'[d] = "notified"
  <2>1. \A d \in linked : d \in Deliveries /\ status[d] = "notified"
    BY Pinned DEF ReplicationInv, JournalKept
  <2>2. \A d \in linked' : d \in linked /\ d \in Deliveries /\ d[1] # m
    BY <1>1, <2>1, Names
  <2> QED BY <1>2, <2>1, <2>2
<1>8. \A d \in Deliveries : talk'[d] # "idle" => talk'[d] = talk[d] /\ status'[d] = status[d]
  BY <1>1, <1>2, <1>6, Pinned
<1>9. \A d \in claimed' : claimed' = claimed /\ status'[d] = status[d]
  BY <1>1, <1>2, <1>6, Pinned
<1>10. \A d \in sent \ doubt' : \/ status'[d] \in {"delivered", "none"}
                                \/ status'[d] = status[d] /\ talk'[d] = talk[d]
  BY <1>1, <1>2, Pinned
<1> QED BY <1>1, <1>4, <1>5, <1>7, <1>8, <1>9, <1>10, Pinned DEF JournalStep

\* The owner restarts.
LEMMA CrashSteps ==
    ASSUME IdsApart, ReplicationInv, CrashAndRecover PROVE JournalStep
<1>1. /\ \A d \in Deliveries :
           status'[d] = IF status[d] = "sending" THEN "pending" ELSE status[d]
      /\ \A m \in Ids : gen'[m] = IF \E d \in Deliveries : status[d] = "sending" /\ d[1] = m
                                  THEN gen[m] + 1 ELSE gen[m]
  BY DEF CrashAndRecover
<1>2. /\ \A m \in Mail : smtp'[m] = IF smtp[m] \in {"body", "manifest"} THEN "refused" ELSE smtp[m]
      /\ claimed' = {} /\ \A d \in Deliveries : talk'[d] = "idle"
      /\ DOMAIN sync' = Syncers /\ (\A p \in Syncers : sync'[p] = Idle) /\ ok' = {}
      /\ doubt' = doubt \cup {d \in Deliveries : talk[d] = "taken"}
      /\ UNCHANGED <<raw, linked, acked, net, peer, sent>>
  BY DEF CrashAndRecover
<1>3. ASSUME NEW m \in Ids PROVE Same(m) \/ Edited(m)
  <2>1. CASE \E d \in Deliveries : status[d] = "sending" /\ d[1] = m
    <3>1. m \in raw BY <2>1, Names DEF ReplicationInv, JournalKept, Live
    <3>2. \A d \in Of(m) : status'[d] \in Live => status[d] \in Live
      BY <1>1, Names DEF Live
    <3> QED BY <1>1, <1>2, <2>1, <3>1, <3>2 DEF Edited
  <2>2. CASE \A d \in Deliveries : ~(status[d] = "sending" /\ d[1] = m)
    BY <1>1, <1>2, <2>2, Names DEF Same
  <2> QED BY <2>1, <2>2
<1>4. \A d \in linked' : status'[d] = "notified"
  <2>1. \A d \in linked : d \in Deliveries /\ status[d] = "notified"
    BY Pinned DEF ReplicationInv, JournalKept
  <2> QED BY <1>1, <1>2, <2>1
<1>5. \A d \in sent \ doubt' : status'[d] \in {"delivered", "none"}
  <2> TAKE d \in sent \ doubt'
  <2>1. d \in Deliveries /\ d \in sent \ doubt /\ talk[d] # "taken" BY <1>2, Pinned
  <2> QED BY <1>1, <2>1, Pinned
<1>6. \A m \in Mail : smtp'[m] = smtp[m] \/ (smtp[m] # "accepted" /\ smtp'[m] = "refused")
  BY <1>2
<1>7. sync'["worker"] = Idle BY <1>2 DEF Syncers
<1> QED BY <1>2, <1>3, <1>4, <1>5, <1>6, <1>7 DEF JournalStep

-----------------------------------------------------------------------------
(* Steps that send copies and record receipts                               *)

\* A manifest nobody had: an export of m as it is now, or its candidate.
Current(m, man) ==
    /\ gen[m] > 0 /\ man.gen = gen[m] /\ (man.body <=> m \in raw)
    /\ man.dsn = linked \cap Of(m) /\ \A d \in Of(m) : man.st[d] = status[d]
Offered(m, man) == m \in Mail /\ smtp[m] # "accepted" /\ man.gen = 0 /\ man.body
Fresh(m, man)   == Honest(m, man) /\ (Current(m, man) \/ Offered(m, man))

\* A receipt of m is recorded.
Receipted(m) ==
    /\ gen[m] > 0 /\ acked[m] <= acked'[m] /\ acked'[m] <= gen[m]
    /\ m \in raw => remote[m].known
    /\ remote[m].known => acked'[m] <= remote[m].gen

\* The worker's copy: nothing, the one it had, or an export with its claim.
WorkerCopy ==
    \/ sync'["worker"].stage = "idle"
    \/ /\ sync["worker"].stage # "idle" /\ claimed' = claimed
       /\ sync'["worker"].id = sync["worker"].id /\ sync'["worker"].man = sync["worker"].man
    \/ \E d \in claimed : /\ sync'["worker"].id = d[1] /\ claimed' = claimed
                          /\ sync'["worker"].man.gen = gen[d[1]]

\* A conversation opens on a claim the peer knows.
Opened(d) ==
    /\ d \in claimed /\ claimed' = {} /\ talk'[d] = "talking"
    /\ remote[d[1]].known /\ remote[d[1]].gen > 0 /\ Settles(d, remote[d[1]].gen, {"sending"})

CopyStep ==
    /\ UNCHANGED <<raw, status, linked, gen, peer, sent, doubt>>
    /\ \A m \in Ids : acked'[m] = acked[m] \/ Receipted(m)
    /\ \A m \in Mail : /\ smtp'[m] = "accepted" <=> smtp[m] = "accepted"
                       /\ m \in ok' /\ smtp'[m] = "manifest" => m \in ok /\ smtp[m] = "manifest"
    /\ \A p \in Syncers : p \in ok' => p \in ok /\ sync'[p] = sync[p]
    /\ \A m \in Ids : \A man \in Manifests(m)' : man \in Manifests(m) \/ Fresh(m, man)
    /\ claimed' = claimed \/ claimed' = {}
    /\ \A d \in Deliveries : talk'[d] = talk[d] \/ Opened(d)
    /\ WorkerCopy

\* Sending copies preserves the invariant: what is said is current.
LEMMA CopyStepKeeps ==
    ASSUME IdsApart, ReplicationInv, TypeOK', Requests', CopyStep
    PROVE  ReplicationInv'
<1>0. UNCHANGED <<raw, status, linked, gen, remote, blob, pfiles, sent, doubt>>
  BY DEF CopyStep, peer
<1>t. /\ gen \in [Ids -> Nat] /\ acked \in [Ids -> Nat]
      /\ \A m \in Ids : acked[m] <= gen[m] /\ acked'[m] \in Nat
  BY DEF ReplicationInv, TypeOK
<1>1. \A d \in Deliveries :
        Opened(d) => status[d] = "sending" /\ talk[d] = "idle" /\ talk'[d] = "talking"
  BY Pinned DEF Opened
<1>2. ASSUME NEW m, Unborn(m), m \in Ids PROVE Unborn(m)'
  <2>1. acked'[m] = acked[m] BY <1>2 DEF Unborn, CopyStep, Receipted
  <2>2. \A d \in Of(m) : talk'[d] = talk[d] BY <1>1, <1>2, Names DEF Unborn, CopyStep
  <2> QED BY <1>0, <1>2, <2>1, <2>2 DEF Unborn
<1>3. ASSUME NEW m \in Ids, NEW man, Fresh(m, man), Unborn(m) PROVE m \in Mail /\ Offered(m, man)
  BY <1>3 DEF Fresh, Current, Offered, Unborn
<1>4. JournalKept'
  <2>1. \A m \in Ids : /\ m \in raw' => gen'[m] > 0
                       /\ gen'[m] = 0 => acked'[m] = 0
                       /\ \A d \in Of(m) : /\ status'[d] \in Live => m \in raw'
                                           /\ status'[d] # "none" => gen'[m] > 0
    BY <1>0 DEF ReplicationInv, JournalKept, CopyStep, Receipted
  <2>2. \A m \in Ids : \A d \in Of(m) : talk'[d] = "taken" => d \in sent'
    BY <1>0, <1>1, Names DEF ReplicationInv, JournalKept, CopyStep
  <2>3. \A d \in linked' : status'[d] = "notified" BY <1>0 DEF ReplicationInv, JournalKept
  <2>4. \A m \in Mail : smtp'[m] # "accepted" => Unborn(m)'
    BY <1>2, Names DEF ReplicationInv, JournalKept, CopyStep
  <2>5. ASSUME NEW d \in Envelope, status'[d] \in Live \/ smtp'[d[1]] # "accepted"
        PROVE  Unborn(Notice(d))' /\ Manifests(Notice(d))' = {}
    <3>1. Notice(d) \in Ids /\ Notice(d) \notin Mail /\ d[1] \in Mail BY Names
    <3>2. Unborn(Notice(d)) /\ Manifests(Notice(d)) = {}
      BY <1>0, <2>5, <3>1 DEF ReplicationInv, JournalKept, CopyStep
    <3>3. \A man : man \notin Manifests(Notice(d))'
      BY <1>3, <3>1, <3>2 DEF CopyStep
    <3> QED BY <1>2, <3>1, <3>2, <3>3
  <2> QED BY <2>1, <2>2, <2>3, <2>4, <2>5 DEF JournalKept
<1>5. \A m \in Ids : \A man \in Manifests(m)' : Honest(m, man)
  BY DEF CopyStep, Fresh, ReplicationInv, AllHonest
<1>6. ASSUME NEW m \in Ids, NEW man \in Manifests(m)' PROVE Honest(m, man)'
  <2>1. Honest(m, man) BY <1>5
  <2>2. m \in Mail => (smtp'[m] = "accepted" <=> smtp[m] = "accepted") BY DEF CopyStep
  <2> QED BY <1>0, <2>1, <2>2 DEF Honest
<1>7. ASSUME NEW m \in Ids, NEW man \in Manifests(m)', ~man.body, NEW other \in Manifests(m)'
      PROVE  other.gen <= man.gen
  <2>1. Honest(m, man) /\ Honest(m, other) /\ gen[m] \in Nat BY <1>5, <1>t
  <2>2. man.gen \in Nat /\ other.gen \in Nat BY <2>1 DEF Honest
  <2>3. gen[m] > 0 => man.gen = gen[m] /\ other.gen <= gen[m] BY <1>7, <2>1 DEF Honest
  <2>4. CASE gen[m] > 0 BY <2>2, <2>3, <2>4
  <2>5. CASE gen[m] = 0
    <3>1. ~Current(m, man) /\ ~Current(m, other) BY <2>5 DEF Current
    <3>2. man \in Manifests(m) BY <1>7, <3>1 DEF CopyStep, Fresh, Offered
    <3>3. CASE other \in Manifests(m)
      BY <1>7, <3>2, <3>3 DEF ReplicationInv, AllHonest
    <3>4. CASE other.gen = 0 BY <2>2, <3>4
    <3> QED BY <3>1, <3>3, <3>4 DEF CopyStep, Fresh, Offered
  <2> QED BY <2>1, <2>4, <2>5
<1>8. AllHonest' BY <1>6, <1>7 DEF AllHonest
<1>9. PeerKept' BY <1>0 DEF ReplicationInv, PeerKept
<1>10. Answered'
  <2>1. \A m \in Mail : m \in ok' /\ smtp'[m] = "manifest" => remote'[m].known
    BY <1>0 DEF CopyStep, ReplicationInv, Answered
  <2>2. \A p \in Syncers : p \in ok' => p \in ok /\ sync'[p] = sync[p] BY DEF CopyStep
  <2> QED BY <1>0, <2>1, <2>2 DEF ReplicationInv, Answered
<1>11. Copied'
  <2> SUFFICES ASSUME NEW m \in Ids
               PROVE  /\ m \in raw /\ (m \in Mail \/ acked'[m] > 0) => remote[m].known
                      /\ remote[m].known => acked'[m] <= remote[m].gen
                      /\ ~remote[m].known /\ m \notin raw /\ (m \in Mail => smtp'[m] = "accepted")
                           => \A man \in Manifests(m)' : ~man.body
    BY <1>0 DEF Copied
  <2>1. /\ m \in raw /\ (m \in Mail \/ acked'[m] > 0) => remote[m].known
        /\ remote[m].known => acked'[m] <= remote[m].gen
    BY DEF CopyStep, Receipted, ReplicationInv, Copied
  <2>2. ASSUME ~remote[m].known, m \notin raw, m \in Mail => smtp'[m] = "accepted",
               NEW man \in Manifests(m)', man.body
        PROVE  FALSE
    <3>1. m \in Mail => smtp[m] = "accepted" BY <2>2 DEF CopyStep
    <3>2. CASE man \in Manifests(m)
      BY <2>2, <3>1, <3>2 DEF ReplicationInv, Copied
    <3>3. CASE Fresh(m, man)
      BY <2>2, <3>1, <3>3 DEF Fresh, Current, Offered
    <3> QED BY <3>2, <3>3 DEF CopyStep
  <2> QED BY <2>1, <2>2
<1>12. ASSUME NEW d \in Deliveries, NEW g, NEW S, Settles(d, g, S),
              smtp[d[1]] = "accepted" \/ d[1] \notin Mail, status[d] \in S
       PROVE  Settles(d, g, S)'
  <2> SUFFICES ASSUME NEW man \in Manifests(d[1])', man.gen >= g PROVE man.st[d] \in S
    BY DEF Settles
  <2>1. d[1] \in Ids /\ d \in Of(d[1]) BY Names
  <2>2. CASE man \in Manifests(d[1]) BY <1>12, <2>2 DEF Settles
  <2>3. CASE Fresh(d[1], man)
    BY <1>12, <2>1, <2>3 DEF Fresh, Current, Offered
  <2> QED BY <2>1, <2>2, <2>3 DEF CopyStep
<1>13. \A d \in Deliveries : status[d] # "none" \/ d \in sent =>
          smtp[d[1]] = "accepted" \/ d[1] \notin Mail
  BY Names DEF ReplicationInv, JournalKept, Unborn
<1>14. ClaimsKnown'
  <2>1. \A d \in claimed' : status'[d] = "sending" /\ talk'[d] = "idle" /\ claimed' = {d}
    <3> SUFFICES ASSUME NEW d \in claimed'
                 PROVE  status[d] = "sending" /\ talk'[d] = "idle" /\ claimed' = {d}
      BY <1>0
    <3>1. claimed' = claimed BY DEF CopyStep
    <3>2. d \in Deliveries /\ status[d] = "sending" /\ talk[d] = "idle" /\ claimed = {d}
      BY <3>1, Pinned DEF ReplicationInv, ClaimsKnown
    <3> QED BY <3>1, <3>2 DEF CopyStep, Opened
  <2>2. ASSUME sync'["worker"].stage # "idle", NEW w, w = sync'["worker"]
        PROVE  \E d \in claimed' : /\ w.id = d[1] /\ w.man.gen > 0
                                   /\ Settles(d, w.man.gen, {"sending"})'
    <3>1. CASE /\ sync["worker"].stage # "idle" /\ claimed' = claimed
               /\ sync'["worker"].id = sync["worker"].id
               /\ sync'["worker"].man = sync["worker"].man
      <4>1. PICK d \in claimed : /\ w.id = d[1] /\ w.man.gen > 0
                                 /\ Settles(d, w.man.gen, {"sending"})
        BY <2>2, <3>1 DEF ReplicationInv, ClaimsKnown
      <4>2. d \in Deliveries /\ status[d] = "sending" BY Pinned
      <4>3. Settles(d, w.man.gen, {"sending"})' BY <1>12, <1>13, <4>1, <4>2
      <4> QED BY <3>1, <4>1, <4>3
    <3>2. CASE \E d \in claimed : /\ sync'["worker"].id = d[1] /\ claimed' = claimed
                                  /\ sync'["worker"].man.gen = gen[d[1]]
      <4>1. PICK d \in claimed : w.id = d[1] /\ claimed' = claimed /\ w.man.gen = gen[d[1]]
        BY <2>2, <3>2
      <4>2. d \in Deliveries /\ status[d] = "sending" /\ d[1] \in Ids /\ d \in Of(d[1])
        BY Pinned, Names
      <4>3. gen[d[1]] > 0 /\ gen[d[1]] \in Nat
        BY <1>t, <4>2 DEF ReplicationInv, JournalKept
      <4>4. ASSUME NEW man \in Manifests(d[1])', man.gen >= w.man.gen PROVE man.st[d] = "sending"
        <5>1. Honest(d[1], man) BY <1>5, <4>2
        <5>2. man.gen = gen[d[1]] BY <4>1, <4>3, <4>4, <5>1 DEF Honest
        <5> QED BY <4>2, <4>3, <5>1, <5>2 DEF Honest
      <4> QED BY <4>1, <4>3, <4>4 DEF Settles
    <3> QED BY <2>2, <3>1, <3>2 DEF CopyStep, WorkerCopy
  <2>3. ASSUME NEW d \in Deliveries, talk'[d] # "idle"
        PROVE  /\ status'[d] = "sending" /\ remote'[d[1]].known /\ remote'[d[1]].gen > 0
               /\ Settles(d, remote[d[1]].gen, {"sending"})'
    <3>1. /\ status[d] = "sending" /\ remote[d[1]].known /\ remote[d[1]].gen > 0
          /\ Settles(d, remote[d[1]].gen, {"sending"})
      <4>1. CASE Opened(d) BY <1>1, <4>1 DEF Opened
      <4>2. CASE talk'[d] = talk[d] BY <2>3, <4>2 DEF ReplicationInv, ClaimsKnown
      <4> QED BY <4>1, <4>2 DEF CopyStep
    <3>2. PICK g : g = remote[d[1]].gen OBVIOUS
    <3>3. Settles(d, g, {"sending"})' BY <1>12, <1>13, <3>1, <3>2
    <3> QED BY <1>0, <3>1, <3>2, <3>3 DEF Settles
  <2> QED BY <2>1, <2>2, <2>3 DEF ClaimsKnown, Settles
<1>15. DeliveredKnown'
  <2> SUFFICES ASSUME NEW d \in sent \ doubt
               PROVE  /\ \/ status[d] \in {"delivered", "none"}
                         \/ status[d] = "sending" /\ talk'[d] = "taken"
                      /\ Settles(d, remote[d[1]].gen, Status \ {"pending", "failed"})'
    BY <1>0 DEF DeliveredKnown
  <2>1. d \in Deliveries BY Pinned
  <2>2. \/ status[d] \in {"delivered", "none"}
        \/ status[d] = "sending" /\ talk[d] = "taken" /\ talk'[d] = "taken"
    BY <1>1, <2>1, Pinned DEF CopyStep
  <2>3. PICK g : g = remote[d[1]].gen OBVIOUS
  <2>4. Settles(d, g, Status \ {"pending", "failed"})
    BY <2>3 DEF ReplicationInv, DeliveredKnown
  <2>5. status[d] \in Status \ {"pending", "failed"} BY <2>2 DEF Status, Live, Terminal
  <2>6. Settles(d, g, Status \ {"pending", "failed"})' BY <1>12, <1>13, <2>1, <2>4, <2>5
  <2> QED BY <1>0, <2>2, <2>3, <2>6 DEF Settles
<1>16. RetiredKnown'
  <2> SUFFICES ASSUME NEW m \in Ids, gen[m] > 0, m \notin raw, NEW d \in Of(m)
               PROVE  Settles(d, remote[m].gen, Status \ Live)'
    BY <1>0 DEF RetiredKnown
  <2>1. d \in Deliveries /\ d[1] = m BY Names
  <2>2. PICK g : g = remote[m].gen OBVIOUS
  <2>3. Settles(d, g, Status \ Live) BY <2>2 DEF ReplicationInv, RetiredKnown
  <2>4. status[d] \in Status \ Live BY <2>1 DEF ReplicationInv, JournalKept, TypeOK
  <2>5. smtp[m] = "accepted" \/ m \notin Mail BY DEF ReplicationInv, JournalKept, Unborn
  <2>6. Settles(d, g, Status \ Live)' BY <1>12, <2>1, <2>3, <2>4, <2>5
  <2> QED BY <1>0, <2>2, <2>6 DEF Settles
<1> QED BY <1>4, <1>8, <1>9, <1>10, <1>11, <1>14, <1>15, <1>16 DEF ReplicationInv

\* An export says what the journal says.
LEMMA ExportFresh ==
    ASSUME IdsApart, ReplicationInv, NEW m \in Ids, gen[m] > 0
    PROVE  Fresh(m, Export(m)) /\ Export(m).gen = gen[m]
<1>1. PICK man : man = Export(m) OBVIOUS
<1>a. /\ man.known /\ man.gen = gen[m] /\ man.confirmed /\ man.body = (m \in raw)
      /\ DOMAIN man.st = Of(m) /\ \A d \in Of(m) : man.st[d] = status[d]
      /\ man.dsn = linked \cap Of(m)
  BY <1>1 DEF Export, Manifest
<1>b. man.body \in BOOLEAN /\ (man.body <=> m \in raw)
  <2>1. CASE m \in raw
    <3>1. (m \in raw) = TRUE BY <2>1, Zenon
    <3>2. man.body = TRUE BY <1>a, <3>1
    <3> QED BY <2>1, <3>2
  <2>2. CASE m \notin raw
    <3>1. ~(m \in raw) /\ (m \in raw) \in BOOLEAN BY <2>2
    <3>2. man.body = FALSE BY <1>a, <3>1
    <3> QED BY <2>2, <3>2
  <2> QED BY <2>1, <2>2
<1>2. /\ man.known /\ man.gen = gen[m] /\ man.confirmed
      /\ man.body \in BOOLEAN /\ (man.body <=> m \in raw)
      /\ DOMAIN man.st = Of(m) /\ \A d \in Of(m) : man.st[d] = status[d]
      /\ man.dsn = linked \cap Of(m)
  BY <1>a, <1>b
<1>3. gen[m] \in Nat /\ \A d \in Of(m) : status[d] \in Status
  BY Names DEF ReplicationInv, TypeOK
<1>4. /\ m \in Mail => smtp[m] = "accepted"
      /\ \A d \in Of(m) : status[d] \in Live => m \in raw
  BY DEF ReplicationInv, JournalKept, Unborn
<1>5. Honest(m, man)
  <2>1. man.gen \in Nat /\ man.gen > 0 /\ man.gen <= gen[m] BY <1>2, <1>3
  <2> QED BY <1>2, <1>3, <1>4, <2>1 DEF Honest
<1>6. Current(m, man) BY <1>2 DEF Current
<1> QED BY <1>1, <1>2, <1>5, <1>6 DEF Fresh

\* So does a candidate of the message that will be committed.
LEMMA CandidateFresh ==
    ASSUME IdsApart, ReplicationInv, NEW m \in Mail, smtp[m] # "accepted", NEW held
    PROVE  Fresh(m, Candidate(m, held))
<1>1. PICK man : man = Candidate(m, held) OBVIOUS
<1>2. /\ man.known /\ man.gen = 0 /\ ~man.confirmed /\ man.body
      /\ DOMAIN man.st = Of(m) /\ \A d \in Of(m) : man.st[d] \in {"pending", "quarantined"}
  BY <1>1 DEF Candidate, Manifest
<1>3. gen[m] = 0 /\ m \notin raw /\ \A d \in Of(m) : status[d] = "none"
  BY DEF ReplicationInv, JournalKept, Unborn
<1>4. {"pending", "quarantined"} \subseteq Live /\ Live \subseteq Status /\ "none" \notin Live
  BY DEF Live, Status
<1>5. Honest(m, man) BY <1>2, <1>3, <1>4 DEF Honest
<1>6. Offered(m, man) BY <1>2 DEF Offered
<1> QED BY <1>1, <1>5, <1>6 DEF Fresh

\* synchronize_message starts with an export: one new manifest, sent or kept to be sent.
LEMMA StartSays ==
    ASSUME IdsApart, ReplicationInv, NEW p \in Syncers, NEW m \in Ids, gen[m] > 0,
           Start(p, m, Export(m)), remote' = remote
    PROVE  /\ Requests'
           /\ \A n \in Ids : \A man \in Manifests(n)' :
                man \in Manifests(n) \/ (n = m /\ Fresh(n, man))
           /\ sync'[p].id = m /\ sync'[p].man.gen = gen[m]
           /\ \A q \in Syncers : q # p => sync'[q] = sync[q]
<1>1. PICK man : man = Export(m) OBVIOUS
<1>2. Fresh(m, man) /\ man.gen = gen[m] BY <1>1, ExportFresh
<1>3. PICK v : v = [stage |-> IF man.body THEN "body" ELSE "manifest", id |-> m, man |-> man]
  OBVIOUS
<1>4. v.stage \in {"body", "manifest"} /\ v.id = m /\ v.man = man BY <1>3
<1>5. sync' = [sync EXCEPT ![p] = v] BY <1>1, <1>3 DEF Start
<1>6. sync'[p] = v /\ DOMAIN sync' = Syncers /\ \A q \in Syncers : q # p => sync'[q] = sync[q]
  BY <1>5 DEF ReplicationInv, Requests
<1>7. PICK r : r = IF man.body THEN BodyRequest(p, m) ELSE UpdateRequest(p, m, man)
  OBVIOUS
<1>8. net' = net \cup {r} BY <1>1, <1>7 DEF Start, Post
<1>9. /\ r.kind \in {"body", "manifest"} /\ r.id = m /\ r.proc = p
      /\ r.kind # "body" => r.man = man
  BY <1>7 DEF BodyRequest, UpdateRequest
<1>10. Requests'
  BY <1>4, <1>6, <1>8, <1>9, Names DEF ReplicationInv, Requests
<1>11. \A q \in net' : q \in net \/ q.kind = "body" \/ (q.id = m /\ q.man = man)
  BY <1>8, <1>9
<1>12. \A q \in Syncers : sync'[q] = sync[q] \/ (sync'[q].id = m /\ sync'[q].man = man)
  BY <1>4, <1>6
<1>13. \A n : \A x \in Manifests(n)' : x \in Manifests(n) \/ (n = m /\ x = man)
  BY <1>11, <1>12, OneNew
<1> QED BY <1>2, <1>4, <1>6, <1>10, <1>13

\* The receipt of what was sent is worth recording.
LEMMA AckRecords ==
    ASSUME IdsApart, ReplicationInv, NEW p \in Syncers, RecordAck(p)
    PROVE  /\ \A m \in Ids : acked'[m] = acked[m] \/ (Receipted(m) /\ acked'[m] \in Nat)
           /\ DOMAIN acked' = Ids /\ \A m \in Ids : m # sync[p].id => acked'[m] = acked[m]
           /\ ok' = ok \ {p} /\ sync'[p] = Idle /\ DOMAIN sync' = Syncers
           /\ \A q \in Syncers : q # p => sync'[q] = sync[q]
<1>1. /\ ok' = ok \ {p} /\ sync'[p] = Idle /\ DOMAIN sync' = Syncers
      /\ \A q \in Syncers : q # p => sync'[q] = sync[q]
  BY DEF RecordAck, ReplicationInv, Requests
<1>2. PICK m, man : m = sync[p].id /\ man = sync[p].man OBVIOUS
<1>3. sync[p].stage = "manifest" /\ p \in ok BY DEF RecordAck
<1>4. m \in Ids /\ man \in Manifests(m)
  BY <1>2, <1>3, ManifestOf, NullFields DEF ReplicationInv, Requests
<1>5. Honest(m, man) BY <1>4 DEF ReplicationInv, AllHonest
<1>6. /\ man.body => remote[m].known
      /\ remote[m].known => remote[m].gen >= man.gen
  BY <1>2, <1>3 DEF ReplicationInv, Answered
<1>7. acked' = [acked EXCEPT ![m] = IF gen[m] > 0 /\ man.gen > @ THEN man.gen ELSE @]
  BY <1>2 DEF RecordAck
<1>8. acked \in [Ids -> Nat] BY DEF ReplicationInv, TypeOK
<1>9. \/ acked'[m] = acked[m]
      \/ gen[m] > 0 /\ acked'[m] = man.gen /\ acked[m] < man.gen
  BY <1>4, <1>7, <1>8
<1>10. \A n \in Ids : n # m => acked'[n] = acked[n] BY <1>7, <1>8
<1>11. gen[m] > 0 /\ acked'[m] = man.gen /\ acked[m] < man.gen =>
          Receipted(m) /\ acked'[m] \in Nat
  BY <1>4, <1>5, <1>6, <1>8 DEF Receipted, Honest
<1>12. DOMAIN acked' = Ids BY <1>7, <1>8
<1> QED BY <1>1, <1>2, <1>9, <1>10, <1>11, <1>12

\* Each step of a synchronizer, of a session before its commit and of the pass is a
\* CopyStep.
LEMMA PrepareCopies ==
    ASSUME IdsApart, ReplicationInv, NEW m \in Mail, NEW held, Prepare(m, held)
    PROVE  CopyStep /\ Requests'
<1>1. /\ smtp[m] = "idle" /\ smtp' = [smtp EXCEPT ![m] = "body"]
      /\ net' = net \cup {BodyRequest(m, m)}
      /\ UNCHANGED <<raw, status, linked, gen, acked, claimed, talk, sync, ok, peer, sent, doubt>>
      /\ remote' = remote
  BY DEF Prepare, Post, journal, history, peer
<1>2. PICK r : r = BodyRequest(m, m) OBVIOUS
<1>3. r.kind = "body" /\ r.id = m /\ r.proc = m BY <1>2 DEF BodyRequest
<1>4. \A q \in net' : q \in net \/ q.kind = "body" BY <1>1, <1>2, <1>3
<1>5. \A n : Manifests(n)' \subseteq Manifests(n) BY <1>1, <1>4, NothingNew
<1>6. Requests' BY <1>1, <1>2, <1>3, Names DEF ReplicationInv, Requests
<1>7. smtp'[m] = "body" /\ \A n \in Mail : n # m => smtp'[n] = smtp[n]
  BY <1>1 DEF ReplicationInv, TypeOK
<1> QED BY <1>1, <1>5, <1>6, <1>7 DEF CopyStep, WorkerCopy

\* The candidate is sent.
LEMMA PrepareManifestCopies ==
    ASSUME IdsApart, ReplicationInv, NEW m \in Mail, PrepareManifest(m)
    PROVE  CopyStep /\ Requests' /\ \A n : \A x \in Manifests(n)' : x \in Manifests(n) \/ x.body
<1>1. PICK man : man = Candidate(m, planned \cap Of(m)) OBVIOUS
<1>2. PICK r : r = UpdateRequest(m, m, man) OBVIOUS
<1>3. /\ smtp[m] = "body" /\ smtp' = [smtp EXCEPT ![m] = "manifest"] /\ net' = net \cup {r}
      /\ ok' = ok \ {m} /\ remote' = remote
      /\ UNCHANGED <<raw, status, linked, gen, acked, claimed, talk, sync, peer, sent, doubt>>
  BY <1>1, <1>2 DEF PrepareManifest, Post, journal, history, peer
<1>4. r.kind = "manifest" /\ r.id = m /\ r.proc = m /\ r.man = man BY <1>2 DEF UpdateRequest
<1>5. \A q \in net' : q \in net \/ q.kind = "body" \/ (q.id = m /\ q.man = man) BY <1>3, <1>4
<1>6. \A n : \A x \in Manifests(n)' : x \in Manifests(n) \/ (n = m /\ x = man)
  BY <1>3, <1>5, OneNew
<1>7. Fresh(m, man) BY <1>1, <1>3, CandidateFresh
<1>8. Requests' BY <1>3, <1>4, Names DEF ReplicationInv, Requests
<1>9. smtp'[m] = "manifest" /\ \A n \in Mail : n # m => smtp'[n] = smtp[n]
  BY <1>3 DEF ReplicationInv, TypeOK
<1>10. man.body BY <1>1 DEF Candidate, Manifest
<1> QED BY <1>3, <1>6, <1>7, <1>8, <1>9, <1>10 DEF CopyStep, WorkerCopy

\* Giving up, or listing a pass, says nothing.
LEMMA QuietCopies ==
    ASSUME IdsApart, ReplicationInv, NEW list,
           (\E m \in Mail : Refuse(m)) \/ ListPass(list) \/ LoopFails
    PROVE  CopyStep /\ Requests'
<1>1. /\ UNCHANGED <<raw, status, linked, gen, acked, claimed, talk, net, peer, sent, doubt>>
      /\ remote' = remote
  BY DEF Refuse, ListPass, LoopFails, journal, history, peer
<1>2. /\ DOMAIN sync' = Syncers
      /\ \A p \in Syncers : sync'[p] = sync[p] \/ (sync'[p] = Idle /\ p \notin ok')
      /\ ok' \subseteq ok
  BY DEF Refuse, ListPass, LoopFails, GiveUp, ReplicationInv, Requests
<1>3. \A m \in Mail : /\ smtp'[m] = "accepted" <=> smtp[m] = "accepted"
                      /\ smtp'[m] = "manifest" => smtp[m] = "manifest"
  BY DEF Refuse, ListPass, LoopFails, ReplicationInv, TypeOK
<1>4. \A n : Manifests(n)' \subseteq Manifests(n) BY <1>1, <1>2, NothingNew
<1>5. Requests' BY <1>1, <1>2 DEF ReplicationInv, Requests
<1>6. WorkerCopy
  <2>1. sync'["worker"] = sync["worker"] \/ sync'["worker"] = Idle BY <1>2 DEF Syncers
  <2> QED BY <1>1, <2>1, NullFields DEF WorkerCopy
<1> QED BY <1>1, <1>2, <1>3, <1>4, <1>5, <1>6 DEF CopyStep

\* The manifest follows its body.
LEMMA SendManifestCopies ==
    ASSUME IdsApart, ReplicationInv, NEW p \in Syncers, SendManifest(p)
    PROVE  CopyStep /\ Requests' /\ \A n : Manifests(n)' \subseteq Manifests(n)
<1>1. PICK m, man : m = sync[p].id /\ man = sync[p].man OBVIOUS
<1>2. PICK r : r = UpdateRequest(p, m, man) OBVIOUS
<1>3. /\ sync[p].stage = "body" /\ sync' = [sync EXCEPT ![p].stage = "manifest"]
      /\ ok' = ok \ {p} /\ net' = net \cup {r} /\ remote' = remote
      /\ UNCHANGED <<raw, status, linked, gen, acked, smtp, claimed, talk, peer, sent, doubt>>
  BY <1>1, <1>2 DEF SendManifest, Post, journal, history, peer
<1>4. r.kind = "manifest" /\ r.id = m /\ r.proc = p /\ r.man = man BY <1>2 DEF UpdateRequest
<1>5. m \in Ids /\ DOMAIN sync = Syncers
  BY <1>1, <1>3, NullFields DEF ReplicationInv, Requests
<1>6. man \in Manifests(m) BY <1>1, <1>3, ManifestOf
<1>7. /\ DOMAIN sync' = Syncers /\ \A q \in Syncers : q # p => sync'[q] = sync[q]
      /\ sync'[p] = [sync[p] EXCEPT !.stage = "manifest"]
  BY <1>3, <1>5
<1>8. sync'[p].id = m /\ sync'[p].man = man /\ sync'[p].stage = "manifest"
  BY <1>1, <1>7
<1>9. \A q \in net' : q \in net \/ q.kind = "body" \/ (q.id = m /\ q.man = man) BY <1>3, <1>4
<1>10. \A n : \A x \in Manifests(n)' : x \in Manifests(n) \/ (n = m /\ x = man)
  BY <1>3, <1>7, <1>8, <1>9, OneNew
<1>11. Requests'
  BY <1>3, <1>4, <1>5, <1>7, <1>8, Names DEF ReplicationInv, Requests
<1>12. WorkerCopy
  <2>1. CASE p = "worker" BY <1>1, <1>3, <1>8, <2>1 DEF WorkerCopy
  <2>2. CASE p # "worker"
    <3>1. sync'["worker"] = sync["worker"] BY <1>7, <2>2 DEF Syncers
    <3> QED BY <1>3, <3>1 DEF WorkerCopy
  <2> QED BY <2>1, <2>2
<1>13. \A q \in Syncers : q \in ok' => q \in ok /\ sync'[q] = sync[q] BY <1>3, <1>7
<1> QED BY <1>3, <1>6, <1>10, <1>11, <1>12, <1>13, Names DEF CopyStep

\* A copy begins.
LEMMA MirrorCopies ==
    ASSUME IdsApart, ReplicationInv, NEW d, NEW m \in Ids,
           (d \in Deliveries /\ MirrorClaim(d)) \/ LoopMirror(m)
    PROVE  CopyStep /\ Requests'
<1>1. /\ UNCHANGED <<raw, status, linked, gen, acked, smtp, claimed, talk, ok, peer, sent, doubt>>
      /\ remote' = remote
  BY DEF MirrorClaim, LoopMirror, journal, history, peer
<1>2. CASE d \in Deliveries /\ MirrorClaim(d)
  <2>1. d \in claimed /\ sync["worker"].stage = "idle" /\ Start("worker", d[1], Export(d[1]))
    BY <1>2 DEF MirrorClaim
  <2>2. d[1] \in Ids /\ gen[d[1]] > 0 /\ "worker" \in Syncers
    BY <1>2, <2>1, Pinned, Names DEF ReplicationInv, JournalKept, Syncers
  <2>3. /\ Requests'
        /\ \A n \in Ids : \A man \in Manifests(n)' : man \in Manifests(n) \/ Fresh(n, man)
        /\ sync'["worker"].id = d[1] /\ sync'["worker"].man.gen = gen[d[1]]
        /\ \A q \in Syncers : q # "worker" => sync'[q] = sync[q]
    BY <1>1, <2>1, <2>2, StartSays
  <2>4. "worker" \notin ok BY <2>1, <2>2 DEF ReplicationInv, Answered
  <2>5. WorkerCopy BY <1>1, <2>1, <2>3 DEF WorkerCopy
  <2> QED BY <1>1, <2>3, <2>4, <2>5 DEF CopyStep
<1>3. CASE LoopMirror(m)
  <2>1. /\ gen[m] > 0 /\ sync["loop"].stage = "idle" /\ "loop" \in Syncers
        /\ Start("loop", m, Export(m))
    BY <1>3 DEF LoopMirror, Syncers
  <2>2. /\ Requests'
        /\ \A n \in Ids : \A man \in Manifests(n)' : man \in Manifests(n) \/ Fresh(n, man)
        /\ \A q \in Syncers : q # "loop" => sync'[q] = sync[q]
    BY <1>1, <2>1, StartSays
  <2>3. "loop" \notin ok BY <2>1 DEF ReplicationInv, Answered
  <2>4. sync'["worker"] = sync["worker"] BY <2>2 DEF Syncers
  <2>5. WorkerCopy BY <1>1, <2>4 DEF WorkerCopy
  <2> QED BY <1>1, <2>2, <2>3, <2>5 DEF CopyStep
<1> QED BY <1>2, <1>3

\* The pass records a receipt.
LEMMA LoopAckCopies ==
    ASSUME IdsApart, ReplicationInv, LoopAck PROVE CopyStep /\ Requests'
<1>1. /\ RecordAck("loop") /\ "loop" \in Syncers /\ remote' = remote
      /\ UNCHANGED <<raw, status, linked, gen, smtp, claimed, talk, net, peer, sent, doubt>>
  BY DEF LoopAck, history, peer, Syncers
<1>2. /\ \A m \in Ids : acked'[m] = acked[m] \/ (Receipted(m) /\ acked'[m] \in Nat)
      /\ ok' = ok \ {"loop"} /\ sync'["loop"] = Idle /\ DOMAIN sync' = Syncers
      /\ \A q \in Syncers : q # "loop" => sync'[q] = sync[q]
  BY <1>1, AckRecords
<1>3. \A n : Manifests(n)' \subseteq Manifests(n) BY <1>1, <1>2, NothingNew
<1>4. Requests' BY <1>1, <1>2 DEF ReplicationInv, Requests
<1>5. WorkerCopy
  <2>1. sync'["worker"] = sync["worker"] BY <1>2 DEF Syncers
  <2> QED BY <1>1, <2>1 DEF WorkerCopy
<1> QED BY <1>1, <1>2, <1>3, <1>4, <1>5 DEF CopyStep

\* The conversation opens on the receipt of its claim.
LEMMA SpawnCopies ==
    ASSUME IdsApart, ReplicationInv, NEW d \in Deliveries, Spawn(d) PROVE CopyStep /\ Requests'
<1>1. /\ RecordAck("worker") /\ "worker" \in Syncers /\ remote' = remote
      /\ d \in claimed /\ claimed' = {} /\ talk' = [talk EXCEPT ![d] = "talking"]
      /\ UNCHANGED <<raw, status, linked, gen, smtp, net, peer, sent, doubt>>
  BY DEF Spawn, history, peer, Syncers
<1>2. /\ \A m \in Ids : acked'[m] = acked[m] \/ (Receipted(m) /\ acked'[m] \in Nat)
      /\ ok' = ok \ {"worker"} /\ sync'["worker"] = Idle /\ DOMAIN sync' = Syncers
      /\ \A q \in Syncers : q # "worker" => sync'[q] = sync[q]
  BY <1>1, AckRecords
<1>3. \A n : Manifests(n)' \subseteq Manifests(n) BY <1>1, <1>2, NothingNew
<1>4. Requests' BY <1>1, <1>2 DEF ReplicationInv, Requests
<1>5. Opened(d)
  <2>1. PICK man : man = sync["worker"].man OBVIOUS
  <2>2. sync["worker"].stage = "manifest" /\ "worker" \in ok BY <1>1 DEF RecordAck
  <2>3. sync["worker"].id = d[1] /\ man.gen > 0 /\ Settles(d, man.gen, {"sending"})
    BY <1>1, <2>1, <2>2 DEF ReplicationInv, ClaimsKnown
  <2>4. man \in Manifests(d[1]) /\ d[1] \in Ids BY <1>1, <2>1, <2>2, <2>3, ManifestOf, Names
  <2>5. Honest(d[1], man) BY <2>4 DEF ReplicationInv, AllHonest
  <2>6. d[1] \in raw BY <1>1, Pinned, Names DEF ReplicationInv, JournalKept, Live
  <2>7. remote[d[1]].known /\ remote[d[1]].gen >= man.gen
    BY <1>1, <2>1, <2>2, <2>3, <2>5, <2>6 DEF ReplicationInv, Answered, Honest
  <2>8. remote[d[1]].gen \in Nat /\ man.gen \in Nat
    BY <2>4, <2>5, <2>7, ManifestOf DEF ReplicationInv, AllHonest, Honest
  <2>9. \A x \in Manifests(d[1]) : x.gen \in Nat
    BY <2>4 DEF ReplicationInv, AllHonest, Honest
  <2>10. Settles(d, remote[d[1]].gen, {"sending"})
    BY <2>3, <2>7, <2>8, <2>9 DEF Settles
  <2>11. talk'[d] = "talking" BY <1>1, Pinned
  <2> QED BY <1>1, <2>3, <2>7, <2>8, <2>10, <2>11 DEF Opened
<1>6. \A c \in Deliveries : talk'[c] = talk[c] \/ Opened(c) BY <1>1, <1>5, Pinned
<1>7. WorkerCopy BY <1>2, NullFields DEF WorkerCopy
<1> QED BY <1>1, <1>2, <1>3, <1>4, <1>6, <1>7 DEF CopyStep

-----------------------------------------------------------------------------
(* Steps of the peer, of the network and of a conversation                  *)

\* The peer's journal grows, or is left alone; answers follow it.
PeerStep ==
    /\ UNCHANGED <<raw, status, linked, gen, acked, smtp, claimed, talk, sync, sent, doubt>>
    /\ \A m \in Ids : Manifests(m)' \subseteq Manifests(m)
    /\ \A m \in Ids : \/ remote'[m] = remote[m]
                      \/ /\ remote'[m].known /\ remote'[m] \in Manifests(m)
                         /\ Acceptable(m, remote'[m])
    /\ \A m \in Ids : remote'[m].body => blob'[m] = "present" /\ m \in pfiles'
    /\ \A m \in Mail : m \in ok' /\ smtp[m] = "manifest" => m \in ok \/ remote'[m].known
    /\ \A p \in Syncers : p \in ok' =>
         \/ p \in ok
         \/ sync[p].stage = "body"
         \/ sync[p].stage = "manifest" /\ remote'[sync[p].id] = sync[p].man
              /\ remote'[sync[p].id].known

\* What the peer learns or drops preserves the invariant.
LEMMA PeerStepKeeps ==
    ASSUME IdsApart, ReplicationInv, TypeOK', Requests', PeerStep
    PROVE  ReplicationInv'
<1>0. UNCHANGED <<raw, status, linked, gen, acked, smtp, claimed, talk, sync, sent, doubt>>
  BY DEF PeerStep
<1>t. /\ gen \in [Ids -> Nat] /\ acked \in [Ids -> Nat]
      /\ \A m \in Ids : acked[m] <= gen[m]
  BY DEF ReplicationInv, TypeOK
<1>1. \A m \in Ids : \A man \in Manifests(m) : Honest(m, man) /\ man.gen \in Nat
  BY DEF ReplicationInv, AllHonest, Honest
<1>2. ASSUME NEW m \in Ids
      PROVE  /\ remote[m].gen \in Nat /\ remote'[m].gen \in Nat /\ remote'[m].gen >= remote[m].gen
             /\ remote[m].known => remote'[m].known
  <2>1. remote[m].gen \in Nat
    BY <1>1, ManifestOf, NullFields DEF ReplicationInv, Requests
  <2>2. CASE remote'[m] = remote[m] BY <2>1, <2>2
  <2>3. CASE /\ remote'[m].known /\ remote'[m] \in Manifests(m)
             /\ Acceptable(m, remote'[m])
    <3>1. remote'[m].gen \in Nat BY <1>1, <2>3
    <3>2. CASE remote[m].known BY <2>1, <2>3, <3>1, <3>2 DEF Acceptable
    <3>3. CASE ~remote[m].known
      <4>1. remote[m].gen = 0 BY <3>3, NullFields DEF ReplicationInv, Requests
      <4> QED BY <2>3, <3>1, <3>3, <4>1
    <3> QED BY <3>2, <3>3
  <2> QED BY <2>2, <2>3 DEF PeerStep
<1>3. JournalKept'
  <2>1. \A m : Unborn(m) => Unborn(m)' BY <1>0 DEF Unborn
  <2>2. \A d \in Envelope : status[d] \in Live \/ smtp[d[1]] # "accepted" =>
            Unborn(Notice(d))' /\ Manifests(Notice(d))' = {}
    BY <2>1, Names DEF ReplicationInv, JournalKept, PeerStep
  <2> QED BY <1>0, <2>1, <2>2 DEF ReplicationInv, JournalKept
<1>4. \A m \in Ids : \A man \in Manifests(m)' : Honest(m, man)'
  BY <1>0, <1>1 DEF Honest, PeerStep
<1>5. AllHonest' BY <1>4 DEF ReplicationInv, AllHonest, PeerStep
<1>6. PeerKept' BY DEF PeerKept, PeerStep
<1>7. ASSUME NEW m \in Ids, ~remote[m].known, NEW man \in Manifests(m), m \notin raw,
             m \in Mail => smtp[m] = "accepted"
      PROVE  ~man.body /\ \A other \in Manifests(m) : other.gen <= man.gen
  BY <1>7 DEF ReplicationInv, Copied, AllHonest
<1>8. Answered'
  <2>1. \A m \in Mail : m \in ok' /\ smtp'[m] = "manifest" => remote'[m].known
    BY <1>0, <1>2, Names DEF PeerStep, ReplicationInv, Answered
  <2>2. \A p \in Syncers : p \in ok' => sync'[p].stage # "idle"
    BY <1>0 DEF PeerStep, ReplicationInv, Answered
  <2>3. ASSUME NEW p \in Syncers, p \in ok', sync[p].stage = "manifest", NEW m, m = sync[p].id
        PROVE  /\ sync[p].man.body => remote'[m].known
               /\ remote'[m].known => remote'[m].gen >= sync[p].man.gen
    <3>1. m \in Ids /\ sync[p].man \in Manifests(m)
      BY <2>3, NullFields, ManifestOf DEF ReplicationInv, Requests
    <3>2. sync[p].man.gen \in Nat BY <1>1, <3>1
    <3>3. CASE remote'[m] = sync[p].man /\ remote'[m].known BY <3>2, <3>3
    <3>4. CASE p \in ok
      <4>1. /\ sync[p].man.body => remote[m].known
            /\ remote[m].known => remote[m].gen >= sync[p].man.gen
        BY <2>3, <3>4 DEF ReplicationInv, Answered
      <4>2. CASE remote[m].known BY <1>2, <3>1, <3>2, <4>1, <4>2
      <4>3. CASE ~remote[m].known
        <5>1. ~sync[p].man.body BY <4>1, <4>3
        <5>2. Honest(m, sync[p].man) BY <1>1, <3>1
        <5>3. m \notin raw /\ (m \in Mail => smtp[m] = "accepted") BY <5>1, <5>2 DEF Honest
        <5>4. CASE remote'[m] = remote[m] BY <4>3, <5>1, <5>4
        <5>5. CASE remote'[m] \in Manifests(m) BY <1>7, <3>1, <4>3, <5>1, <5>3, <5>5
        <5> QED BY <3>1, <5>4, <5>5 DEF PeerStep
      <4> QED BY <4>2, <4>3
    <3> QED BY <2>3, <3>3, <3>4 DEF PeerStep
  <2> QED BY <1>0, <2>1, <2>2, <2>3 DEF Answered
<1>9. Copied'
  <2> SUFFICES ASSUME NEW m \in Ids
               PROVE  /\ m \in raw /\ (m \in Mail \/ acked[m] > 0) => remote'[m].known
                      /\ remote'[m].known => acked[m] <= remote'[m].gen
                      /\ ~remote'[m].known /\ m \notin raw /\ (m \in Mail => smtp[m] = "accepted")
                           => \A man \in Manifests(m)' : ~man.body
    BY <1>0 DEF Copied
  <2>1. /\ m \in raw /\ (m \in Mail \/ acked[m] > 0) => remote[m].known
        /\ remote[m].known => acked[m] <= remote[m].gen
        /\ ~remote[m].known /\ m \notin raw /\ (m \in Mail => smtp[m] = "accepted")
             => \A man \in Manifests(m) : ~man.body
    BY DEF ReplicationInv, Copied
  <2>2. CASE remote[m].known
    BY <1>2, <1>t, <2>1, <2>2
  <2>3. CASE ~remote[m].known /\ remote'[m] = remote[m]
    BY <2>1, <2>3 DEF PeerStep
  <2>4. CASE ~remote[m].known /\ remote'[m].known /\ remote'[m] \in Manifests(m)
    <3>1. Honest(m, remote'[m]) /\ remote'[m].gen \in Nat BY <1>1, <2>4
    <3>2. acked[m] <= remote'[m].gen
      <4>1. CASE acked[m] = 0 BY <3>1, <4>1
      <4>2. CASE acked[m] > 0
        <5>1. m \notin raw /\ gen[m] > 0 BY <1>t, <2>1, <2>4, <4>2
        <5>2. m \in Mail => smtp[m] = "accepted"
          BY <5>1 DEF ReplicationInv, JournalKept, Unborn
        <5>3. ~remote'[m].body BY <1>7, <2>4, <5>1, <5>2
        <5>4. remote'[m].gen = gen[m] BY <3>1, <5>1, <5>3 DEF Honest
        <5> QED BY <1>t, <5>4
      <4> QED BY <1>t, <4>1, <4>2
    <3> QED BY <2>4, <3>2
  <2> QED BY <2>2, <2>3, <2>4 DEF PeerStep
<1>10. ASSUME NEW d \in Deliveries, NEW g, NEW h, NEW S, Settles(d, g, S),
              g \in Nat, h \in Nat, h >= g
       PROVE  Settles(d, h, S)'
  <2> SUFFICES ASSUME NEW man \in Manifests(d[1])', man.gen >= h PROVE man.st[d] \in S
    BY DEF Settles
  <2>1. d[1] \in Ids /\ man \in Manifests(d[1]) BY Names DEF PeerStep
  <2>2. man.gen \in Nat BY <1>1, <2>1
  <2>3. man.gen >= g BY <1>10, <2>2
  <2> QED BY <1>10, <2>1, <2>3 DEF Settles
<1>11. ClaimsKnown'
  <2>1. \A d \in claimed' : status'[d] = "sending" /\ talk'[d] = "idle" /\ claimed' = {d}
    BY <1>0 DEF ReplicationInv, ClaimsKnown
  <2>2. ASSUME sync["worker"].stage # "idle", NEW w, w = sync["worker"]
        PROVE  \E d \in claimed : /\ w.id = d[1] /\ w.man.gen > 0
                                  /\ Settles(d, w.man.gen, {"sending"})'
    <3>1. PICK d \in claimed : /\ w.id = d[1] /\ w.man.gen > 0
                               /\ Settles(d, w.man.gen, {"sending"})
      BY <2>2 DEF ReplicationInv, ClaimsKnown
    <3>2. d \in Deliveries /\ d[1] \in Ids BY Pinned, Names
    <3>3. Settles(d, w.man.gen, {"sending"})'
      BY <3>1, <3>2 DEF Settles, PeerStep
    <3> QED BY <3>1, <3>3
  <2>3. ASSUME NEW d \in Deliveries, talk[d] # "idle"
        PROVE  /\ status[d] = "sending" /\ remote'[d[1]].known /\ remote'[d[1]].gen > 0
               /\ Settles(d, remote[d[1]].gen, {"sending"})'
    <3>1. /\ status[d] = "sending" /\ remote[d[1]].known /\ remote[d[1]].gen > 0
          /\ Settles(d, remote[d[1]].gen, {"sending"}) /\ d[1] \in Ids
      BY <2>3, Names DEF ReplicationInv, ClaimsKnown
    <3>2. PICK g, h : g = remote[d[1]].gen /\ h = remote'[d[1]].gen OBVIOUS
    <3>3. g \in Nat /\ h \in Nat /\ h >= g /\ g > 0 BY <1>2, <3>1, <3>2
    <3>4. Settles(d, h, {"sending"})' BY <1>10, <3>1, <3>2, <3>3
    <3> QED BY <1>2, <3>1, <3>2, <3>3, <3>4 DEF Settles
  <2> QED BY <1>0, <2>1, <2>2, <2>3 DEF ClaimsKnown, Settles
<1>12. DeliveredKnown'
  <2> SUFFICES ASSUME NEW d \in sent \ doubt
               PROVE  Settles(d, remote[d[1]].gen, Status \ {"pending", "failed"})'
    BY <1>0 DEF ReplicationInv, DeliveredKnown
  <2>1. d \in Deliveries /\ d[1] \in Ids BY Pinned, Names
  <2>2. PICK g, h : g = remote[d[1]].gen /\ h = remote'[d[1]].gen OBVIOUS
  <2>3. Settles(d, g, Status \ {"pending", "failed"}) /\ g \in Nat /\ h \in Nat /\ h >= g
    BY <1>2, <2>1, <2>2 DEF ReplicationInv, DeliveredKnown
  <2>4. Settles(d, h, Status \ {"pending", "failed"})' BY <1>10, <2>1, <2>3
  <2> QED BY <2>2, <2>4 DEF Settles
<1>13. RetiredKnown'
  <2> SUFFICES ASSUME NEW m \in Ids, gen[m] > 0, m \notin raw, NEW d \in Of(m)
               PROVE  Settles(d, remote[m].gen, Status \ Live)'
    BY <1>0 DEF RetiredKnown
  <2>1. d \in Deliveries /\ d[1] = m BY Names
  <2>2. PICK g, h : g = remote[m].gen /\ h = remote'[m].gen OBVIOUS
  <2>3. Settles(d, g, Status \ Live) /\ g \in Nat /\ h \in Nat /\ h >= g
    BY <1>2, <2>2 DEF ReplicationInv, RetiredKnown
  <2>4. Settles(d, h, Status \ Live)' BY <1>10, <2>1, <2>3
  <2> QED BY <2>2, <2>4 DEF Settles
<1> QED BY <1>3, <1>5, <1>6, <1>8, <1>9, <1>11, <1>12, <1>13 DEF ReplicationInv

\* Who hears an answer.
LEMMA AnsweredBy ==
    ASSUME IdsApart, ReplicationInv, NEW r \in net, Answer(r), UNCHANGED sync
    PROVE  /\ \A m \in Mail : m \in ok' =>
                m \in ok \/ (smtp[m] = r.kind /\ r.id = m)
           /\ \A p \in Syncers : p \in ok' =>
                \/ p \in ok
                \/ /\ sync[p].stage = r.kind /\ sync[p].id = r.id
                   /\ r.kind = "manifest" => sync[p].man = r.man
<1>1. r.proc \in Mail => r.id = r.proc BY DEF ReplicationInv, Requests
<1>2. \A x \in ok' : x \in ok \/ (x = r.proc /\ Waiting(r)) BY DEF Answer
<1> QED BY <1>1, <1>2, Names DEF Waiting

\* Each step of the peer but the forgetting is a PeerStep.
LEMMA StoreBodySteps ==
    ASSUME IdsApart, ReplicationInv, NEW r \in net, StoreBody(r)
    PROVE  PeerStep /\ Requests'
<1>1. /\ r.kind = "body" /\ net' = net \ {r} /\ remote' = remote
      /\ UNCHANGED <<raw, status, linked, gen, acked, smtp, claimed, talk, sync, sent, doubt>>
  BY DEF StoreBody, journal, history
<1>2. \A m : Manifests(m)' \subseteq Manifests(m) BY <1>1, NothingNew
<1>3. Requests' BY <1>1 DEF ReplicationInv, Requests
<1>4. \A m \in Ids : remote[m].body => blob'[m] = "present" /\ m \in pfiles'
  BY DEF StoreBody, ReplicationInv, PeerKept, TypeOK
<1>5. /\ \A m \in Mail : m \in ok' => m \in ok \/ smtp[m] = "body"
      /\ \A p \in Syncers : p \in ok' => p \in ok \/ sync[p].stage = "body"
  <2>1. CASE ok' = ok BY <2>1
  <2>2. CASE Answer(r) BY <1>1, <2>2, AnsweredBy
  <2> QED BY <2>1, <2>2 DEF StoreBody
<1> QED BY <1>1, <1>2, <1>3, <1>4, <1>5 DEF PeerStep

\* A manifest is taken, acknowledged again or refused.
LEMMA IngestSteps ==
    ASSUME IdsApart, ReplicationInv, NEW r \in net, NEW torn, Ingest(r, torn)
    PROVE  PeerStep /\ Requests'
<1>1. /\ r.kind = "manifest" /\ net' = net \ {r}
      /\ UNCHANGED <<raw, status, linked, gen, acked, smtp, claimed, talk, sync, sent, doubt>>
  BY DEF Ingest, journal, history
<1>2. PICK m, man : m = r.id /\ man = r.man OBVIOUS
<1>3. m \in Ids /\ man \in Manifests(m)
  BY <1>1, <1>2, ManifestOf DEF ReplicationInv, Requests
<1>4. man.known /\ man.body \in BOOLEAN BY <1>3 DEF ReplicationInv, AllHonest, Honest
<1>5. CASE /\ Acceptable(m, man) /\ remote' = [remote EXCEPT ![m] = man]
           /\ blob' = IF man.body \/ blob[m] = "none" THEN blob ELSE [blob EXCEPT ![m] = "retired"]
           /\ pfiles' = IF man.body \/ torn THEN pfiles ELSE pfiles \ {m}
           /\ Answer(r)
  <2>1. remote'[m] = man /\ \A n \in Ids : n # m => remote'[n] = remote[n]
    BY <1>3, <1>5 DEF ReplicationInv, TypeOK
  <2>2. ASSUME NEW n \in Ids, NEW x \in Manifests(n)' PROVE x \in Manifests(n)
    <3>1. \/ x = remote'[n] /\ remote'[n].known
          \/ \E p \in Syncers : sync[p].stage # "idle" /\ sync[p].id = n /\ x = sync[p].man
          \/ \E q \in net : q.kind = "manifest" /\ q.id = n /\ x = q.man
      BY <1>1, <2>2 DEF Manifests, Outgoing
    <3> QED BY <1>3, <2>1, <3>1, ManifestOf
  <2>3. Requests' BY <1>1, <1>4, <2>1 DEF ReplicationInv, Requests
  <2>4. ASSUME NEW n \in Ids, remote'[n].body PROVE blob'[n] = "present" /\ n \in pfiles'
    <3>1. CASE n = m
      BY <1>5, <2>1, <2>4, <3>1 DEF Acceptable
    <3>2. CASE n # m
      <4>1. blob[n] = "present" /\ n \in pfiles
        BY <2>1, <2>4, <3>2 DEF ReplicationInv, PeerKept
      <4> QED BY <1>5, <3>2, <4>1 DEF ReplicationInv, TypeOK
    <3> QED BY <3>1, <3>2
  <2>5. /\ \A n \in Mail : n \in ok' => n \in ok \/ n = m
        /\ \A p \in Syncers : p \in ok' =>
             p \in ok \/ (sync[p].stage = "manifest" /\ sync[p].id = m /\ sync[p].man = man)
    BY <1>1, <1>2, <1>5, AnsweredBy
  <2>6. \A n \in Ids : \/ remote'[n] = remote[n]
                       \/ /\ remote'[n].known /\ remote'[n] \in Manifests(n)
                          /\ Acceptable(n, remote'[n])
    BY <1>3, <1>4, <1>5, <2>1
  <2> QED BY <1>1, <1>4, <2>1, <2>2, <2>3, <2>4, <2>5, <2>6 DEF PeerStep
<1>6. CASE /\ IF remote[m] = man THEN Answer(r) ELSE UNCHANGED ok
           /\ UNCHANGED peer
  <2>1. remote' = remote /\ blob' = blob /\ pfiles' = pfiles BY <1>6 DEF peer
  <2>2. \A n : Manifests(n)' \subseteq Manifests(n) BY <1>1, <2>1, NothingNew
  <2>3. Requests' BY <1>1, <2>1 DEF ReplicationInv, Requests
  <2>4. \A n \in Ids : remote'[n].body => blob'[n] = "present" /\ n \in pfiles'
    BY <2>1 DEF ReplicationInv, PeerKept
  <2>5. /\ \A n \in Mail : n \in ok' => n \in ok \/ remote[n].known
        /\ \A p \in Syncers : p \in ok' =>
             \/ p \in ok
             \/ /\ sync[p].stage = "manifest" /\ remote[sync[p].id] = sync[p].man
                /\ remote[sync[p].id].known
    <3>1. CASE ok' = ok BY <3>1
    <3>2. CASE remote[m] = man /\ Answer(r) BY <1>1, <1>2, <1>4, <3>2, AnsweredBy
    <3> QED BY <1>6, <3>1, <3>2
  <2> QED BY <1>1, <2>1, <2>2, <2>3, <2>4, <2>5 DEF PeerStep
<1> QED BY <1>2, <1>5, <1>6 DEF Ingest

\* A request is lost.
LEMMA LoseSteps ==
    ASSUME IdsApart, ReplicationInv, NEW r \in net, Lose(r)
    PROVE  PeerStep /\ Requests'
<1>1. /\ net' = net \ {r} /\ UNCHANGED <<remote, blob, pfiles, ok>>
      /\ UNCHANGED <<raw, status, linked, gen, acked, smtp, claimed, talk, sync, sent, doubt>>
  BY DEF Lose, journal, history, peer
<1>2. \A m : Manifests(m)' \subseteq Manifests(m) BY <1>1, NothingNew
<1> QED BY <1>1, <1>2 DEF PeerStep, ReplicationInv, Requests, PeerKept

\* The peer drops a body no manifest refers to.
LEMMA PeerCleanupSteps ==
    ASSUME IdsApart, ReplicationInv, NEW m \in Ids, NEW torn, PeerCleanup(m, torn)
    PROVE  PeerStep /\ Requests'
<1>1. /\ UNCHANGED <<raw, status, linked, gen, acked, smtp, claimed, talk, sync, sent, doubt>>
      /\ UNCHANGED <<remote, net, ok>>
  BY DEF PeerCleanup, journal, process, history
<1>2. \A n : Manifests(n)' \subseteq Manifests(n) BY <1>1, NothingNew
<1>3. ~remote[m].body
  BY NullFields DEF PeerCleanup, ReplicationInv, PeerKept, Requests
<1>4. /\ pfiles' = pfiles \ {m} /\ \A n \in Ids : n # m => blob'[n] = blob[n]
  BY DEF PeerCleanup, ReplicationInv, TypeOK
<1>5. \A n \in Ids : remote[n].body => blob'[n] = "present" /\ n \in pfiles'
  BY <1>3, <1>4 DEF ReplicationInv, PeerKept
<1> QED BY <1>1, <1>2, <1>5 DEF PeerStep, ReplicationInv, Requests

\* What the peer forgets is resolved, and is not offered to it again with a body.
LEMMA ForgetKeeps ==
    ASSUME IdsApart, ReplicationInv, TypeOK', NEW m \in Ids, PeerForget(m)
    PROVE  ReplicationInv'
<1>0. /\ UNCHANGED <<raw, status, linked, gen, acked, smtp, claimed, talk, sync, sent, doubt>>
      /\ UNCHANGED <<net, ok, blob, pfiles>>
  BY DEF PeerForget, journal, process, history
<1>1. /\ remote[m].known /\ ~remote[m].body /\ remote' = [remote EXCEPT ![m] = NoManifest]
      /\ \A r \in net : r.id = m => r.kind = "manifest" /\ ~r.man.body
      /\ \A p \in Syncers : sync[p].id = m => ~sync[p].man.body
  BY DEF PeerForget
<1>2. remote'[m] = NoManifest /\ \A n \in Ids : n # m => remote'[n] = remote[n]
  BY <1>1 DEF ReplicationInv, TypeOK
<1>3. \A n \in Ids : \A x \in Manifests(n)' :
         \/ n # m /\ x = remote[n] /\ remote[n].known
         \/ \E p \in Syncers : sync[p].stage # "idle" /\ sync[p].id = n /\ x = sync[p].man
         \/ \E q \in net : q.kind = "manifest" /\ q.id = n /\ x = q.man
  BY <1>0, <1>2, NullFields DEF Manifests, Outgoing
<1>4. \A n \in Ids : Manifests(n)' \subseteq Manifests(n) BY <1>3, ManifestOf
<1>5. \A x \in Manifests(m)' : ~x.body BY <1>1, <1>3
<1>6. Honest(m, remote[m]) BY <1>1, ManifestOf DEF ReplicationInv, AllHonest
<1>7. /\ m \notin raw /\ (m \in Mail => smtp[m] = "accepted")
      /\ \A d \in Of(m) : status[d] \notin Live
  BY <1>1, <1>6 DEF Honest, ReplicationInv, JournalKept
<1>8. \A n \in Ids : \A man \in Manifests(n) : Honest(n, man)
  BY DEF ReplicationInv, AllHonest
<1>9. Requests' BY <1>0, <1>2 DEF ReplicationInv, Requests
<1>10. JournalKept'
  <2>1. \A n : Unborn(n) => Unborn(n)' BY <1>0 DEF Unborn
  <2>2. \A d \in Envelope : status[d] \in Live \/ smtp[d[1]] # "accepted" =>
            Unborn(Notice(d))' /\ Manifests(Notice(d))' = {}
    BY <1>4, <2>1, Names DEF ReplicationInv, JournalKept
  <2> QED BY <1>0, <2>1, <2>2 DEF ReplicationInv, JournalKept
<1>11. \A n \in Ids : \A man \in Manifests(n)' : Honest(n, man)'
  BY <1>0, <1>4, <1>8 DEF Honest
<1>12. AllHonest' BY <1>4, <1>11 DEF ReplicationInv, AllHonest
<1>13. PeerKept' BY <1>0, <1>2, NullFields DEF ReplicationInv, PeerKept
<1>14. Answered'
  <2>1. \A n \in Mail : n \in ok' /\ smtp'[n] = "manifest" => remote'[n].known
    BY <1>0, <1>2, <1>7, Names DEF ReplicationInv, Answered
  <2>2. ASSUME NEW p \in Syncers, p \in ok, sync[p].stage = "manifest"
        PROVE  /\ sync[p].man.body => remote'[sync[p].id].known
               /\ remote'[sync[p].id].known => remote'[sync[p].id].gen >= sync[p].man.gen
    <3>1. sync[p].id \in Ids BY <2>2, NullFields DEF ReplicationInv, Requests
    <3>2. CASE sync[p].id = m BY <1>1, <1>2, <3>2, NullFields
    <3>3. CASE sync[p].id # m BY <1>2, <2>2, <3>1, <3>3 DEF ReplicationInv, Answered
    <3> QED BY <3>2, <3>3
  <2> QED BY <1>0, <2>1, <2>2 DEF ReplicationInv, Answered
<1>15. Copied'
  <2> SUFFICES ASSUME NEW n \in Ids
               PROVE  /\ n \in raw /\ (n \in Mail \/ acked[n] > 0) => remote'[n].known
                      /\ remote'[n].known => acked[n] <= remote'[n].gen
                      /\ ~remote'[n].known /\ n \notin raw /\ (n \in Mail => smtp[n] = "accepted")
                           => \A man \in Manifests(n)' : ~man.body
    BY <1>0 DEF Copied
  <2>1. CASE n = m BY <1>2, <1>5, <1>7, <2>1, NullFields
  <2>2. CASE n # m BY <1>2, <1>4, <2>2 DEF ReplicationInv, Copied
  <2> QED BY <2>1, <2>2
<1>16. ASSUME NEW d \in Deliveries, NEW g, NEW S, Settles(d, g, S) PROVE Settles(d, g, S)'
  BY <1>4, <1>16, Names DEF Settles
<1>17. ASSUME NEW d \in Of(m), NEW g PROVE Settles(d, g, Status \ Live)'
  <2> SUFFICES ASSUME NEW man \in Manifests(m)' PROVE man.st[d] \in Status \ Live
    BY Names DEF Settles
  <2> QED BY <1>4, <1>5, <1>8 DEF Honest
<1>18. ClaimsKnown'
  <2>1. \A d \in claimed' : status'[d] = "sending" /\ talk'[d] = "idle" /\ claimed' = {d}
    BY <1>0 DEF ReplicationInv, ClaimsKnown
  <2>2. ASSUME sync["worker"].stage # "idle", NEW w, w = sync["worker"]
        PROVE  \E d \in claimed : /\ w.id = d[1] /\ w.man.gen > 0
                                  /\ Settles(d, w.man.gen, {"sending"})'
    <3>1. PICK d \in claimed : /\ w.id = d[1] /\ w.man.gen > 0
                               /\ Settles(d, w.man.gen, {"sending"})
      BY <2>2 DEF ReplicationInv, ClaimsKnown
    <3>2. Settles(d, w.man.gen, {"sending"})' BY <1>16, <3>1, Pinned
    <3> QED BY <3>1, <3>2
  <2>3. ASSUME NEW d \in Deliveries, talk[d] # "idle"
        PROVE  /\ status[d] = "sending" /\ remote'[d[1]].known /\ remote'[d[1]].gen > 0
               /\ Settles(d, remote[d[1]].gen, {"sending"})'
    <3>1. /\ status[d] = "sending" /\ remote[d[1]].known /\ remote[d[1]].gen > 0
          /\ Settles(d, remote[d[1]].gen, {"sending"}) /\ d[1] \in Ids /\ d \in Of(d[1])
      BY <2>3, Names DEF ReplicationInv, ClaimsKnown
    <3>2. d[1] # m BY <1>7, <3>1 DEF Live
    <3>3. PICK g : g = remote[d[1]].gen OBVIOUS
    <3>4. Settles(d, g, {"sending"})' BY <1>16, <3>1, <3>3
    <3> QED BY <1>2, <3>1, <3>2, <3>3, <3>4 DEF Settles
  <2> QED BY <1>0, <2>1, <2>2, <2>3 DEF ClaimsKnown, Settles
<1>19. DeliveredKnown'
  <2> SUFFICES ASSUME NEW d \in sent \ doubt
               PROVE  Settles(d, remote[d[1]].gen, Status \ {"pending", "failed"})'
    BY <1>0 DEF ReplicationInv, DeliveredKnown
  <2>1. d \in Deliveries /\ d[1] \in Ids /\ d \in Of(d[1]) BY Pinned, Names
  <2>2. PICK g, h : g = remote[d[1]].gen /\ h = remote'[d[1]].gen OBVIOUS
  <2>3. Settles(d, g, Status \ {"pending", "failed"}) BY <2>2 DEF ReplicationInv, DeliveredKnown
  <2>4. CASE d[1] = m
    <3>1. Settles(d, h, Status \ Live)' BY <1>17, <2>1, <2>4
    <3> QED BY <2>2, <3>1 DEF Settles, Live
  <2>5. CASE d[1] # m
    <3>1. Settles(d, g, Status \ {"pending", "failed"})' /\ h = g
      BY <1>2, <1>16, <2>1, <2>2, <2>3, <2>5
    <3> QED BY <2>2, <3>1 DEF Settles
  <2> QED BY <2>4, <2>5
<1>20. RetiredKnown'
  <2> SUFFICES ASSUME NEW n \in Ids, gen[n] > 0, n \notin raw, NEW d \in Of(n)
               PROVE  Settles(d, remote[n].gen, Status \ Live)'
    BY <1>0 DEF RetiredKnown
  <2>1. d \in Deliveries /\ d[1] = n BY Names
  <2>2. PICK g, h : g = remote[n].gen /\ h = remote'[n].gen OBVIOUS
  <2>3. Settles(d, g, Status \ Live) BY <2>2 DEF ReplicationInv, RetiredKnown
  <2>4. CASE n = m
    <3>1. Settles(d, h, Status \ Live)' BY <1>17, <2>4
    <3> QED BY <2>2, <3>1 DEF Settles
  <2>5. CASE n # m
    <3>1. Settles(d, g, Status \ Live)' /\ h = g BY <1>2, <1>16, <2>1, <2>2, <2>3, <2>5
    <3> QED BY <2>2, <3>1 DEF Settles
  <2> QED BY <2>4, <2>5
<1> QED BY <1>9, <1>10, <1>12, <1>13, <1>14, <1>15, <1>18, <1>19, <1>20 DEF ReplicationInv

\* The upstream takes a delivery, and the owner hears of it or not.
LEMMA TakenKeeps ==
    ASSUME IdsApart, ReplicationInv, TypeOK', NEW d \in Deliveries, Taken(d) \/ TakenUnheard(d)
    PROVE  ReplicationInv'
<1>0. /\ UNCHANGED <<raw, status, linked, gen, acked, smtp, claimed, sync, net, ok>>
      /\ UNCHANGED <<remote, blob, pfiles>>
  BY DEF Taken, TakenUnheard, journal, peer
<1>1. /\ talk[d] = "talking" /\ sent' = sent \cup {d}
      /\ \A c \in Deliveries : c # d => talk'[c] = talk[c]
      /\ \/ talk'[d] = "taken" /\ doubt' = doubt
         \/ talk'[d] = "deferred" /\ doubt' = doubt \cup {d}
  BY Pinned DEF Taken, TakenUnheard
<1>2. \A n : Manifests(n)' = Manifests(n) BY <1>0 DEF Manifests, Outgoing
<1>3. /\ status[d] = "sending" /\ remote[d[1]].known /\ remote[d[1]].gen > 0
      /\ Settles(d, remote[d[1]].gen, {"sending"})
  BY <1>1 DEF ReplicationInv, ClaimsKnown
<1>4. Requests' /\ AllHonest' /\ PeerKept' /\ Answered' /\ Copied' /\ RetiredKnown'
  <2>1. Requests' /\ PeerKept' /\ Answered'
    BY <1>0 DEF ReplicationInv, Requests, PeerKept, Answered
  <2>2. \A n, man : Honest(n, man) => Honest(n, man)' BY <1>0 DEF Honest
  <2>3. AllHonest' BY <1>2, <2>2 DEF ReplicationInv, AllHonest
  <2>4. Copied' BY <1>0, <1>2 DEF ReplicationInv, Copied
  <2>5. RetiredKnown' BY <1>0, <1>2 DEF ReplicationInv, RetiredKnown, Settles
  <2> QED BY <2>1, <2>3, <2>4, <2>5
<1>5. JournalKept'
  <2>1. ASSUME NEW n, Unborn(n) PROVE Unborn(n)'
    <3>1. d \notin Of(n) BY <1>3, <2>1 DEF Unborn
    <3> QED BY <1>0, <1>1, <2>1, <3>1, Names DEF Unborn
  <2>2. \A n \in Ids : \A c \in Of(n) : talk'[c] = "taken" => c \in sent'
    BY <1>1, Names DEF ReplicationInv, JournalKept
  <2>3. \A c \in Envelope : status[c] \in Live \/ smtp[c[1]] # "accepted" =>
            Unborn(Notice(c))' /\ Manifests(Notice(c))' = {}
    BY <1>2, <2>1 DEF ReplicationInv, JournalKept
  <2> QED BY <1>0, <2>1, <2>2, <2>3 DEF ReplicationInv, JournalKept
<1>6. ClaimsKnown'
  <2>1. \A c \in claimed : c # d /\ c \in Deliveries BY <1>1, Pinned
  <2>2. \A c \in claimed' : status'[c] = "sending" /\ talk'[c] = "idle" /\ claimed' = {c}
    BY <1>0, <1>1, <2>1 DEF ReplicationInv, ClaimsKnown
  <2>3. \A c \in Deliveries : talk'[c] # "idle" => talk[c] # "idle" BY <1>1
  <2> QED BY <1>0, <1>2, <2>2, <2>3 DEF ReplicationInv, ClaimsKnown, Settles
<1>7. DeliveredKnown'
  <2> SUFFICES ASSUME NEW c \in sent' \ doubt'
               PROVE  /\ \/ status[c] \in {"delivered", "none"}
                         \/ status[c] = "sending" /\ talk'[c] = "taken"
                      /\ Settles(c, remote[c[1]].gen, Status \ {"pending", "failed"})
    BY <1>0, <1>2 DEF DeliveredKnown, Settles
  <2>1. CASE c = d
    <3>1. talk'[d] = "taken" BY <1>1, <2>1
    <3> QED BY <1>3, <2>1, <3>1 DEF Settles, Status, Live
  <2>2. CASE c # d
    <3>1. c \in sent \ doubt /\ c \in Deliveries BY <1>1, <2>2, Pinned
    <3> QED BY <1>1, <2>2, <3>1 DEF ReplicationInv, DeliveredKnown
  <2> QED BY <2>1, <2>2
<1> QED BY <1>4, <1>5, <1>6, <1>7 DEF ReplicationInv

-----------------------------------------------------------------------------
(* Types                                                                    *)

\* Every step keeps the types.
LEMMA TypeStep ==
    ASSUME IdsApart, ReplicationInv, Next PROVE TypeOK'
<1>t. TypeOK BY DEF ReplicationInv
<1>0. "worker" \in Syncers /\ "loop" \in Syncers BY DEF Syncers
<1>1. {"none", "pending", "sending", "failed", "quarantined", "delivered", "notified",
       "discarded"} = Status
  BY DEF Status, Live, Terminal
<1>2. ASSUME NEW m \in Mail, Accept(m) PROVE TypeOK'
  <2>1. ASSUME NEW held \in SUBSET (Of(m) \cap Envelope), Prepare(m, held) PROVE TypeOK'
    BY <1>t, <2>1 DEF TypeOK, Prepare, journal, peer, history
  <2>2. CASE PrepareManifest(m)
    BY <1>t, <2>2 DEF TypeOK, PrepareManifest, journal, peer, history
  <2>3. CASE Commit(m)
    <3>1. status' \in [Deliveries -> Status] BY <1>1, <1>t, <2>3 DEF Commit, TypeOK
    <3>2. m \in Ids /\ acked[m] = 0
      BY <2>3, Names DEF Commit, ReplicationInv, JournalKept, Unborn
    <3>3. gen' \in [Ids -> Nat] /\ \A n \in Ids : acked'[n] <= gen'[n]
      BY <1>t, <2>3, <3>2 DEF Commit, TypeOK
    <3> QED BY <1>t, <2>3, <3>1, <3>2, <3>3 DEF TypeOK, Commit, peer, history
  <2>4. CASE Refuse(m)
    BY <1>t, <2>4 DEF TypeOK, Refuse, journal, peer, history
  <2> QED BY <1>2, <2>1, <2>2, <2>3, <2>4 DEF Accept
<1>3. ASSUME NEW d \in Deliveries, NEW s \in Status, Change(d, s), UNCHANGED acked
      PROVE  /\ status' \in [Deliveries -> Status] /\ gen' \in [Ids -> Nat]
             /\ acked' \in [Ids -> Nat] /\ \A m \in Ids : acked'[m] <= gen'[m]
  BY <1>3, <1>t, Names DEF TypeOK, Change, Touch
<1>4. ASSUME NEW p \in Syncers, RecordAck(p), UNCHANGED gen
      PROVE  acked' \in [Ids -> Nat] /\ (\A m \in Ids : acked'[m] <= gen'[m]) /\ ok' \subseteq ok
  <2>1. /\ \A m \in Ids : acked'[m] = acked[m] \/ (Receipted(m) /\ acked'[m] \in Nat)
        /\ DOMAIN acked' = Ids /\ ok' \subseteq ok
    BY <1>4, AckRecords
  <2>2. \A m \in Ids : acked'[m] \in Nat /\ acked'[m] <= gen'[m]
    BY <1>4, <1>t, <2>1 DEF Receipted, TypeOK
  <2>3. acked' = [m \in Ids |-> acked'[m]]
    BY <1>4, <1>t, <2>1 DEF RecordAck, TypeOK
  <2> QED BY <2>1, <2>2, <2>3
<1>5. ASSUME NEW d \in Deliveries, Relay(d) PROVE TypeOK'
  <2>1. CASE Claim(d)
    <3>1. "sending" \in Status BY <1>1
    <3> QED BY <1>3, <1>t, <2>1, <3>1 DEF TypeOK, Claim, peer, history
  <2>2. CASE MirrorClaim(d)
    BY <1>t, <2>2 DEF TypeOK, MirrorClaim, journal, peer, history
  <2>3. CASE Spawn(d)
    BY <1>0, <1>4, <1>t, <2>3 DEF TypeOK, Spawn, peer, history
  <2>4. CASE Unclaim(d)
    <3>1. "pending" \in Status BY <1>1
    <3> QED BY <1>3, <1>t, <2>4, <3>1 DEF TypeOK, Unclaim, GiveUp, peer, history
  <2>5. CASE Taken(d)
    BY <1>t, <2>5 DEF TypeOK, Taken, journal, peer
  <2>6. CASE TakenUnheard(d)
    BY <1>t, <2>6 DEF TypeOK, TakenUnheard, journal, peer
  <2>7. ASSUME NEW s \in {"delivered", "pending", "failed"}, Finish(d, s) PROVE TypeOK'
    <3>1. s \in Status BY <1>1
    <3> QED BY <1>3, <1>t, <2>7, <3>1 DEF TypeOK, Finish, peer, history
  <2>8. CASE NotifyNobody(d)
    <3>1. "notified" \in Status BY <1>1
    <3> QED BY <1>3, <1>t, <2>8, <3>1 DEF TypeOK, NotifyNobody, process, peer, history
  <2>9. CASE d \in Envelope /\ EnqueueDsn(d)
    <3>1. /\ d[1] \in Ids /\ Notice(d) \in Ids /\ Reply(d) \in Deliveries
          /\ d[1] # Notice(d) /\ d # Reply(d)
      BY <2>9, Names
    <3>2. acked[Notice(d)] = 0
      BY <2>9 DEF EnqueueDsn, ReplicationInv, JournalKept, Unborn, Live
    <3>3. status' \in [Deliveries -> Status]
      BY <1>1, <1>t, <2>9, <3>1 DEF EnqueueDsn, TypeOK
    <3>4. /\ gen' = [gen EXCEPT ![d[1]] = @ + 1, ![Notice(d)] = 1] /\ acked' = acked
          /\ gen \in [Ids -> Nat] /\ acked \in [Ids -> Nat] /\ \A m \in Ids : acked[m] <= gen[m]
      BY <1>t, <2>9 DEF EnqueueDsn, TypeOK
    <3>5. gen' \in [Ids -> Nat] BY <3>1, <3>4
    <3>6. /\ gen'[d[1]] = gen[d[1]] + 1 /\ gen'[Notice(d)] = 1
          /\ \A m \in Ids : m # d[1] /\ m # Notice(d) => gen'[m] = gen[m]
      BY <3>1, <3>4
    <3>7. \A m \in Ids : acked'[m] <= gen'[m] BY <3>1, <3>2, <3>4, <3>6
    <3>8. raw' \subseteq Ids /\ linked' \subseteq Envelope
      BY <1>t, <2>9, <3>1 DEF EnqueueDsn, TypeOK
    <3> QED BY <1>t, <2>9, <3>3, <3>4, <3>5, <3>7, <3>8
            DEF EnqueueDsn, TypeOK, process, peer, history
  <2>10. ASSUME NEW s \in {"pending", "discarded"}, EndHold(d, s) PROVE TypeOK'
    <3>1. s \in Status BY <1>1
    <3> QED BY <1>3, <1>t, <2>10, <3>1 DEF TypeOK, EndHold, process, peer, history
  <2> QED BY <1>5, <2>1, <2>2, <2>3, <2>4, <2>5, <2>6, <2>7, <2>8, <2>9, <2>10 DEF Relay
<1>6. ASSUME NEW m \in Ids, Tombstone(m) \/ Purge(m) PROVE TypeOK'
  <2>1. CASE Tombstone(m)
    BY <1>t, <2>1 DEF TypeOK, Tombstone, Touch, process, peer, history
  <2>2. CASE Purge(m)
    <3>1. status' \in [Deliveries -> Status] BY <1>1, <1>t, <2>2 DEF Purge, TypeOK
    <3>2. /\ gen' \in [Ids -> Nat] /\ acked' \in [Ids -> Nat]
          /\ \A n \in Ids : acked'[n] <= gen'[n]
      BY <1>t, <2>2 DEF Purge, TypeOK
    <3> QED BY <1>t, <2>2, <3>1, <3>2 DEF TypeOK, Purge, process, peer, history
  <2> QED BY <1>6, <2>1, <2>2
<1>7. CASE Mirror
  <2>1. ASSUME NEW p \in Syncers, SendManifest(p) PROVE TypeOK'
    BY <1>t, <2>1 DEF TypeOK, SendManifest, journal, peer, history
  <2>2. ASSUME NEW list \in SUBSET Behind, ListPass(list) PROVE TypeOK'
    <3>1. list \subseteq Ids BY DEF Behind
    <3> QED BY <1>t, <2>2, <3>1 DEF TypeOK, ListPass, journal, peer, history
  <2>3. ASSUME NEW m \in Ids, LoopMirror(m) PROVE TypeOK'
    BY <1>t, <2>3 DEF TypeOK, LoopMirror, journal, peer, history
  <2>4. CASE LoopAck
    BY <1>0, <1>4, <1>t, <2>4 DEF TypeOK, LoopAck, peer, history
  <2>5. CASE LoopFails
    BY <1>t, <2>5 DEF TypeOK, LoopFails, GiveUp, journal, peer, history
  <2> QED BY <1>7, <2>1, <2>2, <2>3, <2>4, <2>5 DEF Mirror
<1>8. CASE Peer
  <2>0. ASSUME NEW r \in net PROVE r.id \in Ids /\ r.proc \in Mail \cup Syncers
    BY DEF ReplicationInv, Requests
  <2>a. ASSUME NEW r \in net, Answer(r) PROVE ok' \subseteq Mail \cup Syncers
    BY <1>t, <2>0, <2>a DEF TypeOK, Answer
  <2>1. ASSUME NEW r \in net, StoreBody(r) PROVE TypeOK'
    <3>1. ok' \subseteq Mail \cup Syncers BY <1>t, <2>1, <2>a DEF StoreBody, TypeOK
    <3>2. blob' \in [Ids -> {"none", "present", "retired"}] /\ pfiles' \subseteq Ids
      BY <1>t, <2>0, <2>1 DEF StoreBody, TypeOK
    <3> QED BY <1>t, <2>1, <3>1, <3>2 DEF TypeOK, StoreBody, journal, history
  <2>2. ASSUME NEW r \in net, Lose(r) PROVE TypeOK'
    BY <1>t, <2>2 DEF TypeOK, Lose, journal, peer, history
  <2>3. ASSUME NEW r \in net, NEW torn \in BOOLEAN, Ingest(r, torn) PROVE TypeOK'
    <3>1. ok' \subseteq Mail \cup Syncers BY <1>t, <2>3, <2>a DEF Ingest, TypeOK
    <3>2. /\ blob' \in [Ids -> {"none", "present", "retired"}] /\ pfiles' \subseteq Ids
          /\ DOMAIN remote' = Ids
      BY <1>t, <2>0, <2>3 DEF Ingest, TypeOK, peer
    <3> QED BY <1>t, <2>3, <3>1, <3>2 DEF TypeOK, Ingest, journal, history
  <2>4. ASSUME NEW m \in Ids, PeerForget(m) PROVE TypeOK'
    BY <1>t, <2>4 DEF TypeOK, PeerForget, journal, process, history
  <2>5. ASSUME NEW m \in Ids, NEW torn \in BOOLEAN, PeerCleanup(m, torn) PROVE TypeOK'
    BY <1>t, <2>5 DEF TypeOK, PeerCleanup, journal, process, history
  <2> QED BY <1>8, <2>1, <2>2, <2>3, <2>4, <2>5 DEF Peer
<1>9. CASE CrashAndRecover
  <2>1. status' \in [Deliveries -> Status] BY <1>1, <1>t, <1>9 DEF CrashAndRecover, TypeOK
  <2>2. gen' \in [Ids -> Nat] /\ \A m \in Ids : acked'[m] <= gen'[m]
    BY <1>t, <1>9 DEF CrashAndRecover, TypeOK
  <2>3. smtp' \in [Mail -> {"idle", "body", "manifest", "accepted", "refused"}]
    BY <1>t, <1>9 DEF CrashAndRecover, TypeOK
  <2>4. doubt' \subseteq sent'
    <3>1. \A d \in Deliveries : talk[d] = "taken" => d \in sent
      BY Names DEF ReplicationInv, JournalKept
    <3> QED BY <1>t, <1>9, <3>1 DEF CrashAndRecover, TypeOK
  <2>5. crashes' \in 0..MaxCrashes BY <1>t, <1>9 DEF CrashAndRecover, TypeOK, IdsApart
  <2>6. /\ talk' \in [Deliveries -> {"idle", "talking", "taken", "deferred"}]
        /\ claimed' = {} /\ todo' = {} /\ urgent' = {} /\ ok' = {}
        /\ UNCHANGED <<raw, linked, acked, planned, remote, blob, pfiles, sent>>
    BY <1>9 DEF CrashAndRecover, peer
  <2> QED BY <1>t, <2>1, <2>2, <2>3, <2>4, <2>5, <2>6 DEF TypeOK
<1> QED BY <1>2, <1>5, <1>6, <1>7, <1>8, <1>9 DEF Next

-----------------------------------------------------------------------------
(* Induction                                                                *)

\* The invariant holds at first.
LEMMA InvInit == ASSUME IdsApart, Init PROVE ReplicationInv
<1>1. TypeOK BY DEF Init, TypeOK, Status, IdsApart, Syncers
<1>2. \A m \in Ids : Manifests(m) = {}
  BY NullFields DEF Init, Manifests, Outgoing
<1>3. /\ raw = {} /\ linked = {} /\ claimed = {} /\ ok = {} /\ net = {} /\ sent = {}
      /\ \A m \in Ids : gen[m] = 0 /\ acked[m] = 0 /\ remote[m] = NoManifest
      /\ \A d \in Deliveries : status[d] = "none" /\ talk[d] = "idle"
      /\ \A p \in Syncers : sync[p] = Idle
      /\ DOMAIN sync = Syncers
  BY DEF Init
<1>4. Requests /\ Answered BY <1>3 DEF Requests, Answered
<1>5. \A m \in Ids : Unborn(m) BY <1>3, Names DEF Unborn
<1>6. JournalKept
  BY <1>2, <1>3, <1>5, Names DEF JournalKept, Live
<1>7. AllHonest BY <1>2 DEF AllHonest
<1>8. PeerKept /\ Copied BY <1>2, <1>3, NullFields DEF PeerKept, Copied
<1>9. ClaimsKnown BY <1>3, NullFields DEF ClaimsKnown, Syncers
<1>10. DeliveredKnown /\ RetiredKnown BY <1>3 DEF DeliveredKnown, RetiredKnown
<1> QED BY <1>1, <1>4, <1>6, <1>7, <1>8, <1>9, <1>10 DEF ReplicationInv

\* Every step preserves it.
LEMMA InvStep == ASSUME IdsApart, ReplicationInv, [Next]_vars PROVE ReplicationInv'
<1>1. CASE UNCHANGED vars
  <2>1. /\ UNCHANGED <<raw, status, linked, gen, acked>>
        /\ UNCHANGED <<smtp, planned, claimed, talk, todo, urgent, sync, ok, net>>
        /\ UNCHANGED <<remote, blob, pfiles, sent, doubt, crashes>>
    BY <1>1 DEF vars, journal, process, peer, history
  <2>2. TypeOK' BY <2>1 DEF ReplicationInv, TypeOK
  <2>3. Requests' BY <2>1 DEF ReplicationInv, Requests
  <2>4. \A m : Manifests(m)' \subseteq Manifests(m) BY <2>1, NothingNew
  <2>5. PeerStep BY <2>1, <2>4 DEF PeerStep, ReplicationInv, PeerKept
  <2> QED BY <2>2, <2>3, <2>5, PeerStepKeeps
<1>2. CASE Next
  <2>1. TypeOK' BY <1>2, TypeStep
  <2>j. JournalStep => ReplicationInv' BY <2>1, JournalStepKeeps
  <2>c. CopyStep /\ Requests' => ReplicationInv' BY <2>1, CopyStepKeeps
  <2>p. PeerStep /\ Requests' => ReplicationInv' BY <2>1, PeerStepKeeps
  <2>2. ASSUME NEW m \in Mail, Accept(m) PROVE ReplicationInv'
    <3>1. CASE \E held \in SUBSET (Of(m) \cap Envelope) : Prepare(m, held)
      BY <2>c, <3>1, PrepareCopies
    <3>2. CASE PrepareManifest(m) BY <2>c, <3>2, PrepareManifestCopies
    <3>3. CASE Commit(m) BY <2>j, <3>3, CommitSteps
    <3>4. CASE Refuse(m) BY <2>c, <3>4, QuietCopies
    <3> QED BY <2>2, <3>1, <3>2, <3>3, <3>4 DEF Accept
  <2>3. ASSUME NEW d \in Deliveries, Relay(d) PROVE ReplicationInv'
    <3>1. CASE Claim(d) BY <2>j, <3>1, ClaimSteps
    <3>2. CASE MirrorClaim(d)
      <4>1. d[1] \in Ids BY Names
      <4> QED BY <2>c, <3>2, <4>1, MirrorCopies
    <3>3. CASE Spawn(d) BY <2>c, <3>3, SpawnCopies
    <3>4. CASE Unclaim(d) BY <2>j, <3>4, UnclaimSteps
    <3>5. CASE Taken(d) \/ TakenUnheard(d) BY <2>1, <3>5, TakenKeeps
    <3>6. CASE \E s \in {"delivered", "pending", "failed"} : Finish(d, s)
      BY <2>j, <3>6, FinishSteps
    <3>7. CASE NotifyNobody(d) BY <2>j, <3>7, SettleSteps
    <3>8. CASE d \in Envelope /\ EnqueueDsn(d) BY <2>j, <3>8, EnqueueDsnSteps
    <3>9. CASE \E s \in {"pending", "discarded"} : EndHold(d, s) BY <2>j, <3>9, SettleSteps
    <3> QED BY <2>3, <3>1, <3>2, <3>3, <3>4, <3>5, <3>6, <3>7, <3>8, <3>9 DEF Relay
  <2>4. ASSUME NEW m \in Ids, Tombstone(m) \/ Purge(m) PROVE ReplicationInv'
    BY <2>4, <2>j, TombstoneSteps, PurgeSteps
  <2>5. CASE Mirror
    <3>1. CASE \E p \in Syncers : SendManifest(p) BY <2>c, <3>1, SendManifestCopies
    <3>2. CASE (\E list \in SUBSET Behind : ListPass(list)) \/ LoopFails
      BY <2>c, <3>2, QuietCopies
    <3>3. CASE \E m \in Ids : LoopMirror(m) BY <2>c, <3>3, MirrorCopies
    <3>4. CASE LoopAck BY <2>c, <3>4, LoopAckCopies
    <3> QED BY <2>5, <3>1, <3>2, <3>3, <3>4 DEF Mirror
  <2>6. CASE Peer
    <3>1. ASSUME NEW r \in net, StoreBody(r) PROVE ReplicationInv'
      BY <2>p, <3>1, StoreBodySteps
    <3>2. ASSUME NEW r \in net, Lose(r) PROVE ReplicationInv' BY <2>p, <3>2, LoseSteps
    <3>3. ASSUME NEW r \in net, NEW torn \in BOOLEAN, Ingest(r, torn) PROVE ReplicationInv'
      BY <2>p, <3>3, IngestSteps
    <3>4. ASSUME NEW m \in Ids, PeerForget(m) PROVE ReplicationInv'
      BY <2>1, <3>4, ForgetKeeps
    <3>5. ASSUME NEW m \in Ids, NEW torn \in BOOLEAN, PeerCleanup(m, torn) PROVE ReplicationInv'
      BY <2>p, <3>5, PeerCleanupSteps
    <3> QED BY <2>6, <3>1, <3>2, <3>3, <3>4, <3>5 DEF Peer
  <2>7. CASE CrashAndRecover BY <2>7, <2>j, CrashSteps
  <2> QED BY <1>2, <2>2, <2>3, <2>4, <2>5, <2>6, <2>7 DEF Next
<1> QED BY <1>1, <1>2

\* The manifests on their way and the peer's journal always agree with the owner's
\* journal in the sense of ReplicationInv.
THEOREM InvAlways == ASSUME IdsApart PROVE Spec => []ReplicationInv
<1>1. Init => ReplicationInv BY InvInit
<1>2. ReplicationInv /\ [Next]_vars => ReplicationInv' BY InvStep
<1> QED BY <1>1, <1>2, PTL DEF Spec

-----------------------------------------------------------------------------
(* What follows                                                             *)

\* The state has its types, and the peer never acknowledges a generation the
\* owner's journal lacks (synchronize_message in ha/replica.rs).
THEOREM ReplicationTyped == ASSUME IdsApart PROVE Spec => []TypeOK
<1>1. ReplicationInv => TypeOK BY DEF ReplicationInv
<1> QED BY <1>1, InvAlways, PTL

\* Whenever the owner is lost, every recipient of accepted mail that still needs
\* work is restored with its body: the session answers 250 only after the peer's
\* receipt, and nothing the peer learns later takes the body or the work away.
THEOREM AcceptedMailRestorable == ASSUME IdsApart PROVE Spec => []AcceptedRestorable
<1>1. ASSUME ReplicationInv PROVE AcceptedRestorable
  <2> SUFFICES ASSUME NEW d \in Deliveries, status[d] \in Live, d \in Envelope \/ acked[d[1]] > 0
               PROVE  remote[d[1]].body /\ d[1] \in pfiles /\ Restored(d) \in Kept
    BY DEF AcceptedRestorable
  <2>1. d[1] \in Ids /\ d \in Of(d[1]) /\ (d \in Envelope => d[1] \in Mail) BY Names
  <2>2. d[1] \in raw BY <1>1, <2>1 DEF ReplicationInv, JournalKept
  <2>3. remote[d[1]].known BY <1>1, <2>1, <2>2 DEF ReplicationInv, Copied
  <2>4. Honest(d[1], remote[d[1]])
    BY <1>1, <2>1, <2>3, ManifestOf DEF ReplicationInv, AllHonest
  <2>5. remote[d[1]].body /\ remote[d[1]].st[d] \in Live BY <2>1, <2>2, <2>4 DEF Honest
  <2>6. d[1] \in pfiles BY <1>1, <2>1, <2>5 DEF ReplicationInv, PeerKept
  <2>7. Restored(d) \in Kept BY <2>3, <2>5 DEF Restored, Kept, Live
  <2> QED BY <2>5, <2>6, <2>7
<1> QED BY <1>1, InvAlways, PTL

\* The restore can read every body the peer's journal names: ingest asks for the
\* file, and cleanup unlinks only what no manifest refers to.
THEOREM PeerJournalComplete == ASSUME IdsApart PROVE Spec => []JournalComplete
<1>1. ReplicationInv => JournalComplete BY DEF ReplicationInv, PeerKept, JournalComplete
<1> QED BY <1>1, InvAlways, PTL

\* A restore never sends again, and never bounces, what the upstream took and the
\* owner recorded: the claim is known to the peer before the conversation opens.
THEOREM RestoreNeverResends == ASSUME IdsApart PROVE Spec => []NoBlindResend
<1>1. ASSUME ReplicationInv PROVE NoBlindResend
  <2>1. ASSUME NEW d \in Deliveries, talk[d] # "idle" PROVE Restored(d) = "held"
    <3>1. remote[d[1]].known /\ Settles(d, remote[d[1]].gen, {"sending"}) /\ d[1] \in Ids
      BY <1>1, <2>1, Names DEF ReplicationInv, ClaimsKnown
    <3>2. remote[d[1]] \in Manifests(d[1]) /\ remote[d[1]].gen \in Nat
      BY <1>1, <3>1, ManifestOf DEF ReplicationInv, AllHonest, Honest
    <3>3. remote[d[1]].st[d] = "sending" BY <3>1, <3>2 DEF Settles
    <3> QED BY <3>1, <3>3 DEF Restored
  <2>2. ASSUME NEW d \in Deliveries, d \in sent \ doubt
        PROVE  Restored(d) \notin {"pending", "failed"}
    <3>1. CASE ~remote[d[1]].known BY <3>1 DEF Restored
    <3>2. CASE remote[d[1]].known
      <4>1. Settles(d, remote[d[1]].gen, Status \ {"pending", "failed"}) /\ d[1] \in Ids
        BY <1>1, <2>2, Names DEF ReplicationInv, DeliveredKnown
      <4>2. remote[d[1]] \in Manifests(d[1]) /\ remote[d[1]].gen \in Nat
        BY <1>1, <3>2, <4>1, ManifestOf DEF ReplicationInv, AllHonest, Honest
      <4>3. remote[d[1]].st[d] \notin {"pending", "failed"} BY <4>1, <4>2 DEF Settles
      <4> QED BY <4>3 DEF Restored
    <3> QED BY <3>1, <3>2
  <2> QED BY <2>1, <2>2 DEF NoBlindResend
<1> QED BY <1>1, InvAlways, PTL

\* cleanup retires a body only when the peer knows every delivery of the message
\* as resolved; a late manifest never asks for it again.
THEOREM RetiredMailResolved == ASSUME IdsApart PROVE Spec => []RetiredIsResolved
<1>1. ASSUME ReplicationInv PROVE RetiredIsResolved
  <2> SUFFICES ASSUME NEW m \in Ids, gen[m] > 0, m \notin raw, NEW d \in DOMAIN remote[m].st
               PROVE  remote[m].st[d] \notin Live
    BY DEF RetiredIsResolved, ResolvedIn
  <2>1. remote[m].known
    <3>1. remote[m].st # <<>> OBVIOUS
    <3> QED BY <1>1, <3>1, NullFields DEF ReplicationInv, Requests
  <2>2. remote[m] \in Manifests(m) /\ Honest(m, remote[m])
    BY <1>1, <2>1, ManifestOf DEF ReplicationInv, AllHonest
  <2>3. d \in Of(m) /\ d[1] = m /\ remote[m].gen \in Nat BY <2>2, Names DEF Honest
  <2>4. Settles(d, remote[m].gen, Status \ Live)
    BY <1>1, <2>3 DEF ReplicationInv, RetiredKnown
  <2> QED BY <2>2, <2>3, <2>4 DEF Settles
<1> QED BY <1>1, InvAlways, PTL

\* The peer never goes back to an older generation of a message it knows, and never
\* takes up again a body it retired (ingest in ha/replica.rs).
THEOREM PeerGoesForward == ASSUME IdsApart PROVE Spec => PeerMonotone
<1>1. ASSUME ReplicationInv, [Next]_vars PROVE [MonotoneStep]_vars
  <2>1. ASSUME NEW m \in Ids PROVE remote[m].known => remote[m].gen \in Nat
    BY <1>1, ManifestOf DEF ReplicationInv, AllHonest, Honest
  <2>2. CASE remote' = remote BY <2>1, <2>2 DEF MonotoneStep
  <2>3. ASSUME NEW n \in Ids, PeerForget(n) PROVE MonotoneStep
    <3>1. remote'[n] = NoManifest /\ \A m \in Ids : m # n => remote'[m] = remote[m]
      BY <1>1, <2>3 DEF PeerForget, ReplicationInv, TypeOK
    <3> QED BY <2>1, <3>1, NullFields DEF MonotoneStep
  <2>4. ASSUME NEW r \in net, NEW torn \in BOOLEAN, Ingest(r, torn) PROVE MonotoneStep
    <3>1. PeerStep BY <1>1, <2>4, IngestSteps
    <3> SUFFICES ASSUME NEW m \in Ids, remote[m].known, remote'[m].known
                 PROVE  /\ remote'[m].gen >= remote[m].gen
                        /\ remote'[m].body => remote[m].body
      BY DEF MonotoneStep
    <3>2. CASE remote'[m] = remote[m] BY <2>1, <3>2
    <3>3. CASE remote'[m] \in Manifests(m) /\ Acceptable(m, remote'[m])
      <4>1. remote'[m].gen \in Nat BY <1>1, <3>3 DEF ReplicationInv, AllHonest, Honest
      <4> QED BY <2>1, <3>3, <4>1 DEF Acceptable
    <3> QED BY <3>1, <3>2, <3>3 DEF PeerStep
  <2>5. CASE UNCHANGED vars BY <2>2, <2>5 DEF vars, peer
  <2>6. ASSUME NEW m \in Mail, Accept(m) PROVE remote' = remote
    BY <2>6 DEF Accept, Prepare, PrepareManifest, Commit, Refuse, peer
  <2>7. ASSUME NEW d \in Deliveries, Relay(d) PROVE remote' = remote
    BY <2>7 DEF Relay, Claim, MirrorClaim, Spawn, Unclaim, Taken, TakenUnheard, Finish,
                NotifyNobody, EnqueueDsn, EndHold, peer
  <2>8. ASSUME NEW m \in Ids, Tombstone(m) \/ Purge(m) PROVE remote' = remote
    BY <2>8 DEF Tombstone, Purge, peer
  <2>9. Mirror \/ CrashAndRecover => remote' = remote
    BY DEF Mirror, SendManifest, ListPass, LoopMirror, LoopAck, LoopFails, CrashAndRecover, peer
  <2>10. ASSUME NEW r \in net, StoreBody(r) \/ Lose(r) PROVE remote' = remote
    BY <2>10 DEF StoreBody, Lose, peer
  <2>11. ASSUME NEW m \in Ids, NEW torn \in BOOLEAN, PeerCleanup(m, torn) PROVE remote' = remote
    BY <2>11 DEF PeerCleanup
  <2>12. Peer => MonotoneStep \/ remote' = remote
    BY <2>3, <2>4, <2>10, <2>11 DEF Peer
  <2> QED BY <1>1, <2>2, <2>5, <2>6, <2>7, <2>8, <2>9, <2>12 DEF Next
<1> QED BY <1>1, InvAlways, PTL DEF Spec, PeerMonotone

-----------------------------------------------------------------------------
(* The reports of failures                                                  *)

\* The peer has never heard of the live DSN of d.
Owed(d) == d \in linked /\ status[Reply(d)] \in Live /\ ~remote[Notice(d)].known

\* The pass keeps a message only while it has something to copy, and what is urgent
\* still has its body.
LoopKept ==
    /\ \A m \in todo : gen[m] > acked[m] \/ ~Resolved(m)
    /\ \A m \in Ids : gen[m] > 0 /\ m \notin raw => acked[m] > 0
    /\ urgent \subseteq raw

\* Every manifest has the failure or its link to the DSN; until the peer has the
\* DSN it does not hear that the message is retired, for the DSN goes first.
NoticesKept ==
    \A d \in linked :
        /\ \A man \in Manifests(d[1]) :
             man.st[d] \in Live \/ (man.st[d] = "notified" /\ d \in man.dsn)
        /\ Owed(d) => /\ remote[d[1]].known /\ \A man \in Manifests(d[1]) : man.body
                      /\ d[1] \in todo \ raw => Notice(d) \in urgent

NoticeInv == ReplicationInv /\ LoopKept /\ NoticesKept

\* A linked delivery is one of accepted mail.
LEMMA LinkedMail ==
    ASSUME IdsApart, ReplicationInv, NEW d \in linked
    PROVE  /\ d \in Envelope /\ d \in Deliveries /\ d[1] \in Mail /\ d[1] \in Ids /\ d \in Of(d[1])
           /\ status[d] = "notified" /\ smtp[d[1]] = "accepted"
           /\ Notice(d) \in Ids /\ Reply(d) \in Of(Notice(d)) /\ Reply(d) \in Deliveries
<1>1. d \in Envelope /\ status[d] = "notified" BY DEF ReplicationInv, TypeOK, JournalKept
<1>2. /\ d \in Deliveries /\ d[1] \in Mail /\ d[1] \in Ids /\ d \in Of(d[1])
      /\ Notice(d) \in Ids /\ Reply(d) \in Of(Notice(d)) /\ Reply(d) \in Deliveries
  BY <1>1, Names
<1>3. smtp[d[1]] = "accepted" BY <1>1, <1>2 DEF ReplicationInv, JournalKept, Unborn
<1> QED BY <1>1, <1>2, <1>3

\* A transaction of the owner; the background pass goes on or stops.
LEMMA JournalStepOwes ==
    ASSUME IdsApart, NoticeInv, ReplicationInv', JournalStep,
           (todo' = todo /\ urgent' = urgent) \/ (todo' = {} /\ urgent' = {}),
           \A d \in linked' : d \in linked \/ (d \in Envelope /\ status[d] \in Live)
    PROVE  LoopKept' /\ NoticesKept'
<1>0. ReplicationInv /\ LoopKept /\ NoticesKept /\ remote' = remote
  BY DEF NoticeInv, JournalStep, peer
<1>t. /\ gen \in [Ids -> Nat] /\ acked \in [Ids -> Nat]
      /\ todo \subseteq Ids /\ urgent \subseteq todo
      /\ \A m \in Ids : acked[m] <= gen[m]
  BY <1>0 DEF ReplicationInv, TypeOK
<1>1. \A m : Manifests(m)' \subseteq Manifests(m)
  BY NothingNew DEF JournalStep, peer
<1>2. ASSUME NEW m \in Ids, m \in todo PROVE ~Retired(m) /\ ~Purged(m)
  <2>1. gen[m] > acked[m] \/ ~Resolved(m) BY <1>0, <1>2 DEF LoopKept
  <2>2. Resolved(m) => gen[m] > acked[m] BY <2>1
  <2>3. m \notin raw => Resolved(m) BY <1>0 DEF ReplicationInv, JournalKept, Resolved
  <2>4. Retired(m) => Resolved(m) /\ acked[m] >= gen[m] BY DEF Retired, Resolved
  <2>5. Purged(m) => m \notin raw /\ acked[m] >= gen[m] BY DEF Purged
  <2> QED BY <1>t, <2>2, <2>3, <2>4, <2>5
<1>3. ASSUME NEW m \in Ids, m \in todo PROVE gen'[m] > acked'[m] \/ ~Resolved(m)'
  <2>1. CASE Same(m)
    <3>1. Resolved(m)' => Resolved(m) BY <2>1 DEF Same, Resolved
    <3> QED BY <1>0, <1>3, <2>1, <3>1 DEF Same, LoopKept
  <2>2. CASE Edited(m) BY <1>t, <2>2 DEF Edited
  <2>3. CASE Born(m) BY <2>3 DEF Born
  <2> QED BY <1>2, <1>3, <2>1, <2>2, <2>3 DEF JournalStep
<1>4. ASSUME NEW m \in Ids, gen'[m] > 0, m \notin raw' PROVE acked'[m] > 0
  <2>1. CASE Same(m) BY <1>0, <1>4, <2>1 DEF Same, LoopKept
  <2>2. CASE Retired(m)
    <3>1. gen[m] > 0 BY <1>0, <2>2 DEF Retired, ReplicationInv, JournalKept
    <3> QED BY <1>t, <2>2, <3>1 DEF Retired
  <2> QED BY <1>4, <2>1, <2>2 DEF JournalStep, Edited, Purged, Born
<1>5. ASSUME NEW m \in Ids, m \in todo, m \in raw PROVE m \in raw'
  BY <1>2, <1>5 DEF JournalStep, Same, Edited, Born
<1>6. LoopKept'
  <2>1. urgent' \subseteq raw' BY <1>0, <1>5, <1>t DEF LoopKept
  <2>2. \A m \in todo' : m \in Ids /\ m \in todo BY <1>t
  <2> QED BY <1>3, <1>4, <2>1, <2>2 DEF LoopKept
<1>7. ASSUME NEW d \in linked', NEW man \in Manifests(d[1])'
      PROVE  man.st[d] \in Live \/ (man.st[d] = "notified" /\ d \in man.dsn)
  <2>1. man \in Manifests(d[1]) BY <1>1
  <2>2. CASE d \in linked BY <1>0, <2>1, <2>2 DEF NoticesKept
  <2>3. CASE d \in Envelope /\ status[d] \in Live
    BY <1>0, <2>1, <2>3, Names DEF ReplicationInv, AllHonest, Honest
  <2> QED BY <2>2, <2>3
<1>8. ASSUME NEW d \in linked', Owed(d)'
      PROVE  /\ remote'[d[1]].known /\ \A man \in Manifests(d[1])' : man.body
             /\ d[1] \in todo' \ raw' => Notice(d) \in urgent'
  <2>1. d \in Envelope BY DEF ReplicationInv, TypeOK
  <2>2. /\ d \in Deliveries /\ d[1] \in Mail /\ d[1] \in Ids /\ d \in Of(d[1])
        /\ Notice(d) \in Ids /\ Reply(d) \in Of(Notice(d)) /\ Notice(d) \notin Mail
    BY <2>1, Names
  <2>3. status'[Reply(d)] \in Live /\ ~remote[Notice(d)].known BY <1>0, <1>8 DEF Owed
  <2>4. CASE Born(Notice(d))
    <3>1. status[d] = "failed" BY <2>1, <2>2, <2>4, Names DEF Born
    <3>2. d[1] \in raw BY <1>0, <2>2, <3>1 DEF ReplicationInv, JournalKept, Live
    <3>3. remote[d[1]].known BY <1>0, <2>2, <3>2 DEF ReplicationInv, Copied
    <3>4. \A man \in Manifests(d[1]) : man.body
      BY <1>0, <2>2, <3>2 DEF ReplicationInv, AllHonest, Honest
    <3>5. d[1] \in todo' => d[1] \in raw' BY <1>5, <2>2, <3>2
    <3> QED BY <1>0, <1>1, <3>3, <3>4, <3>5
  <2>5. CASE ~Born(Notice(d))
    <3>1. status[Reply(d)] \in Live
      <4>1. Same(Notice(d)) => status[Reply(d)] \in Live BY <2>2, <2>3 DEF Same
      <4>2. Edited(Notice(d)) => status[Reply(d)] \in Live BY <2>2, <2>3 DEF Edited
      <4>3. ~Retired(Notice(d)) BY <2>2, <2>3 DEF Retired
      <4>4. ~Purged(Notice(d)) BY <2>2, <2>3 DEF Purged, Live
      <4> QED BY <2>2, <2>5, <4>1, <4>2, <4>3, <4>4 DEF JournalStep
    <3>2. d \in linked
      <4>1. status[d] \notin Live
        BY <1>0, <2>1, <2>2, <3>1 DEF ReplicationInv, JournalKept, Unborn, Live
      <4> QED BY <4>1
    <3>3. Owed(d) BY <2>3, <3>1, <3>2 DEF Owed
    <3>4. /\ remote[d[1]].known /\ \A man \in Manifests(d[1]) : man.body
          /\ d[1] \in todo \ raw => Notice(d) \in urgent
      BY <1>0, <3>2, <3>3 DEF NoticesKept
    <3>5. d[1] \in todo' \ raw' => d[1] \in todo \ raw BY <1>5, <2>2
    <3> QED BY <1>0, <1>1, <3>4, <3>5
  <2> QED BY <2>4, <2>5
<1> QED BY <1>6, <1>7, <1>8 DEF NoticesKept

\* What copying does to the pass: it lists what is behind, the urgent first, and
\* drops what it copied.
PassStep ==
    /\ \A m \in todo' : \/ m \in todo /\ (acked'[m] = acked[m] \/ ~Resolved(m))
                        \/ m \in Ids /\ gen[m] > acked'[m]
    /\ urgent' \subseteq urgent \cup Unacked
    /\ \A m \in todo' \ raw : \A c \in raw :
         (acked[c] = 0 /\ ~remote[c].known /\ (m \in todo => c \in urgent)) => c \in urgent'
    /\ \A m \in Ids : \A man \in Manifests(m)' :
         \/ man \in Manifests(m) \/ m \in raw \/ man.body
         \/ m \in todo /\ (urgent # {} => m \in urgent)

\* Copying keeps the DSNs ahead of the tombstones.
LEMMA CopyStepOwes ==
    ASSUME IdsApart, NoticeInv, ReplicationInv', CopyStep, PassStep
    PROVE  LoopKept' /\ NoticesKept'
<1>0. /\ ReplicationInv /\ LoopKept /\ NoticesKept
      /\ UNCHANGED <<raw, status, linked, gen, remote>>
  BY DEF NoticeInv, CopyStep, peer
<1>t. /\ gen \in [Ids -> Nat] /\ acked \in [Ids -> Nat] /\ todo \subseteq Ids
      /\ acked' \in [Ids -> Nat] /\ todo' \subseteq Ids
  BY <1>0 DEF ReplicationInv, TypeOK
<1>1. LoopKept'
  <2>1. \A m \in todo' : gen'[m] > acked'[m] \/ ~Resolved(m)'
    BY <1>0 DEF PassStep, LoopKept, Resolved
  <2>2. ASSUME NEW m \in Ids, gen[m] > 0, m \notin raw PROVE acked'[m] > 0
    <3>1. acked[m] > 0 BY <1>0, <2>2 DEF LoopKept
    <3>2. acked'[m] = acked[m] \/ acked[m] <= acked'[m] BY DEF CopyStep, Receipted
    <3> QED BY <1>t, <3>1, <3>2
  <2>3. Unacked \subseteq raw
    <3> SUFFICES ASSUME NEW m \in Unacked PROVE m \in raw
      OBVIOUS
    <3>1. m \in Ids /\ gen[m] > acked[m] /\ acked[m] = 0 BY DEF Unacked, Behind
    <3> QED BY <1>0, <3>1 DEF LoopKept
  <2> QED BY <1>0, <2>1, <2>2, <2>3 DEF PassStep, LoopKept
<1>2. ASSUME NEW d \in linked, NEW man \in Manifests(d[1])'
      PROVE  man.st[d] \in Live \/ (man.st[d] = "notified" /\ d \in man.dsn)
  <2>1. d[1] \in Ids /\ d \in Of(d[1]) /\ status[d] = "notified" /\ smtp[d[1]] = "accepted"
    BY <1>0, LinkedMail
  <2>2. CASE man \in Manifests(d[1]) BY <1>0, <2>2 DEF NoticesKept
  <2>3. CASE Fresh(d[1], man) BY <2>1, <2>3 DEF Fresh, Current, Offered
  <2> QED BY <2>1, <2>2, <2>3 DEF CopyStep
<1>3. ASSUME NEW d \in linked, Owed(d)
      PROVE  /\ remote[d[1]].known /\ \A man \in Manifests(d[1])' : man.body
             /\ d[1] \in todo' \ raw => Notice(d) \in urgent'
  <2>1. d[1] \in Ids /\ Notice(d) \in Ids /\ Reply(d) \in Of(Notice(d)) BY <1>0, LinkedMail
  <2>2. /\ remote[d[1]].known /\ \A man \in Manifests(d[1]) : man.body
        /\ d[1] \in todo \ raw => Notice(d) \in urgent
    BY <1>0, <1>3 DEF NoticesKept
  <2>3. Notice(d) \in raw BY <1>0, <1>3, <2>1 DEF Owed, ReplicationInv, JournalKept
  <2>4. gen[Notice(d)] > 0 /\ acked[Notice(d)] = 0 /\ ~remote[Notice(d)].known
    BY <1>0, <1>3, <1>t, <2>1, <2>3 DEF Owed, ReplicationInv, JournalKept, Copied
  <2>5. d[1] \in todo' \ raw => Notice(d) \in urgent'
    BY <2>1, <2>2, <2>3, <2>4 DEF PassStep
  <2>6. ASSUME NEW man \in Manifests(d[1])' PROVE man.body
    <3>1. CASE man \in Manifests(d[1]) BY <2>2, <3>1
    <3>2. CASE d[1] \in raw
      <4>1. Honest(d[1], man)' BY <2>1 DEF ReplicationInv, AllHonest
      <4> QED BY <1>0, <3>2, <4>1 DEF Honest
    <3>3. CASE d[1] \notin raw /\ d[1] \in todo /\ (urgent # {} => d[1] \in urgent)
      BY <1>0, <2>2, <3>3 DEF LoopKept
    <3> QED BY <2>1, <3>1, <3>2, <3>3 DEF PassStep
  <2> QED BY <2>2, <2>5, <2>6
<1>4. \A d : Owed(d)' => Owed(d) BY <1>0 DEF Owed
<1> QED BY <1>0, <1>1, <1>2, <1>3, <1>4 DEF NoticesKept

\* The peer learns or forgets, and the pass stays as it is.
LEMMA PeerStepOwes ==
    ASSUME IdsApart, NoticeInv,
           UNCHANGED <<raw, status, linked, gen, acked, todo, urgent>>,
           \A m \in Ids : Manifests(m)' \subseteq Manifests(m),
           \A m \in Ids : remote[m].known /\ ~remote'[m].known =>
               ~remote[m].body /\ m \notin raw
    PROVE  LoopKept' /\ NoticesKept'
<1>0. ReplicationInv /\ LoopKept /\ NoticesKept BY DEF NoticeInv
<1>1. LoopKept' BY <1>0 DEF LoopKept, Resolved
<1>2. ASSUME NEW d \in linked, Owed(d)'
      PROVE  /\ remote'[d[1]].known /\ \A man \in Manifests(d[1])' : man.body
             /\ d[1] \in todo \ raw => Notice(d) \in urgent
  <2>1. d[1] \in Ids /\ Notice(d) \in Ids /\ Reply(d) \in Of(Notice(d)) BY <1>0, LinkedMail
  <2>2. status[Reply(d)] \in Live /\ ~remote'[Notice(d)].known BY <1>2 DEF Owed
  <2>3. Notice(d) \in raw BY <1>0, <2>1, <2>2 DEF ReplicationInv, JournalKept
  <2>4. Owed(d) BY <2>1, <2>2, <2>3 DEF Owed
  <2>5. /\ remote[d[1]].known /\ \A man \in Manifests(d[1]) : man.body
        /\ d[1] \in todo \ raw => Notice(d) \in urgent
    BY <1>0, <2>4 DEF NoticesKept
  <2>6. remote[d[1]].body BY <2>5, ManifestOf
  <2> QED BY <2>1, <2>5, <2>6
<1>3. \A d \in linked : d[1] \in Ids BY <1>0, LinkedMail
<1> QED BY <1>0, <1>1, <1>2, <1>3 DEF NoticesKept

\* Each step of copying, seen from the pass.
LEMMA QuietPasses ==
    ASSUME IdsApart, NoticeInv, NEW list,
           (\E m \in Mail : Refuse(m)) \/ (\E m \in Mail : \E held : Prepare(m, held))
           \/ (\E m \in Mail : PrepareManifest(m)) \/ (\E p \in Syncers : SendManifest(p))
           \/ LoopFails
    PROVE  PassStep
<1>0. ReplicationInv BY DEF NoticeInv
<1>1. /\ acked' = acked
      /\ (todo' = todo /\ urgent' = urgent) \/ (todo' = {} /\ urgent' = {})
  BY DEF Refuse, Prepare, PrepareManifest, SendManifest, LoopFails, journal
<1>2. \A n : \A man \in Manifests(n)' : man \in Manifests(n) \/ man.body
  <2>1. ASSUME NEW m \in Mail, Refuse(m) \/ \E held : Prepare(m, held)
        PROVE  \A n : Manifests(n)' \subseteq Manifests(n)
    <3>1. remote' = remote /\ sync' = sync BY <2>1 DEF Refuse, Prepare, peer
    <3>2. \A q \in net' : q \in net \/ q.kind = "body"
      BY <2>1 DEF Refuse, Prepare, Post, BodyRequest
    <3> QED BY <3>1, <3>2, NothingNew
  <2>2. ASSUME LoopFails PROVE \A n : Manifests(n)' \subseteq Manifests(n)
    <3>1. /\ remote' = remote /\ net' = net
          /\ \A p \in Syncers : sync'[p] = sync[p] \/ sync'[p] = Idle
      BY <1>0, <2>2 DEF LoopFails, GiveUp, peer, ReplicationInv, Requests
    <3> QED BY <3>1, NothingNew
  <2> QED BY <1>0, <2>1, <2>2, PrepareManifestCopies, SendManifestCopies
<1> QED BY <1>1, <1>2 DEF PassStep

\* Listing puts what was never acknowledged first.
LEMMA ListPasses ==
    ASSUME IdsApart, NoticeInv, NEW list, ListPass(list) PROVE PassStep
<1>0. ReplicationInv /\ LoopKept BY DEF NoticeInv
<1>1. /\ todo' = list /\ urgent' = list \cap Unacked /\ list \subseteq Behind
      /\ list \subseteq Unacked \/ Unacked \subseteq list
      /\ acked' = acked /\ remote' = remote /\ net' = net /\ sync' = sync
  BY DEF ListPass, journal, peer
<1>2. \A n : Manifests(n)' \subseteq Manifests(n) BY <1>1, NothingNew
<1>3. \A m \in todo' : m \in Ids /\ gen[m] > acked'[m] BY <1>1 DEF Behind
<1>4. ASSUME NEW m \in todo' \ raw, NEW c \in raw, acked[c] = 0 PROVE c \in urgent'
  <2>1. gen \in [Ids -> Nat] /\ acked \in [Ids -> Nat] /\ c \in Ids /\ gen[c] > 0
    BY <1>0 DEF ReplicationInv, TypeOK, JournalKept
  <2>2. c \in Unacked BY <1>4, <2>1 DEF Unacked, Behind
  <2>3. m \in Ids /\ gen[m] > acked[m] BY <1>1, <1>3
  <2>4. acked[m] > 0 BY <1>0, <2>1, <2>3 DEF LoopKept
  <2>5. m \notin Unacked BY <2>4 DEF Unacked
  <2> QED BY <1>1, <2>2, <2>5
<1> QED BY <1>1, <1>2, <1>3, <1>4 DEF PassStep

\* Copying follows the list.
LEMMA MirrorPasses ==
    ASSUME IdsApart, NoticeInv, NEW d, NEW m \in Ids,
           (d \in Deliveries /\ MirrorClaim(d)) \/ LoopMirror(m)
    PROVE  PassStep
<1>0. ReplicationInv BY DEF NoticeInv
<1>1. acked' = acked /\ todo' = todo /\ urgent' = urgent /\ remote' = remote
  BY DEF MirrorClaim, LoopMirror, journal, peer
<1>2. CASE d \in Deliveries /\ MirrorClaim(d)
  <2>1. d \in claimed /\ Start("worker", d[1], Export(d[1])) BY <1>2 DEF MirrorClaim
  <2>2. d[1] \in raw BY <1>0, <1>2, <2>1, Pinned, Names DEF ReplicationInv, JournalKept, Live
  <2>3. d[1] \in Ids /\ gen[d[1]] > 0 /\ "worker" \in Syncers
    BY <1>0, <1>2, <2>2, Names DEF ReplicationInv, JournalKept, Syncers
  <2>4. \A n \in Ids : \A man \in Manifests(n)' : man \in Manifests(n) \/ n = d[1]
    BY <1>0, <1>1, <2>1, <2>3, StartSays
  <2> QED BY <1>1, <2>2, <2>4 DEF PassStep
<1>3. CASE LoopMirror(m)
  <2>1. /\ m \in todo /\ (urgent # {} => m \in urgent) /\ gen[m] > 0
        /\ Start("loop", m, Export(m)) /\ "loop" \in Syncers
    BY <1>3 DEF LoopMirror, Syncers
  <2>2. \A n \in Ids : \A man \in Manifests(n)' : man \in Manifests(n) \/ n = m
    BY <1>0, <1>1, <2>1, StartSays
  <2> QED BY <1>1, <2>1, <2>2 DEF PassStep
<1> QED BY <1>2, <1>3

\* A receipt takes a message off the list.
LEMMA AckPasses ==
    ASSUME IdsApart, NoticeInv, NEW d, LoopAck \/ (d \in Deliveries /\ Spawn(d)) PROVE PassStep
<1>0. ReplicationInv BY DEF NoticeInv
<1>1. remote' = remote /\ net' = net BY DEF LoopAck, Spawn, peer
<1>2. CASE LoopAck
  <2>1. /\ RecordAck("loop") /\ "loop" \in Syncers
        /\ todo' = todo \ {sync["loop"].id} /\ urgent' = urgent \ {sync["loop"].id}
    BY <1>2 DEF LoopAck, Syncers
  <2>2. /\ \A m \in Ids : m # sync["loop"].id => acked'[m] = acked[m]
        /\ \A p \in Syncers : sync'[p] = sync[p] \/ sync'[p] = Idle
    BY <1>0, <2>1, AckRecords
  <2>3. \A n : Manifests(n)' \subseteq Manifests(n) BY <1>1, <2>2, NothingNew
  <2>4. sync["loop"].id \in raw => remote[sync["loop"].id].known
    <3>1. sync["loop"].stage = "manifest" /\ "loop" \in ok BY <2>1 DEF RecordAck
    <3>2. sync["loop"].id \in Ids BY <1>0, <2>1, <3>1, NullFields DEF ReplicationInv, Requests
    <3>3. Honest(sync["loop"].id, sync["loop"].man)
      BY <1>0, <2>1, <3>1, <3>2, ManifestOf DEF ReplicationInv, AllHonest
    <3> QED BY <1>0, <2>1, <3>1, <3>3 DEF ReplicationInv, Answered, Honest
  <2>5. todo \subseteq Ids BY <1>0 DEF ReplicationInv, TypeOK
  <2> QED BY <2>1, <2>2, <2>3, <2>4, <2>5 DEF PassStep
<1>3. CASE d \in Deliveries /\ Spawn(d)
  <2>1. /\ RecordAck("worker") /\ "worker" \in Syncers /\ d \in claimed
        /\ todo' = todo /\ urgent' = urgent
    BY <1>3 DEF Spawn, Syncers
  <2>2. /\ \A m \in Ids : m # sync["worker"].id => acked'[m] = acked[m]
        /\ \A p \in Syncers : sync'[p] = sync[p] \/ sync'[p] = Idle
    BY <1>0, <2>1, AckRecords
  <2>3. \A n : Manifests(n)' \subseteq Manifests(n) BY <1>1, <2>2, NothingNew
  <2>4. sync["worker"].stage = "manifest" BY <2>1 DEF RecordAck
  <2>5. claimed = {d} /\ status[d] = "sending"
    BY <1>0, <2>1 DEF ReplicationInv, ClaimsKnown
  <2>6. sync["worker"].id = d[1] BY <1>0, <2>4, <2>5 DEF ReplicationInv, ClaimsKnown
  <2>7. ~Resolved(d[1]) BY <1>3, <2>5, Names DEF Resolved, Live
  <2>8. todo \subseteq Ids BY <1>0 DEF ReplicationInv, TypeOK
  <2>9. \A m \in todo' : m \in todo /\ (acked'[m] = acked[m] \/ ~Resolved(m))
    BY <2>1, <2>2, <2>6, <2>7, <2>8
  <2> QED BY <2>1, <2>3, <2>9 DEF PassStep
<1> QED BY <1>2, <1>3

\* Every step preserves the invariant of the reports.
LEMMA NoticeStep == ASSUME IdsApart, NoticeInv, [Next]_vars PROVE NoticeInv'
<1>0. ReplicationInv BY DEF NoticeInv
<1>1. ReplicationInv' BY <1>0, InvStep
<1>j. ASSUME JournalStep,
             (todo' = todo /\ urgent' = urgent) \/ (todo' = {} /\ urgent' = {}),
             \A d \in linked' : d \in linked \/ (d \in Envelope /\ status[d] \in Live)
      PROVE  NoticeInv'
  BY <1>1, <1>j, JournalStepOwes DEF NoticeInv
<1>c. CopyStep /\ PassStep => NoticeInv' BY <1>1, CopyStepOwes DEF NoticeInv
<1>p. ASSUME UNCHANGED <<raw, status, linked, gen, acked, todo, urgent>>,
             \A m \in Ids : Manifests(m)' \subseteq Manifests(m),
             \A m \in Ids : remote[m].known /\ ~remote'[m].known => ~remote[m].body /\ m \notin raw
      PROVE  NoticeInv'
  BY <1>1, <1>p, PeerStepOwes DEF NoticeInv
<1>2. ASSUME NEW m \in Mail, Accept(m) PROVE NoticeInv'
  <2>1. CASE \E held \in SUBSET (Of(m) \cap Envelope) : Prepare(m, held)
    BY <1>0, <1>c, <2>1, PrepareCopies, QuietPasses
  <2>2. CASE PrepareManifest(m) BY <1>0, <1>c, <2>2, PrepareManifestCopies, QuietPasses
  <2>3. CASE Commit(m)
    BY <1>0, <1>j, <2>3, CommitSteps DEF Commit
  <2>4. CASE Refuse(m) BY <1>0, <1>c, <2>4, QuietCopies, QuietPasses
  <2> QED BY <1>2, <2>1, <2>2, <2>3, <2>4 DEF Accept
<1>3. ASSUME NEW d \in Deliveries, Relay(d) PROVE NoticeInv'
  <2>1. CASE Claim(d) BY <1>0, <1>j, <2>1, ClaimSteps DEF Claim
  <2>2. CASE MirrorClaim(d)
    <3>1. d[1] \in Ids BY Names
    <3> QED BY <1>0, <1>c, <2>2, <3>1, MirrorCopies, MirrorPasses
  <2>3. CASE Spawn(d) BY <1>0, <1>c, <2>3, SpawnCopies, AckPasses
  <2>4. CASE Unclaim(d) BY <1>0, <1>j, <2>4, UnclaimSteps DEF Unclaim
  <2>5. CASE Taken(d) \/ TakenUnheard(d)
    <3>1. /\ UNCHANGED <<raw, status, linked, gen, acked, todo, urgent>>
          /\ remote' = remote /\ net' = net /\ sync' = sync
      BY <2>5 DEF Taken, TakenUnheard, journal, peer
    <3>2. \A n : Manifests(n)' \subseteq Manifests(n) BY <3>1, NothingNew
    <3> QED BY <1>p, <3>1, <3>2
  <2>6. ASSUME NEW s \in {"delivered", "pending", "failed"}, Finish(d, s) PROVE NoticeInv'
    BY <1>0, <1>j, <2>6, FinishSteps DEF Finish
  <2>7. CASE NotifyNobody(d) BY <1>0, <1>j, <2>7, SettleSteps DEF NotifyNobody, process
  <2>8. CASE d \in Envelope /\ EnqueueDsn(d)
    BY <1>0, <1>j, <2>8, EnqueueDsnSteps DEF EnqueueDsn, process, Live
  <2>9. ASSUME NEW s \in {"pending", "discarded"}, EndHold(d, s) PROVE NoticeInv'
    BY <1>0, <1>j, <2>9, SettleSteps DEF EndHold, process
  <2> QED BY <1>3, <2>1, <2>2, <2>3, <2>4, <2>5, <2>6, <2>7, <2>8, <2>9 DEF Relay
<1>4. ASSUME NEW m \in Ids, Tombstone(m) \/ Purge(m) PROVE NoticeInv'
  <2>1. CASE Tombstone(m) BY <1>0, <1>j, <2>1, TombstoneSteps DEF Tombstone, process
  <2>2. CASE Purge(m) BY <1>0, <1>j, <2>2, PurgeSteps DEF Purge, process
  <2> QED BY <1>4, <2>1, <2>2
<1>5. CASE Mirror
  <2>1. CASE \E p \in Syncers : SendManifest(p)
    BY <1>0, <1>c, <2>1, SendManifestCopies, QuietPasses
  <2>2. CASE \E list \in SUBSET Behind : ListPass(list)
    BY <1>0, <1>c, <2>2, QuietCopies, ListPasses
  <2>3. CASE LoopFails BY <1>0, <1>c, <2>3, QuietCopies, QuietPasses
  <2>4. CASE \E m \in Ids : LoopMirror(m) BY <1>0, <1>c, <2>4, MirrorCopies, MirrorPasses
  <2>5. CASE LoopAck BY <1>0, <1>c, <2>5, LoopAckCopies, AckPasses
  <2> QED BY <1>5, <2>1, <2>2, <2>3, <2>4, <2>5 DEF Mirror
<1>6. CASE Peer
  <2>1. ASSUME PeerStep, todo' = todo, urgent' = urgent PROVE NoticeInv'
    BY <1>p, <2>1 DEF PeerStep
  <2>2. ASSUME NEW r \in net, StoreBody(r) PROVE NoticeInv'
    BY <1>0, <2>1, <2>2, StoreBodySteps DEF StoreBody
  <2>3. ASSUME NEW r \in net, Lose(r) PROVE NoticeInv'
    BY <1>0, <2>1, <2>3, LoseSteps DEF Lose
  <2>4. ASSUME NEW r \in net, NEW torn \in BOOLEAN, Ingest(r, torn) PROVE NoticeInv'
    BY <1>0, <2>1, <2>4, IngestSteps DEF Ingest
  <2>5. ASSUME NEW m \in Ids, NEW torn \in BOOLEAN, PeerCleanup(m, torn) PROVE NoticeInv'
    BY <1>0, <2>1, <2>5, PeerCleanupSteps DEF PeerCleanup, process
  <2>6. ASSUME NEW m \in Ids, PeerForget(m) PROVE NoticeInv'
    <3>1. /\ UNCHANGED <<raw, status, linked, gen, acked, todo, urgent, sync, net>>
          /\ remote[m].known /\ ~remote[m].body /\ remote' = [remote EXCEPT ![m] = NoManifest]
      BY <2>6 DEF PeerForget, journal, process
    <3>2. remote'[m] = NoManifest /\ \A n \in Ids : n # m => remote'[n] = remote[n]
      BY <1>0, <3>1 DEF ReplicationInv, TypeOK
    <3>3. ASSUME NEW n \in Ids, NEW x \in Manifests(n)' PROVE x \in Manifests(n)
      <4>1. \/ n # m /\ x = remote[n] /\ remote[n].known
            \/ \E p \in Syncers : sync[p].stage # "idle" /\ sync[p].id = n /\ x = sync[p].man
            \/ \E q \in net : q.kind = "manifest" /\ q.id = n /\ x = q.man
        BY <3>1, <3>2, <3>3, NullFields DEF Manifests, Outgoing
      <4> QED BY <4>1, ManifestOf
    <3>4. m \notin raw
      BY <1>0, <3>1, ManifestOf DEF ReplicationInv, AllHonest, Honest
    <3>5. \A n \in Ids : remote[n].known /\ ~remote'[n].known => ~remote[n].body /\ n \notin raw
      BY <3>1, <3>2, <3>4
    <3> QED BY <1>p, <3>1, <3>3, <3>5
  <2> QED BY <1>6, <2>2, <2>3, <2>4, <2>5, <2>6 DEF Peer
<1>7. CASE CrashAndRecover BY <1>0, <1>7, <1>j, CrashSteps DEF CrashAndRecover
<1>8. CASE UNCHANGED vars
  <2>1. /\ UNCHANGED <<raw, status, linked, gen, acked, todo, urgent>>
        /\ remote' = remote /\ net' = net /\ sync' = sync
    BY <1>8 DEF vars, journal, process, peer
  <2>2. \A n : Manifests(n)' \subseteq Manifests(n) BY <2>1, NothingNew
  <2> QED BY <1>p, <2>1, <2>2
<1> QED BY <1>2, <1>3, <1>4, <1>5, <1>6, <1>7, <1>8 DEF Next

\* A failure's report survives the owner: the peer has the DSN, or the restore brings
\* the failure back for review, whatever requests were lost and in whichever order the
\* background pass copied (synchronize in ha/replica.rs takes never-acknowledged
\* messages first).
THEOREM ReportsSurvive == ASSUME IdsApart PROVE Spec => []NoticeSurvives
<1>1. Init => NoticeInv
  <2> SUFFICES ASSUME Init PROVE NoticeInv
    OBVIOUS
  <2>1. ReplicationInv BY InvInit
  <2>2. LoopKept /\ NoticesKept BY DEF Init, LoopKept, NoticesKept
  <2> QED BY <2>1, <2>2 DEF NoticeInv
<1>2. NoticeInv /\ [Next]_vars => NoticeInv' BY NoticeStep
<1>3. ASSUME NoticeInv PROVE NoticeSurvives
  <2>0. ReplicationInv /\ NoticesKept BY <1>3 DEF NoticeInv
  <2> SUFFICES ASSUME NEW d \in Envelope, d \in linked, status[Reply(d)] \in Live,
                      ~remote[Notice(d)].known
               PROVE  Restored(d) \in Kept
    BY DEF NoticeSurvives
  <2>1. remote[d[1]].known /\ remote[d[1]] \in Manifests(d[1])
    BY <2>0, ManifestOf DEF NoticesKept, Owed
  <2>2. /\ remote[d[1]].body
        /\ \/ remote[d[1]].st[d] \in Live
           \/ remote[d[1]].st[d] = "notified" /\ d \in remote[d[1]].dsn
    BY <2>0, <2>1 DEF NoticesKept, Owed
  <2> QED BY <2>1, <2>2 DEF Restored, Kept, Live
<1> QED BY <1>1, <1>2, <1>3, PTL DEF Spec
=============================================================================
