-------------------------- MODULE ProjectionProofs --------------------------
(***************************************************************************)
(* TLAPS proofs about Projection, for any number of messages, transcripts, *)
(* changes, batches under way and revocations.                             *)
(***************************************************************************)
EXTENDS Projection, FiniteSetTheorems, TLAPS

\* A transcript is no message, and belongs to one.
KindsApart ==
    Messages \cap Logs = {} /\ Owner \in [Logs -> Messages] /\ MaxSeq \in Nat

-----------------------------------------------------------------------------
(* The inductive invariant                                                  *)

Entries == [gen : Nat, deleted : BOOLEAN]
Items   == [id : Objects, gen : Nat \ {0}, deleted : BOOLEAN]
Item(x, f) == [id |-> x, gen |-> f.gen, deleted |-> f.deleted]

\* Every batch holds one entry per object; the node waits for at most one.
Shapes ==
    /\ seq \in 0..MaxSeq /\ gen \in [Objects -> Nat]
    /\ outbox \in [Objects -> Entries] /\ ver \in [Objects -> Entries]
    /\ view \in [Objects -> Nat]
    /\ \A b \in late \cup call :
         b \subseteq Items /\ \A e, f \in b : e.id = f.id => e = f
    /\ \A b, c \in call : b = c
    /\ answer => call # {} /\ call \cap late = {}

\* What anyone may still say about x: its entry in the outbox, the version
\* central management has, an entry of a batch.
Known(x, f) ==
    /\ f \in Entries /\ f # NoEntry
    /\ f = outbox[x] \/ f = ver[x] \/ \E b \in late \cup call : Item(x, f) \in b

\* The last thing said about x, and a transcript whose message is gone.
Last(x) == IF outbox[x] # NoEntry THEN outbox[x] ELSE ver[x]
Gone(x) == x \in Logs /\ Last(Owner[x]).deleted

\* Generations are never used twice, and nothing follows a tombstone.
OneStory ==
    \A x \in Objects, f, g \in Entries :
        Known(x, f) /\ Known(x, g) =>
            /\ f.gen \in 1..seq
            /\ f.deleted => g.gen <= f.gen
            /\ f.gen = g.gen => f = g

\* The last thing said is the newest, and tells the node's state.
LastSaid ==
    \A x \in Objects :
        /\ \A f \in Entries : Known(x, f) /\ ~Gone(x) => f.gen <= Last(x).gen
        /\ ~Gone(x) => gen[x] = IF Last(x).deleted THEN 0 ELSE Last(x).gen
        /\ Gone(x) => gen[x] = 0 /\ outbox[x] = NoEntry

\* A transcript lives, waits and travels only with its message.
OwnerFirst ==
    /\ \A l \in Logs : gen[l] > 0 \/ outbox[l] # NoEntry => gen[Owner[l]] > 0
    /\ \A b \in late \cup call : \A e \in b : e.id \in Logs => ver[Owner[e.id]] # NoEntry

\* A receipt that was sent is for entries central management has.
ReceiptHonest ==
    answer => \A b \in call : \A e \in b : e.gen <= ver[e.id].gen \/ Ignored(e)

\* What central management shows follows from the versions it has.
ShownVersion ==
    \A x \in Objects :
        view[x] = IF ver[x].deleted \/ (x \in Logs /\ ver[Owner[x]].deleted)
                  THEN 0 ELSE ver[x].gen

ProjectionInv == Shapes /\ OneStory /\ LastSaid /\ OwnerFirst /\ ReceiptHonest /\ ShownVersion

-----------------------------------------------------------------------------
(* Facts about what is known                                                *)

LEMMA Kinds ==
    ASSUME KindsApart
    PROVE  /\ \A l \in Logs : l \in Objects /\ Owner[l] \in Messages /\ Owner[l] \in Objects
                              /\ Owner[l] \notin Logs
           /\ \A m \in Messages : m \in Objects /\ m \notin Logs
BY DEF KindsApart, Objects

LEMMA NoEntryFields == NoEntry \in Entries /\ NoEntry.gen = 0 /\ NoEntry.deleted = FALSE
BY DEF NoEntry, Entries

\* A tombstone is the last thing said of an object that is not gone, so nothing
\* known of an object the node has is one.
LEMMA NoTombstone ==
    ASSUME KindsApart, ProjectionInv, NEW x \in Objects, ~Gone(x), ~Last(x).deleted,
           NEW f \in Entries, Known(x, f)
    PROVE  ~f.deleted
<1>1. f.gen <= Last(x).gen /\ f.gen \in Nat /\ f.gen > 0
  BY DEF ProjectionInv, LastSaid, OneStory, Entries
<1>2. Last(x) \in Entries
  BY DEF ProjectionInv, Shapes, Last
<1>3. Last(x) # NoEntry
  BY <1>1, NoEntryFields
<1>4. Known(x, Last(x))
  BY <1>2, <1>3 DEF Known, Last
<1>5. f.deleted => Last(x).gen <= f.gen
  BY <1>2, <1>4 DEF ProjectionInv, OneStory
<1>6. f.deleted => f = Last(x)
  BY <1>1, <1>2, <1>4, <1>5 DEF ProjectionInv, OneStory, Entries
<1> QED BY <1>6

\* The node has an object: nothing known of it is a tombstone.
LEMMA Present ==
    ASSUME KindsApart, ProjectionInv, NEW x \in Objects, gen[x] > 0
    PROVE  ~Gone(x) /\ ~Last(x).deleted /\ gen[x] = Last(x).gen
BY DEF ProjectionInv, LastSaid

-----------------------------------------------------------------------------
(* Triggers                                                                 *)

\* What a change of the node's journal does to x: nothing, a new entry, or the
\* removal of a transcript with its message.
Kept(x)    == outbox'[x] = outbox[x] /\ gen'[x] = gen[x]
Renewed(x) ==
    /\ outbox'[x] \in Entries /\ outbox'[x].gen \in (seq + 1)..seq'
    /\ gen'[x] = IF outbox'[x].deleted THEN 0 ELSE outbox'[x].gen
    /\ ~Gone(x) /\ \A f \in Entries : Known(x, f) => ~f.deleted
Removed(x) == x \in Logs /\ outbox'[x] = NoEntry /\ gen'[x] = 0 /\ Last(Owner[x])'.deleted

TriggerStep ==
    /\ seq' \in 0..MaxSeq /\ seq <= seq'
    /\ gen' \in [Objects -> Nat] /\ outbox' \in [Objects -> Entries]
    /\ \A x \in Objects : Kept(x) \/ Renewed(x) \/ Removed(x)
    /\ \A l \in Logs : Last(Owner[l])'.deleted => Last(Owner[l]).deleted \/ Removed(l)
    /\ \A l \in Logs : gen'[l] > 0 \/ outbox'[l] # NoEntry => gen'[Owner[l]] > 0
    /\ UNCHANGED <<network, central>>

LEMMA TriggersKeep ==
    ASSUME KindsApart, ProjectionInv, TriggerStep
    PROVE  ProjectionInv'
<1>0. UNCHANGED <<call, late, answer, ver, view, enabled, edits>>
  BY DEF TriggerStep, network, central
<1>1. Shapes'
  BY <1>0 DEF ProjectionInv, Shapes, TriggerStep
<1>2. ASSUME NEW x \in Objects, NEW f \in Entries, Known(x, f)'
      PROVE  Known(x, f) \/ (Renewed(x) /\ f = outbox'[x])
  <2>1. f # NoEntry /\ (f = outbox'[x] \/ f = ver[x] \/ \E b \in late \cup call : Item(x, f) \in b)
    BY <1>0, <1>2 DEF Known
  <2>2. f = outbox'[x] => f = outbox[x] \/ Renewed(x)
    BY <2>1 DEF TriggerStep, Kept, Removed
  <2> QED BY <2>1, <2>2 DEF Known
<1>3. ASSUME NEW x \in Objects, NEW f \in Entries, Known(x, f)
      PROVE  f.gen \in 1..seq /\ f.gen < seq + 1
  BY <1>3 DEF ProjectionInv, OneStory, Shapes, Entries
<1>4. seq \in Nat /\ seq' \in Nat /\ seq <= seq'
  BY DEF TriggerStep, ProjectionInv, Shapes
<1>5. OneStory'
  <2> SUFFICES ASSUME NEW x \in Objects, NEW f \in Entries, NEW g \in Entries,
                      Known(x, f)', Known(x, g)'
               PROVE  f.gen \in 1..seq' /\ (f.deleted => g.gen <= f.gen) /\ (f.gen = g.gen => f = g)
    BY DEF OneStory
  <2>1. f.gen \in Nat /\ g.gen \in Nat BY DEF Entries
  <2>2. CASE Known(x, f) /\ Known(x, g)
    BY <1>4, <2>2 DEF ProjectionInv, OneStory
  <2>3. CASE Known(x, f) /\ Renewed(x) /\ g = outbox'[x]
    BY <1>3, <1>4, <2>1, <2>3 DEF Renewed
  <2>4. CASE Renewed(x) /\ f = outbox'[x] /\ Known(x, g)
    BY <1>3, <1>4, <2>1, <2>4 DEF Renewed
  <2>5. CASE Renewed(x) /\ f = outbox'[x] /\ g = outbox'[x]
    BY <1>4, <2>1, <2>5 DEF Renewed
  <2> QED BY <1>2, <2>2, <2>3, <2>4, <2>5
<1>6. \A x \in Objects : Renewed(x) => Last(x)' = outbox'[x]
  BY <1>4, NoEntryFields DEF Renewed, Last
<1>7. \A x \in Objects : Kept(x) => Last(x)' = Last(x)
  BY <1>0 DEF Kept, Last
<1>8. \A l \in Logs : Last(Owner[l]).deleted => Last(Owner[l])'.deleted
  <2> SUFFICES ASSUME NEW l \in Logs, Last(Owner[l]).deleted PROVE Last(Owner[l])'.deleted
    OBVIOUS
  <2>1. Owner[l] \in Objects /\ Owner[l] \notin Logs BY Kinds
  <2>2. Last(Owner[l]) \in Entries /\ Last(Owner[l]) # NoEntry
    BY <2>1, NoEntryFields DEF ProjectionInv, Shapes, Last
  <2>3. Known(Owner[l], Last(Owner[l]))
    BY <2>2 DEF Known, Last
  <2>4. ~Renewed(Owner[l]) BY <2>2, <2>3 DEF Renewed
  <2> QED BY <1>7, <2>1, <2>4 DEF TriggerStep, Removed
<1>9. ASSUME NEW x \in Objects
      PROVE  /\ \A f \in Entries : Known(x, f)' /\ ~Gone(x)' => f.gen <= Last(x)'.gen
             /\ ~Gone(x)' => gen'[x] = IF Last(x)'.deleted THEN 0 ELSE Last(x)'.gen
             /\ Gone(x)' => gen'[x] = 0 /\ outbox'[x] = NoEntry
  <2>1. CASE Renewed(x)
    <3>1. Gone(x)' => x \in Logs /\ Last(Owner[x])'.deleted BY DEF Gone
    <3>2. Gone(x)' => Removed(x)
      BY <2>1, <3>1 DEF TriggerStep, Renewed, Gone
    <3>3. ~Removed(x)
      BY <1>4, <2>1, NoEntryFields DEF Removed, Renewed
    <3>4. \A f \in Entries : Known(x, f)' => f.gen <= outbox'[x].gen
      <4> SUFFICES ASSUME NEW f \in Entries, Known(x, f)' PROVE f.gen <= outbox'[x].gen
        OBVIOUS
      <4>1. f.gen \in Nat /\ outbox'[x].gen \in Nat BY <2>1 DEF Entries, Renewed
      <4>2. CASE f = outbox'[x] BY <4>1, <4>2
      <4>3. CASE Known(x, f) BY <1>3, <1>4, <2>1, <4>1, <4>3 DEF Renewed
      <4> QED BY <1>2, <4>2, <4>3
    <3> QED BY <1>6, <2>1, <3>2, <3>3, <3>4 DEF Renewed
  <2>2. CASE Removed(x)
    <3>1. Gone(x)' BY <2>2 DEF Removed, Gone
    <3> QED BY <2>2, <3>1 DEF Removed
  <2>3. CASE Kept(x) /\ ~Renewed(x) /\ ~Removed(x)
    <3>1. Gone(x)' <=> Gone(x)
      BY <1>8, <2>3 DEF TriggerStep, Gone
    <3> QED BY <1>2, <1>7, <2>3, <3>1 DEF ProjectionInv, LastSaid, Kept
  <2> QED BY <2>1, <2>2, <2>3 DEF TriggerStep
<1>10. LastSaid' BY <1>9 DEF LastSaid
<1>11. OwnerFirst' /\ ReceiptHonest' /\ ShownVersion'
  BY <1>0 DEF TriggerStep, ProjectionInv, OwnerFirst, ReceiptHonest, ShownVersion, Ignored
<1> QED BY <1>1, <1>5, <1>10, <1>11 DEF ProjectionInv

LEMMA ChangeMessageStep ==
    ASSUME KindsApart, ProjectionInv, NEW m \in Messages, ChangeMessage(m)
    PROVE  TriggerStep
<1>0. m \in Objects /\ m \notin Logs BY Kinds
<1>1. seq \in Nat /\ seq' = seq + 1 /\ seq' \in 0..MaxSeq /\ seq' \in Nat
  BY DEF ChangeMessage, ProjectionInv, Shapes, KindsApart
<1>2. PICK n : n = seq' OBVIOUS
<1>3. PICK w : w = Entry(n, FALSE) OBVIOUS
<1>11. w \in Entries /\ w.gen = n /\ ~w.deleted /\ n \in Nat /\ w # NoEntry
  BY <1>1, <1>2, <1>3 DEF Entry, Entries, NoEntry
<1>12. /\ gen' = [gen EXCEPT ![m] = n] /\ outbox' = [outbox EXCEPT ![m] = w]
       /\ UNCHANGED <<network, central>>
  BY <1>2, <1>3 DEF ChangeMessage
<1>4. gen' \in [Objects -> Nat] /\ outbox' \in [Objects -> Entries]
  BY <1>0, <1>11, <1>12 DEF ProjectionInv, Shapes
<1>5. \A x \in Objects \ {m} : Kept(x)
  BY <1>12 DEF Kept, ProjectionInv, Shapes
<1>6. outbox'[m] = w /\ gen'[m] = n
  BY <1>0, <1>12 DEF ProjectionInv, Shapes
<1>7. ~Last(m).deleted /\ ~Gone(m)
  BY <1>0 DEF ChangeMessage, Last, Gone
<1>8. Renewed(m)
  <2>1. \A f \in Entries : Known(m, f) => ~f.deleted
    BY <1>0, <1>7, NoTombstone
  <2> QED BY <1>1, <1>2, <1>6, <1>7, <1>11, <2>1 DEF Renewed
<1>9. \A l \in Logs : Last(Owner[l])'.deleted => Last(Owner[l]).deleted
  <2>1. ~Last(m)'.deleted
    BY <1>6, <1>11 DEF Last
  <2>2. \A x \in Objects \ {m} : Last(x)' = Last(x)
    BY <1>5, <1>12 DEF Last, Kept, central
  <2> QED BY <2>1, <2>2, Kinds
<1>10. \A l \in Logs : gen'[l] > 0 \/ outbox'[l] # NoEntry => gen'[Owner[l]] > 0
  BY <1>0, <1>1, <1>2, <1>5, <1>6, Kinds DEF Kept, ProjectionInv, OwnerFirst
<1>13. \A x \in Objects : Kept(x) \/ Renewed(x) \/ Removed(x)
  BY <1>5, <1>8
<1> QED BY <1>1, <1>4, <1>9, <1>10, <1>12, <1>13 DEF TriggerStep

LEMMA DeleteMessageStep ==
    ASSUME KindsApart, ProjectionInv, NEW m \in Messages, DeleteMessage(m)
    PROVE  TriggerStep
<1>0. m \in Objects /\ m \notin Logs BY Kinds
<1>1. seq \in Nat /\ seq' = seq + 1 /\ seq' \in 0..MaxSeq /\ seq' \in Nat /\ gen[m] > 0
  BY DEF DeleteMessage, ProjectionInv, Shapes, KindsApart
<1>12. PICK n : n = seq' OBVIOUS
<1>13. PICK w : w = Entry(n, TRUE) OBVIOUS
<1>2. /\ gen' = [x \in Objects |->
                   IF x = m \/ (x \in Logs /\ Owner[x] = m) THEN 0 ELSE gen[x]]
      /\ outbox' = [x \in Objects |->
                      IF x = m THEN w
                      ELSE IF x \in Logs /\ Owner[x] = m THEN NoEntry ELSE outbox[x]]
      /\ UNCHANGED <<network, central>>
  BY <1>12, <1>13 DEF DeleteMessage
<1>3. w \in Entries /\ w.gen = n /\ w.deleted /\ n \in Nat /\ w # NoEntry
  BY <1>1, <1>12, <1>13 DEF Entry, Entries, NoEntry
<1>4. gen' \in [Objects -> Nat] /\ outbox' \in [Objects -> Entries]
  BY <1>2, <1>3, NoEntryFields DEF ProjectionInv, Shapes
<1>5. \A x \in Objects : x # m /\ ~(x \in Logs /\ Owner[x] = m) => Kept(x)
  BY <1>2 DEF Kept
<1>6. outbox'[m] = w /\ gen'[m] = 0
  BY <1>0, <1>2
<1>7. Last(m)'.deleted
  BY <1>3, <1>6 DEF Last
<1>8. \A l \in Logs : Owner[l] = m => Removed(l)
  BY <1>0, <1>2, <1>7, Kinds DEF Removed
<1>9. Renewed(m)
  <2>1. ~Last(m).deleted /\ ~Gone(m) BY <1>0, <1>1, Present
  <2>2. \A f \in Entries : Known(m, f) => ~f.deleted
    BY <1>0, <2>1, NoTombstone
  <2> QED BY <1>1, <1>3, <1>6, <1>12, <2>1, <2>2 DEF Renewed
<1>10. \A l \in Logs : Last(Owner[l])'.deleted => Last(Owner[l]).deleted \/ Removed(l)
  <2>1. \A x \in Messages \ {m} : Last(x)' = Last(x)
    BY <1>2, <1>5, Kinds DEF Last, Kept, central
  <2> QED BY <1>8, <2>1, Kinds
<1>11. \A l \in Logs : gen'[l] > 0 \/ outbox'[l] # NoEntry => gen'[Owner[l]] > 0
  <2> TAKE l \in Logs
  <2>1. CASE Owner[l] = m BY <1>8, <2>1 DEF Removed
  <2>2. CASE Owner[l] # m
    BY <1>0, <1>5, <2>2, Kinds DEF Kept, ProjectionInv, OwnerFirst
  <2> QED BY <2>1, <2>2
<1>14. \A x \in Objects : Kept(x) \/ Renewed(x) \/ Removed(x)
  BY <1>5, <1>8, <1>9
<1> QED BY <1>1, <1>2, <1>4, <1>10, <1>11, <1>14 DEF TriggerStep

\* A transcript is recorded or trimmed: its entry v, then its message's.
Transcript(l, v) ==
    /\ v \in Entries /\ v.gen = seq + 1 /\ seq + 1 < MaxSeq /\ seq' = seq + 2
    /\ gen[Owner[l]] > 0
    /\ gen' = [gen EXCEPT ![l] = IF v.deleted THEN 0 ELSE v.gen, ![Owner[l]] = seq']
    /\ outbox' = [outbox EXCEPT ![l] = v, ![Owner[l]] = Entry(seq', FALSE)]
    /\ UNCHANGED <<network, central>>
    /\ \A f \in Entries : Known(l, f) => ~f.deleted

LEMMA TranscriptStep ==
    ASSUME KindsApart, ProjectionInv, NEW l \in Logs, NEW v, Transcript(l, v)
    PROVE  TriggerStep
<1>12. PICK m : m = Owner[l] OBVIOUS
<1>13. PICK n : n = seq' OBVIOUS
<1>14. PICK w : w = Entry(n, FALSE) OBVIOUS
<1>15. PICK z : z = IF v.deleted THEN 0 ELSE v.gen OBVIOUS
<1>0. m \in Objects /\ m \in Messages /\ m \notin Logs /\ l \in Objects /\ m # l BY <1>12, Kinds
<1>1. /\ seq \in Nat /\ seq' \in Nat /\ seq' \in 0..MaxSeq /\ seq' = seq + 2
      /\ v \in Entries /\ v.gen = seq + 1 /\ z \in Nat
  BY <1>15 DEF ProjectionInv, Shapes, KindsApart, Transcript
<1>3. /\ w \in Entries /\ w.gen = n /\ ~w.deleted /\ w # NoEntry
      /\ v # NoEntry /\ n \in Nat /\ n > 0
  BY <1>1, <1>13, <1>14 DEF Entry, Entries, NoEntry
<1>2. /\ gen' = [gen EXCEPT ![l] = z, ![m] = n]
      /\ outbox' = [outbox EXCEPT ![l] = v, ![m] = w]
      /\ UNCHANGED <<network, central>>
  BY <1>12, <1>13, <1>14, <1>15 DEF Transcript
<1>4. gen' \in [Objects -> Nat] /\ outbox' \in [Objects -> Entries]
  BY <1>0, <1>1, <1>2, <1>3 DEF ProjectionInv, Shapes
<1>5. \A x \in Objects \ {l, m} : Kept(x)
  BY <1>2 DEF Kept, ProjectionInv, Shapes
<1>6. outbox'[m] = w /\ gen'[m] = n /\ outbox'[l] = v /\ gen'[l] = z
  BY <1>0, <1>2 DEF ProjectionInv, Shapes
<1>7. ~Last(m).deleted /\ ~Gone(m)
  BY <1>0, <1>12, Present DEF Transcript
<1>8. Renewed(m)
  <2>1. \A f \in Entries : Known(m, f) => ~f.deleted
    BY <1>0, <1>7, NoTombstone
  <2> QED BY <1>1, <1>3, <1>6, <1>7, <1>13, <2>1 DEF Renewed
<1>9. Renewed(l)
  <2>1. ~Gone(l) BY <1>7, <1>12 DEF Gone
  <2>2. \A f \in Entries : Known(l, f) => ~f.deleted BY DEF Transcript
  <2> QED BY <1>1, <1>6, <1>15, <2>1, <2>2 DEF Renewed
<1>10. \A j \in Logs : Last(Owner[j])'.deleted => Last(Owner[j]).deleted
  <2>1. ~Last(m)'.deleted
    BY <1>3, <1>6 DEF Last
  <2>2. \A x \in Messages \ {m} : Last(x)' = Last(x)
    BY <1>2, <1>5, Kinds DEF Last, Kept, central
  <2> QED BY <2>1, <2>2, Kinds
<1>11. \A j \in Logs : gen'[j] > 0 \/ outbox'[j] # NoEntry => gen'[Owner[j]] > 0
  <2> TAKE j \in Logs
  <2>1. CASE Owner[j] = m BY <1>3, <1>6, <2>1
  <2>2. CASE Owner[j] # m
    <3>1. Kept(j) /\ Kept(Owner[j])
      BY <1>0, <1>5, <1>12, <2>2, Kinds
    <3> QED BY <3>1 DEF Kept, ProjectionInv, OwnerFirst
  <2> QED BY <2>1, <2>2
<1>17. \A x \in Objects : Kept(x) \/ Renewed(x) \/ Removed(x)
  BY <1>5, <1>8, <1>9
<1>18. seq <= seq' BY <1>1
<1> QED BY <1>1, <1>2, <1>18, <1>4, <1>10, <1>11, <1>17 DEF TriggerStep

LEMMA AddLogStep ==
    ASSUME KindsApart, ProjectionInv, NEW l \in Logs, AddLog(l)
    PROVE  TriggerStep
<1>1. \A f \in Entries : ~Known(l, f)
  BY DEF Known, AddLog, Item
<1>2. PICK v : v = Entry(seq + 1, FALSE) OBVIOUS
<1>3. v \in Entries /\ v.gen = seq + 1 /\ ~v.deleted
  BY <1>2 DEF Entry, Entries, ProjectionInv, Shapes
<1>4. /\ gen' = [gen EXCEPT ![l] = IF v.deleted THEN 0 ELSE v.gen, ![Owner[l]] = seq']
      /\ outbox' = [outbox EXCEPT ![l] = v, ![Owner[l]] = Entry(seq', FALSE)]
  BY <1>2, <1>3 DEF AddLog
<1>5. Transcript(l, v)
  BY <1>1, <1>3, <1>4 DEF AddLog, Transcript
<1> QED BY <1>5, TranscriptStep

LEMMA DropLogStep ==
    ASSUME KindsApart, ProjectionInv, NEW l \in Logs, DropLog(l)
    PROVE  TriggerStep
<1>1. gen[l] > 0 /\ l \in Objects
  BY Kinds DEF DropLog
<1>2. gen[Owner[l]] > 0
  BY <1>1 DEF ProjectionInv, OwnerFirst
<1>3. ~Gone(l) /\ ~Last(l).deleted
  BY <1>1, Present
<1>4. \A f \in Entries : Known(l, f) => ~f.deleted
  BY <1>1, <1>3, NoTombstone
<1>5. PICK v : v = Entry(seq + 1, TRUE) OBVIOUS
<1>6. v \in Entries /\ v.gen = seq + 1 /\ v.deleted
  BY <1>5 DEF Entry, Entries, ProjectionInv, Shapes
<1>7. /\ gen' = [gen EXCEPT ![l] = IF v.deleted THEN 0 ELSE v.gen, ![Owner[l]] = seq']
      /\ outbox' = [outbox EXCEPT ![l] = v, ![Owner[l]] = Entry(seq', FALSE)]
  BY <1>5, <1>6 DEF DropLog
<1>8. Transcript(l, v)
  BY <1>2, <1>4, <1>6, <1>7 DEF DropLog, Transcript
<1> QED BY <1>8, TranscriptStep

-----------------------------------------------------------------------------
(* Batches, receipts and central management                                 *)

\* Nothing new is said: what was true of the journal stays so.
LEMMA NothingNew ==
    ASSUME KindsApart, ProjectionInv, Shapes', UNCHANGED <<seq, gen>>,
           \A x \in Objects : outbox'[x] = outbox[x] \/ outbox'[x] = NoEntry,
           \A x \in Objects, f \in Entries : Known(x, f)' => Known(x, f),
           \A x \in Objects : ~Gone(x) => Last(x)' = Last(x)
    PROVE  /\ OneStory' /\ LastSaid'
           /\ \A l \in Logs : gen'[l] > 0 \/ outbox'[l] # NoEntry => gen'[Owner[l]] > 0
<1>1. OneStory' BY DEF ProjectionInv, OneStory
<1>2. \A x \in Objects : Gone(x)' <=> Gone(x)
  <2>1. \A l \in Logs : Last(Owner[l])' = Last(Owner[l])
    BY Kinds DEF Gone
  <2> QED BY <2>1 DEF Gone
<1>3. LastSaid'
  <2> SUFFICES ASSUME NEW x \in Objects
               PROVE  /\ \A f \in Entries : Known(x, f)' /\ ~Gone(x)' => f.gen <= Last(x)'.gen
                      /\ ~Gone(x)' => gen'[x] = IF Last(x)'.deleted THEN 0 ELSE Last(x)'.gen
                      /\ Gone(x)' => gen'[x] = 0 /\ outbox'[x] = NoEntry
    BY DEF LastSaid
  <2>1. CASE Gone(x) BY <1>2, <2>1 DEF ProjectionInv, LastSaid
  <2>2. CASE ~Gone(x)
    <3>1. Last(x)' = Last(x) BY <2>2
    <3> QED BY <1>2, <2>2, <3>1 DEF ProjectionInv, LastSaid
  <2> QED BY <2>1, <2>2
<1>4. \A l \in Logs : gen'[l] > 0 \/ outbox'[l] # NoEntry => gen'[Owner[l]] > 0
  BY Kinds DEF ProjectionInv, OwnerFirst
<1> QED BY <1>1, <1>3, <1>4

\* An entry of a batch is known.
LEMMA Travelling ==
    ASSUME KindsApart, ProjectionInv, NEW b \in late \cup call, NEW e \in b
    PROVE  /\ e \in Items /\ Entry(e.gen, e.deleted) \in Entries
           /\ Entry(e.gen, e.deleted).gen = e.gen
           /\ Entry(e.gen, e.deleted).deleted = e.deleted
           /\ Item(e.id, Entry(e.gen, e.deleted)) = e
           /\ Known(e.id, Entry(e.gen, e.deleted))
<1>1. e \in Items BY DEF ProjectionInv, Shapes
<1>2. PICK f : f = Entry(e.gen, e.deleted) OBVIOUS
<1>3. f \in Entries /\ f.gen = e.gen /\ f.deleted = e.deleted
  BY <1>1, <1>2 DEF Entry, Entries, Items
<1>4. Item(e.id, f) = e
  BY <1>1, <1>3 DEF Item, Items
<1>5. Known(e.id, f)
  <2>1. f # NoEntry
    BY <1>1, <1>3, NoEntryFields DEF Items
  <2> QED BY <1>3, <1>4, <2>1 DEF Known
<1> QED BY <1>1, <1>2, <1>3, <1>4, <1>5

\* Nothing newer than a tombstone central management has is on its way.
LEMMA Frozen ==
    ASSUME KindsApart, ProjectionInv, NEW b \in late \cup call, NEW e \in b, ver[e.id].deleted
    PROVE  e.gen <= ver[e.id].gen
<1>1. PICK f : f = Entry(e.gen, e.deleted) OBVIOUS
<1>2. e \in Items /\ f \in Entries /\ f.gen = e.gen /\ Known(e.id, f)
  BY <1>1, Travelling
<1>3. e.id \in Objects /\ ver[e.id] \in Entries /\ ver[e.id] # NoEntry
  BY <1>2, NoEntryFields DEF Items, ProjectionInv, Shapes
<1>4. Known(e.id, ver[e.id])
  BY <1>3 DEF Known
<1> QED BY <1>2, <1>3, <1>4 DEF ProjectionInv, OneStory

\* No legal order of changes, exports and late commits makes a batch refused.
LEMMA Accepted ==
    ASSUME KindsApart, ProjectionInv, NEW b \in late \cup call, NEW e \in b
    PROVE  ~Refused(e)
<1>1. e \in Items BY Travelling
<1>2. ver[e.id].gen \in Nat /\ e.gen \in Nat
  BY <1>1 DEF Items, ProjectionInv, Shapes, Entries
<1>3. ~(New(e) /\ ver[e.id].deleted)
  BY <1>2, Frozen DEF New
<1> QED BY <1>3 DEF Refused, ProjectionInv, OwnerFirst

\* What a committed batch does to the version of x.
Upgraded(b, x) ==
    \E e \in b : /\ e.id = x /\ New(e) /\ ver'[x] = Entry(e.gen, e.deleted)
                 /\ Applied(b, x) = {e}

LEMMA Committed ==
    ASSUME KindsApart, ProjectionInv, NEW b \in late, Ingest(b), enabled
    PROVE  /\ \A x \in Objects :
                \/ ver'[x] = ver[x] /\ Applied(b, x) = {}
                     /\ view'[x] = IF Erased(b, x) THEN 0 ELSE view[x]
                \/ Upgraded(b, x)
                     /\ view'[x] = IF Erased(b, x) \/ ver'[x].deleted THEN 0 ELSE ver'[x].gen
           /\ ver' \in [Objects -> Entries] /\ view' \in [Objects -> Nat]
           /\ UNCHANGED <<seq, gen, outbox, enabled, edits, call>>
           /\ late' = late \ {b} /\ answer' = (answer \/ b \in call)
<1> DEFINE V(x) == CHOOSE e \in Applied(b, x) : TRUE
<1>1. ~ \E e \in b : Refused(e) BY Accepted
<1>2. /\ UNCHANGED <<seq, gen, outbox, enabled, edits, call>>
      /\ late' = late \ {b} /\ answer' = (answer \/ b \in call)
      /\ ver' = [x \in Objects |-> IF Applied(b, x) = {} THEN ver[x]
                                   ELSE Entry(V(x).gen, V(x).deleted)]
      /\ view' = [x \in Objects |-> IF Erased(b, x) THEN 0
                     ELSE IF Applied(b, x) = {} THEN view[x]
                     ELSE IF V(x).deleted THEN 0 ELSE V(x).gen]
  BY <1>1 DEF Ingest, node
<1>3. \A x : Applied(b, x) # {} => V(x) \in Applied(b, x)
  OBVIOUS
<1> HIDE DEF V
<1>4. \A x : Applied(b, x) # {} =>
        V(x) \in b /\ V(x).id = x /\ New(V(x)) /\ Applied(b, x) = {V(x)}
  BY <1>3 DEF Applied, ProjectionInv, Shapes
<1>5. \A e \in b : /\ Entry(e.gen, e.deleted) \in Entries
                   /\ Entry(e.gen, e.deleted).gen = e.gen
                   /\ Entry(e.gen, e.deleted).deleted = e.deleted /\ e.gen \in Nat
  BY Travelling DEF Items
<1>6. ver' \in [Objects -> Entries]
  BY <1>2, <1>4, <1>5 DEF ProjectionInv, Shapes
<1>7. view' \in [Objects -> Nat]
  BY <1>2, <1>4, <1>5 DEF ProjectionInv, Shapes
<1>8. ASSUME NEW x \in Objects
      PROVE  \/ ver'[x] = ver[x] /\ Applied(b, x) = {}
                  /\ view'[x] = IF Erased(b, x) THEN 0 ELSE view[x]
             \/ Upgraded(b, x)
                  /\ view'[x] = IF Erased(b, x) \/ ver'[x].deleted THEN 0 ELSE ver'[x].gen
  <2>1. CASE Applied(b, x) = {}
    BY <1>2, <2>1
  <2>2. CASE Applied(b, x) # {}
    <3>1. ver'[x] = Entry(V(x).gen, V(x).deleted)
      BY <1>2, <2>2
    <3>2. V(x) \in b BY <1>4, <2>2
    <3>3. ver'[x].gen = V(x).gen /\ ver'[x].deleted = V(x).deleted
      BY <1>5, <3>1, <3>2
    <3>4. Upgraded(b, x) BY <1>4, <2>2, <3>1 DEF Upgraded
    <3>5. view'[x] = IF Erased(b, x) THEN 0 ELSE IF V(x).deleted THEN 0 ELSE V(x).gen
      BY <1>2, <2>2
    <3> QED BY <3>3, <3>4, <3>5
  <2> QED BY <2>1, <2>2
<1> QED BY <1>2, <1>6, <1>7, <1>8

\* ingest_batch: the transaction commits.
LEMMA CommitStep ==
    ASSUME KindsApart, ProjectionInv, NEW b \in late, Ingest(b), enabled
    PROVE  ProjectionInv'
<1>0. /\ ver' \in [Objects -> Entries] /\ view' \in [Objects -> Nat]
      /\ UNCHANGED <<seq, gen, outbox, enabled, edits, call>>
      /\ late' = late \ {b} /\ answer' = (answer \/ b \in call)
  BY Committed
<1>1. Shapes'
  BY <1>0 DEF ProjectionInv, Shapes
<1>2. \A x \in Objects : ver'[x] = ver[x] \/ Upgraded(b, x)
  BY Committed
<1>3. ASSUME NEW x \in Objects, Upgraded(b, x)
      PROVE  /\ Known(x, ver'[x]) /\ ver'[x] \in Entries /\ ver[x] \in Entries
             /\ ver'[x].gen > ver[x].gen /\ ver'[x] # NoEntry /\ ~ver[x].deleted
             /\ \A e \in b : e.id = x /\ New(e) => e.gen = ver'[x].gen
             /\ x \in Logs => ~ver[Owner[x]].deleted
  <2>1. PICK e \in b : /\ e.id = x /\ New(e) /\ ver'[x] = Entry(e.gen, e.deleted)
                       /\ Applied(b, x) = {e}
    BY <1>3 DEF Upgraded
  <2>2. /\ ver'[x] \in Entries /\ ver'[x].gen = e.gen /\ ver'[x].deleted = e.deleted
        /\ Known(x, ver'[x])
    BY <2>1, Travelling
  <2>3. ver[x] \in Entries BY DEF ProjectionInv, Shapes
  <2>4. ver'[x].gen > ver[x].gen BY <2>1, <2>2 DEF New
  <2>5. ~ver[x].deleted
    BY <2>1, <2>2, <2>3, <2>4, Frozen DEF Entries
  <2>6. \A d \in b : d.id = x /\ New(d) => d = e
    BY <2>1 DEF Applied
  <2>7. ver'[x] # NoEntry BY <2>2 DEF Known
  <2>8. x \in Logs => ~ver[Owner[x]].deleted BY <2>1 DEF New, Ignored
  <2> QED BY <2>2, <2>3, <2>4, <2>5, <2>6, <2>7, <2>8
<1>4. \A x \in Objects, f \in Entries : Known(x, f)' => Known(x, f)
  <2> SUFFICES ASSUME NEW x \in Objects, NEW f \in Entries, Known(x, f)' PROVE Known(x, f)
    OBVIOUS
  <2>1. f # NoEntry /\ (f = outbox[x] \/ f = ver'[x] \/ \E c \in late \cup call : Item(x, f) \in c)
    BY <1>0 DEF Known
  <2> QED BY <1>2, <1>3, <2>1 DEF Known
<1>5. \A x \in Objects : ~Gone(x) => Last(x)' = Last(x)
  <2> SUFFICES ASSUME NEW x \in Objects, ~Gone(x) PROVE Last(x)' = Last(x)
    OBVIOUS
  <2>1. CASE outbox[x] # NoEntry \/ ver'[x] = ver[x]
    BY <1>0, <2>1 DEF Last
  <2>2. CASE outbox[x] = NoEntry /\ Upgraded(b, x)
    <3>1. Last(x) = ver[x] BY <2>2 DEF Last
    <3>2. ver'[x].gen <= ver[x].gen
      BY <1>3, <2>2, <3>1 DEF ProjectionInv, LastSaid
    <3> QED BY <1>3, <2>2, <3>2 DEF Entries
  <2> QED BY <1>2, <2>1, <2>2
<1>6. /\ OneStory' /\ LastSaid'
      /\ \A l \in Logs : gen'[l] > 0 \/ outbox'[l] # NoEntry => gen'[Owner[l]] > 0
  BY <1>0, <1>1, <1>4, <1>5, NothingNew
<1>7. \A x \in Objects : /\ ver[x] # NoEntry => ver'[x] # NoEntry
                         /\ ver[x].deleted => ver'[x].deleted
                         /\ ver[x].gen \in Nat /\ ver'[x].gen \in Nat /\ ver[x].gen <= ver'[x].gen
  BY <1>0, <1>2, <1>3 DEF ProjectionInv, Shapes, Entries
<1>8. \A c \in late \cup call : \A e \in c :
        /\ e \in Items /\ e.id \in Objects /\ e.gen \in Nat
        /\ e.id \in Logs => Owner[e.id] \in Objects
  BY Travelling, Kinds DEF Items
<1>9. OwnerFirst'
  BY <1>0, <1>6, <1>7, <1>8 DEF ProjectionInv, OwnerFirst
<1>10. ReceiptHonest'
  <2> SUFFICES ASSUME answer', NEW c \in call, NEW e \in c
               PROVE  e.gen <= ver'[e.id].gen \/ Ignored(e)'
    BY <1>0 DEF ReceiptHonest
  <2>1. Ignored(e) => Ignored(e)'
    BY <1>7, <1>8 DEF Ignored
  <2>2. CASE answer
    BY <1>7, <1>8, <2>1, <2>2 DEF ProjectionInv, ReceiptHonest
  <2>3. CASE b \in call
    <3>1. c = b BY <2>3 DEF ProjectionInv, Shapes
    <3>2. CASE New(e)
      <4>1. Applied(b, e.id) # {} BY <3>1, <3>2 DEF Applied
      <4>2. Upgraded(b, e.id) BY <1>8, <4>1, Committed
      <4>3. e.gen = ver'[e.id].gen BY <1>3, <1>8, <3>1, <3>2, <4>2
      <4> QED BY <1>8, <4>3
    <3>3. CASE ~New(e)
      BY <1>7, <1>8, <2>1, <3>3 DEF New
    <3> QED BY <3>2, <3>3
  <2> QED BY <1>0, <2>2, <2>3
<1>11. ShownVersion'
  <2> SUFFICES ASSUME NEW x \in Objects
               PROVE  view'[x] = IF ver'[x].deleted \/ (x \in Logs /\ ver'[Owner[x]].deleted)
                                 THEN 0 ELSE ver'[x].gen
    BY DEF ShownVersion
  <2>1. Erased(b, x) => x \in Logs /\ ver'[Owner[x]].deleted
    <3> SUFFICES ASSUME Erased(b, x) PROVE ver'[Owner[x]].deleted
      BY DEF Erased
    <3>1. x \in Logs /\ Owner[x] \in Objects BY Kinds DEF Erased
    <3>2. PICK e \in Applied(b, Owner[x]) : e.deleted BY DEF Erased
    <3>3. Upgraded(b, Owner[x]) BY <3>1, <3>2, Committed
    <3>4. ver'[Owner[x]] = Entry(e.gen, e.deleted) BY <3>2, <3>3 DEF Upgraded
    <3>5. e \in b BY <3>2 DEF Applied
    <3> QED BY <3>2, <3>4, <3>5, Travelling
  <2>2. x \in Logs /\ ver'[Owner[x]].deleted => Erased(b, x) \/ ver[Owner[x]].deleted
    <3> SUFFICES ASSUME x \in Logs, ver'[Owner[x]].deleted, ~ver[Owner[x]].deleted
                 PROVE  Erased(b, x)
      OBVIOUS
    <3>1. Owner[x] \in Objects BY Kinds
    <3>2. Upgraded(b, Owner[x]) BY <1>2, <3>1
    <3>3. PICK e \in b : /\ ver'[Owner[x]] = Entry(e.gen, e.deleted)
                         /\ Applied(b, Owner[x]) = {e}
      BY <3>2 DEF Upgraded
    <3>4. e.deleted BY <3>3, Travelling
    <3> QED BY <3>3, <3>4 DEF Erased
  <2>3. x \in Logs /\ ver[Owner[x]].deleted => ver'[Owner[x]].deleted
    BY <1>7, Kinds
  <2>4. CASE ver'[x] = ver[x] /\ Applied(b, x) = {}
             /\ view'[x] = IF Erased(b, x) THEN 0 ELSE view[x]
    BY <2>1, <2>2, <2>3, <2>4 DEF ProjectionInv, ShownVersion
  <2>5. CASE Upgraded(b, x)
             /\ view'[x] = IF Erased(b, x) \/ ver'[x].deleted THEN 0 ELSE ver'[x].gen
    <3>1. x \in Logs => ~ver[Owner[x]].deleted BY <1>3, <2>5
    <3> QED BY <2>1, <2>2, <2>5, <3>1
  <2> QED BY <2>4, <2>5, Committed
<1> QED BY <1>1, <1>6, <1>9, <1>10, <1>11 DEF ProjectionInv

\* A batch is lost, refused or given up, or an administrator edits the node.
LEMMA IdleStep ==
    ASSUME KindsApart, ProjectionInv,
           GiveUp \/ EditNode \/ UNCHANGED vars
           \/ \E b \in late : Lose(b) \/ (Ingest(b) /\ ~enabled)
    PROVE  ProjectionInv'
<1>1. UNCHANGED <<seq, gen, outbox, ver, view>> /\ late' \subseteq late /\ call' \subseteq call
      /\ (answer' => answer /\ (call' = call \/ \E b \in late : call' = call \ {b}))
  <2>1. CASE GiveUp \/ EditNode \/ UNCHANGED vars
    BY <2>1 DEF GiveUp, EditNode, vars, node, network, central
  <2>2. CASE \E b \in late : Lose(b)
    BY <2>2 DEF Lose, node, network, central
  <2>3. CASE \E b \in late : Ingest(b) /\ ~enabled
    BY <2>3 DEF Ingest, node
  <2> QED BY <2>1, <2>2, <2>3
<1>2. Shapes'
  BY <1>1 DEF ProjectionInv, Shapes
<1>3. \A x, f : Known(x, f)' => Known(x, f)
  BY <1>1 DEF Known
<1>4. \A x : Last(x)' = Last(x)
  BY <1>1 DEF Last
<1>5. /\ OneStory' /\ LastSaid'
      /\ \A l \in Logs : gen'[l] > 0 \/ outbox'[l] # NoEntry => gen'[Owner[l]] > 0
  BY <1>1, <1>2, <1>3, <1>4, NothingNew
<1>6. OwnerFirst' /\ ReceiptHonest' /\ ShownVersion'
  BY <1>1, <1>5 DEF ProjectionInv, OwnerFirst, ReceiptHonest, ShownVersion, Ignored
<1> QED BY <1>2, <1>5, <1>6 DEF ProjectionInv

\* outbox::acknowledge removes only what central management has.
LEMMA AcknowledgeStep ==
    ASSUME KindsApart, ProjectionInv, Acknowledge
    PROVE  ProjectionInv'
<1>1. /\ answer /\ UNCHANGED <<seq, gen, late, ver, view>> /\ call' = {} /\ answer' = FALSE
      /\ outbox' = [x \in Objects |->
                      IF \E b \in call : Item(x, outbox[x]) \in b THEN NoEntry ELSE outbox[x]]
  BY DEF Acknowledge, central, Item
<1>2. Shapes'
  BY <1>1, NoEntryFields DEF ProjectionInv, Shapes
<1>3. \A x \in Objects : outbox'[x] = outbox[x] \/ outbox'[x] = NoEntry
  BY <1>1
<1>4. \A x \in Objects, f \in Entries : Known(x, f)' => Known(x, f)
  BY <1>1, <1>3 DEF Known
<1>5. \A x \in Objects : Last(x)' = Last(x)
  <2> SUFFICES ASSUME NEW x \in Objects, outbox'[x] # outbox[x] PROVE ver[x] = outbox[x]
    BY <1>1, <1>3 DEF Last
  <2>1. PICK b \in call : Item(x, outbox[x]) \in b
    BY <1>1
  <2>2. outbox[x] \in Entries /\ ver[x] \in Entries /\ outbox[x] # NoEntry
    BY <1>3 DEF ProjectionInv, Shapes
  <2>3. outbox[x].gen \in Nat /\ ver[x].gen \in Nat BY <2>2 DEF Entries
  <2>4. Known(x, outbox[x]) BY <2>2 DEF Known
  <2>5. ~Gone(x) /\ Last(x) = outbox[x]
    BY <2>2 DEF ProjectionInv, LastSaid, Last
  <2>6. ~Ignored(Item(x, outbox[x]))
    <3> SUFFICES ASSUME x \in Logs, ver[Owner[x]].deleted PROVE FALSE
      BY DEF Ignored, Item
    <3>1. Owner[x] \in Objects /\ ~Gone(Owner[x]) BY Kinds DEF Gone
    <3>2. gen[Owner[x]] > 0 BY <2>2 DEF ProjectionInv, OwnerFirst
    <3>3. ver[Owner[x]] \in Entries /\ ver[Owner[x]] # NoEntry
      BY <3>1, NoEntryFields DEF ProjectionInv, Shapes
    <3>4. Known(Owner[x], ver[Owner[x]]) BY <3>3 DEF Known
    <3>5. ~Last(Owner[x]).deleted BY <3>1, <3>2, Present
    <3> QED BY <3>1, <3>3, <3>4, <3>5, NoTombstone
  <2>7. outbox[x].gen <= ver[x].gen
    BY <1>1, <2>1, <2>6 DEF ProjectionInv, ReceiptHonest, Item
  <2>8. outbox[x].gen > 0
    BY <2>2, <2>4 DEF ProjectionInv, OneStory
  <2>9. ver[x] # NoEntry BY <2>3, <2>7, <2>8, NoEntryFields
  <2>10. Known(x, ver[x]) BY <2>2, <2>9 DEF Known
  <2>11. ver[x].gen <= outbox[x].gen
    BY <2>2, <2>5, <2>10 DEF ProjectionInv, LastSaid
  <2>12. ver[x].gen = outbox[x].gen BY <2>3, <2>7, <2>11
  <2> QED BY <2>2, <2>4, <2>10, <2>12 DEF ProjectionInv, OneStory
<1>6. /\ OneStory' /\ LastSaid'
      /\ \A l \in Logs : gen'[l] > 0 \/ outbox'[l] # NoEntry => gen'[Owner[l]] > 0
  BY <1>1, <1>2, <1>3, <1>4, <1>5, NothingNew
<1>7. OwnerFirst' /\ ReceiptHonest' /\ ShownVersion'
  BY <1>1, <1>6 DEF ProjectionInv, OwnerFirst, ReceiptHonest, ShownVersion
<1> QED BY <1>2, <1>6, <1>7 DEF ProjectionInv

\* An export copies entries of the outbox; a transcript waits for its message.
LEMMA ExportStep ==
    ASSUME KindsApart, ProjectionInv, NEW S, Send(S), S \subseteq Objects,
           \A l \in S \cap Logs : outbox[Owner[l]] = NoEntry
    PROVE  ProjectionInv'
<1>0. PICK b : b = Batch(S) OBVIOUS
<1>1. /\ UNCHANGED <<seq, gen, outbox, ver, view>> /\ answer' = FALSE
      /\ call' = {b} /\ late' = late \cup {b}
  BY <1>0 DEF Send, node, central
<1>2. \A e \in b : e.id \in S /\ e = Item(e.id, outbox[e.id]) /\ outbox[e.id] # NoEntry
  <2>1. \A x \in Oldest(S) : x \in S /\ outbox[x] # NoEntry
    BY DEF Oldest, Pending
  <2>2. \A e \in b : \E x \in Oldest(S) : e = Item(x, outbox[x])
    BY <1>0 DEF Batch, Item
  <2> QED BY <2>1, <2>2 DEF Item
<1>3. \A e \in b : /\ Known(e.id, outbox[e.id]) /\ outbox[e.id].gen \in 1..seq
                   /\ outbox[e.id] \in Entries
  BY <1>2 DEF Known, ProjectionInv, Shapes, OneStory
<1>4. b \subseteq Items
  BY <1>2, <1>3 DEF Items, Item, Entries
<1>5. \A e, f \in b : e.id = f.id => e = f
  BY <1>2
<1>6. Shapes'
  BY <1>1, <1>4, <1>5 DEF ProjectionInv, Shapes
<1>7. \A x \in Objects, f \in Entries : Known(x, f)' => Known(x, f)
  <2> SUFFICES ASSUME NEW x \in Objects, NEW f \in Entries, f # NoEntry, Item(x, f) \in b
               PROVE  Known(x, f)
    BY <1>1 DEF Known
  <2>1. Item(x, f).id = x /\ Item(x, f).gen = f.gen /\ Item(x, f).deleted = f.deleted
    BY DEF Item
  <2>2. Item(x, f) = Item(x, outbox[x]) BY <1>2, <2>1
  <2>3. f.gen = outbox[x].gen /\ f.deleted = outbox[x].deleted /\ outbox[x] \in Entries
    BY <2>2 DEF Item, ProjectionInv, Shapes
  <2>4. f = outbox[x] BY <2>3 DEF Entries
  <2> QED BY <2>4 DEF Known
<1>8. \A x : Last(x)' = Last(x)
  BY <1>1 DEF Last
<1>9. /\ OneStory' /\ LastSaid'
      /\ \A l \in Logs : gen'[l] > 0 \/ outbox'[l] # NoEntry => gen'[Owner[l]] > 0
  BY <1>1, <1>6, <1>7, <1>8, NothingNew
<1>10. \A e \in b : e.id \in Logs => ver[Owner[e.id]] # NoEntry
  <2> SUFFICES ASSUME NEW l \in Logs, NEW e \in b, e.id = l PROVE ver[Owner[l]] # NoEntry
    OBVIOUS
  <2>1. gen[Owner[l]] > 0 /\ outbox[Owner[l]] = NoEntry /\ Owner[l] \in Objects
    BY <1>2, Kinds DEF ProjectionInv, OwnerFirst
  <2>2. ver[Owner[l]].gen > 0
    BY <2>1, Present DEF Last
  <2> QED BY <2>2, NoEntryFields
<1>11. OwnerFirst' /\ ReceiptHonest' /\ ShownVersion'
  BY <1>1, <1>9, <1>10 DEF ProjectionInv, OwnerFirst, ReceiptHonest, ShownVersion
<1> QED BY <1>6, <1>9, <1>11 DEF ProjectionInv

LEMMA InvInit == KindsApart /\ Init => ProjectionInv
<1> SUFFICES ASSUME KindsApart, Init PROVE ProjectionInv
  OBVIOUS
<1>1. /\ seq = 0 /\ gen = [x \in Objects |-> 0] /\ outbox = [x \in Objects |-> NoEntry]
      /\ call = {} /\ late = {} /\ answer = FALSE
      /\ ver = [x \in Objects |-> NoEntry] /\ view = [x \in Objects |-> 0]
  BY DEF Init
<1>2. Shapes
  BY <1>1, NoEntryFields DEF Shapes, KindsApart
<1>3. \A x \in Objects : \A f : ~Known(x, f)
  BY <1>1 DEF Known
<1>4. \A x \in Objects : Last(x) = NoEntry
  BY <1>1 DEF Last
<1>5. OneStory BY <1>3 DEF OneStory
<1>6. LastSaid
  BY <1>1, <1>3, <1>4, NoEntryFields, Kinds DEF LastSaid, Gone
<1>7. OwnerFirst /\ ReceiptHonest /\ ShownVersion
  BY <1>1, NoEntryFields, Kinds DEF OwnerFirst, ReceiptHonest, ShownVersion
<1> QED BY <1>2, <1>5, <1>6, <1>7 DEF ProjectionInv

LEMMA InvStep == KindsApart /\ ProjectionInv /\ [Next]_vars => ProjectionInv'
<1> SUFFICES ASSUME KindsApart, ProjectionInv, [Next]_vars PROVE ProjectionInv'
  OBVIOUS
<1>1. ASSUME NEW m \in Messages, ChangeMessage(m) \/ DeleteMessage(m) PROVE ProjectionInv'
  BY <1>1, ChangeMessageStep, DeleteMessageStep, TriggersKeep
<1>2. ASSUME NEW l \in Logs, AddLog(l) \/ DropLog(l) PROVE ProjectionInv'
  BY <1>2, AddLogStep, DropLogStep, TriggersKeep
<1>3. CASE ExportMessages
  <2>1. Messages \subseteq Objects /\ Messages \cap Logs = {} BY DEF Objects, KindsApart
  <2> QED BY <1>3, <2>1, ExportStep DEF ExportMessages
<1>4. CASE ExportLogs
  <2>1. PICK S : S = {l \in Logs : outbox[Owner[l]] = NoEntry} OBVIOUS
  <2>2. Send(S) BY <1>4, <2>1 DEF ExportLogs
  <2>3. S \subseteq Objects /\ \A l \in S \cap Logs : outbox[Owner[l]] = NoEntry
    BY <2>1 DEF Objects
  <2> QED BY <2>2, <2>3, ExportStep
<1>5. CASE Acknowledge
  BY <1>5, AcknowledgeStep
<1>6. ASSUME NEW b \in late, Ingest(b) PROVE ProjectionInv'
  BY <1>6, CommitStep, IdleStep
<1>7. CASE GiveUp \/ EditNode \/ UNCHANGED vars \/ \E b \in late : Lose(b)
  BY <1>7, IdleStep
<1> QED BY <1>1, <1>2, <1>3, <1>4, <1>5, <1>6, <1>7 DEF Next

-----------------------------------------------------------------------------
(* What follows                                                             *)

LEMMA Invariant == ASSUME KindsApart PROVE Spec => []ProjectionInv
BY InvInit, InvStep, PTL DEF Spec

\* The journal, the batches and central management's tables stay well formed,
\* and the sequence never runs past its bound.
THEOREM ProjectionTyped == ASSUME KindsApart PROVE Spec => []TypeOK
<1>1. ASSUME KindsApart, ProjectionInv PROVE TypeOK
  <2>1. seq \in 0..MaxSeq /\ seq \in Nat /\ MaxSeq \in Nat
    BY <1>1 DEF ProjectionInv, Shapes, KindsApart
  <2>2. \A x \in Objects, f \in Entries : Known(x, f) => f.gen \in 0..MaxSeq
    BY <1>1, <2>1 DEF ProjectionInv, OneStory, Entries
  <2>3. \A x \in Objects : outbox[x] \in Entries /\ ver[x] \in Entries
    BY <1>1 DEF ProjectionInv, Shapes
  <2>4. \A x \in Objects : outbox[x].gen \in 0..MaxSeq /\ ver[x].gen \in 0..MaxSeq
    <3> TAKE x \in Objects
    <3>1. outbox[x] = NoEntry \/ Known(x, outbox[x]) BY <2>3 DEF Known
    <3>2. ver[x] = NoEntry \/ Known(x, ver[x]) BY <2>3 DEF Known
    <3> QED BY <2>1, <2>2, <2>3, <3>1, <3>2, NoEntryFields
  <2>5. \A x \in Objects : Last(x).gen \in 0..MaxSeq
    BY <2>4 DEF Last
  <2>6. \A x \in Objects : gen[x] \in 0..MaxSeq /\ view[x] \in 0..MaxSeq
    BY <1>1, <2>1, <2>4, <2>5 DEF ProjectionInv, LastSaid, ShownVersion
  <2>7. \A x \in Objects : outbox[x] \in [gen : 0..MaxSeq, deleted : BOOLEAN]
                           /\ ver[x] \in [gen : 0..MaxSeq, deleted : BOOLEAN]
    BY <2>3, <2>4 DEF Entries
  <2>8. /\ gen \in [Objects -> 0..MaxSeq] /\ view \in [Objects -> 0..MaxSeq]
        /\ outbox \in [Objects -> [gen : 0..MaxSeq, deleted : BOOLEAN]]
        /\ ver \in [Objects -> [gen : 0..MaxSeq, deleted : BOOLEAN]]
    <3>1. \A T : /\ (gen \in [Objects -> Nat] /\ \A x \in Objects : gen[x] \in T)
                      => gen \in [Objects -> T]
                 /\ (view \in [Objects -> Nat] /\ \A x \in Objects : view[x] \in T)
                      => view \in [Objects -> T]
                 /\ (outbox \in [Objects -> Entries] /\ \A x \in Objects : outbox[x] \in T)
                      => outbox \in [Objects -> T]
                 /\ (ver \in [Objects -> Entries] /\ \A x \in Objects : ver[x] \in T)
                      => ver \in [Objects -> T]
      OBVIOUS
    <3> QED BY <1>1, <2>6, <2>7, <3>1 DEF ProjectionInv, Shapes
  <2>9. Cardinality(call) <= 1 /\ (answer => call # {})
    <3>1. CASE call = {} BY <1>1, <3>1, FS_EmptySet DEF ProjectionInv, Shapes
    <3>2. CASE call # {}
      <4>1. PICK b : b \in call BY <3>2
      <4>2. call = {b} BY <1>1, <4>1 DEF ProjectionInv, Shapes
      <4>3. Cardinality(call) = 1 BY <4>2, FS_Singleton
      <4> QED BY <3>2, <4>3
    <3> QED BY <3>1, <3>2
  <2> QED BY <2>1, <2>8, <2>9 DEF TypeOK
<1> QED BY <1>1, Invariant, PTL

\* Once the outbox no longer holds a message, central management shows its
\* latest state, whatever receipts were lost, late or repeated.
THEOREM ChangesReachCentral == ASSUME KindsApart PROVE Spec => []NoChangeLost
<1>1. ASSUME KindsApart, ProjectionInv PROVE NoChangeLost
  <2> SUFFICES ASSUME NEW m \in Messages, outbox[m] = NoEntry PROVE view[m] = gen[m]
    BY DEF NoChangeLost
  <2>1. m \in Objects /\ m \notin Logs BY <1>1, Kinds
  <2>2. Last(m) = ver[m] /\ ~Gone(m) BY <2>1 DEF Last, Gone
  <2> QED BY <1>1, <2>1, <2>2 DEF ProjectionInv, LastSaid, ShownVersion
<1> QED BY <1>1, Invariant, PTL

\* The same for transcripts, once their message is synchronized.
THEOREM TranscriptsReachCentral == ASSUME KindsApart PROVE Spec => []NoTranscriptLost
<1>1. ASSUME KindsApart, ProjectionInv PROVE NoTranscriptLost
  <2> SUFFICES ASSUME NEW l \in Logs, outbox[l] = NoEntry, outbox[Owner[l]] = NoEntry
               PROVE  view[l] = gen[l]
    BY DEF NoTranscriptLost
  <2>1. l \in Objects /\ Last(l) = ver[l] /\ Last(Owner[l]) = ver[Owner[l]]
    BY <1>1, Kinds DEF Last
  <2>2. Gone(l) <=> ver[Owner[l]].deleted BY <2>1 DEF Gone
  <2> QED BY <1>1, <2>1, <2>2 DEF ProjectionInv, LastSaid, ShownVersion
<1> QED BY <1>1, Invariant, PTL

\* Nothing of a deleted message is shown again, whatever batch arrives late.
THEOREM DeletionsFinal == ASSUME KindsApart PROVE Spec => []DeletedStaysDeleted
<1>1. ProjectionInv => DeletedStaysDeleted
  BY DEF ProjectionInv, ShownVersion, DeletedStaysDeleted
<1> QED BY <1>1, Invariant, PTL

\* ingest_batch refuses a batch only when the node is revoked, so the outbox is
\* never stuck behind an entry.
THEOREM BatchesAccepted == ASSUME KindsApart PROVE Spec => []NeverRefused
<1>1. ASSUME KindsApart, ProjectionInv PROVE NeverRefused
  BY <1>1, Accepted DEF NeverRefused
<1> QED BY <1>1, Invariant, PTL
=============================================================================
