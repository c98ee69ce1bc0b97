------------------------- MODULE SmtpSessionProofs --------------------------
(***************************************************************************)
(* TLAPS proofs about SmtpSession, for any number of connections, clients, *)
(* recipients, transactions and revisions and any limits.                  *)
(***************************************************************************)
EXTENDS SmtpSession, FiniteSetTheorems, TLAPS

-----------------------------------------------------------------------------
(* The inductive invariant                                                  *)

Named == [to : Recipients, config : Nat, encrypted : BOOLEAN]

\* The local variables of an open session.
Locals ==
    [phase : {"prompt", "data", "scan"}, peer : Peers, helo : {"none", "helo", "ehlo"},
     encrypted : BOOLEAN, from : BOOLEAN, recipients : SUBSET Named, config : Nat,
     engine : Nat, charged : BOOLEAN, reputation : Nat, reports : SUBSET Nat, mail : Nat,
     limited : BOOLEAN]

Messages == [engine : Nat, recipients : SUBSET Named, limited : BOOLEAN,
             reports : SUBSET Nat, mail : Nat, encrypted : BOOLEAN]

Shapes ==
    /\ session \in [Sessions -> Locals \cup {Closed}]
    /\ slots \in Nat /\ processing \in Nat /\ counts \in [Peers -> Nat]
    /\ policy \in Nat /\ ready \in BOOLEAN /\ queued \subseteq Messages

\* A transaction is open, or its message is being received or analysed.
Busy(r) == r.from \/ r.phase # "prompt"

\* A transaction runs under the revision and over the channel its recipients were
\* named under, with the reports of its own peer check; outside of one there is no
\* recipient and no engine, and admission's refusal never meets an open one.
Consistent(r) ==
    /\ \A a \in r.recipients : a.config = r.config /\ a.encrypted = r.encrypted
    /\ r.reputation \in {0, r.mail} /\ r.reports \subseteq {r.mail}
    /\ IF Busy(r) THEN r.engine = r.config /\ ~r.limited
                  ELSE r.engine = 0 /\ r.recipients = {}

SessionsKept == \A s \in Sessions : Open(s) => Consistent(session[s])

MessagesKept ==
    OneRevisionPerMessage /\ EnvelopeOverOneChannel /\ OverLimitIsRefused /\ ReportsOfTheMessage

OpenOnes   == {s \in Sessions : Open(s)}
OpenFrom(p) == {s \in Sessions : Open(s) /\ session[s].peer = p}
Receiving  == {s \in Sessions : InData(s)}

PermitsKept == IsFiniteSet(OpenOnes) /\ NothingLeaks

SessionInv == Shapes /\ SessionsKept /\ MessagesKept /\ PermitsKept

-----------------------------------------------------------------------------
(* What a step does to its session                                          *)

\* Closed has no other field, so it is no open session.
LEMMA ClosedApart == /\ \A r \in Locals : r # Closed /\ r.phase # "closed"
                     /\ Closed.phase = "closed"
BY DEF Locals, Closed

\* An open session has all its variables.
LEMMA OpenLocals ==
    ASSUME Shapes, NEW s \in Sessions
    PROVE  Open(s) <=> session[s] \in Locals
BY ClosedApart DEF Shapes, Open

\* Sessions other than s are left alone.
LEMMA OneSession ==
    ASSUME SessionInv, NEW s \in Sessions, NEW r \in Locals \cup {Closed},
           session' = [session EXCEPT ![s] = r], r \in Locals => Consistent(r)
    PROVE  session' \in [Sessions -> Locals \cup {Closed}] /\ SessionsKept'
<1>1. session \in [Sessions -> Locals \cup {Closed}] BY DEF SessionInv, Shapes
<1>2. session' \in [Sessions -> Locals \cup {Closed}] BY <1>1
<1>3. ASSUME NEW t \in Sessions, Open(t)' PROVE Consistent(session[t])'
  <2>1. CASE t = s
    <3>1. session'[t] = r BY <1>1, <2>1
    <3>2. r.phase # "closed" BY <1>3, <3>1 DEF Open
    <3>3. r \in Locals BY <3>2, ClosedApart
    <3> QED BY <3>1, <3>3 DEF Consistent, Busy
  <2>2. CASE t # s
    <3>1. session'[t] = session[t] BY <1>1, <2>2
    <3>2. Consistent(session[t]) BY <1>3, <3>1 DEF Open, SessionInv, SessionsKept
    <3> QED BY <3>1, <3>2 DEF Consistent, Busy
  <2> QED BY <2>1, <2>2
<1> QED BY <1>2, <1>3 DEF SessionsKept

\* What a message would be is consistent when its session is.
LEMMA MessageGood ==
    ASSUME SessionInv, NEW s \in Sessions, Open(s), session[s].phase = "scan",
           queued' = {Message(s)}
    PROVE  queued' \subseteq Messages /\ MessagesKept'
<1>1. session[s] \in Locals BY OpenLocals DEF SessionInv
<1>2. Consistent(session[s]) BY DEF SessionInv, SessionsKept
<1>3. Message(s) \in Messages BY <1>1 DEF Message, Messages, Locals
<1>4. \A m \in queued' : m = Message(s) OBVIOUS
<1> QED
  BY <1>1, <1>2, <1>3, <1>4
     DEF Message, Messages, Consistent, Busy, MessagesKept, OneRevisionPerMessage,
         EnvelopeOverOneChannel, OverLimitIsRefused, ReportsOfTheMessage

LEMMA MessagesSame == ASSUME MessagesKept, queued' = queued PROVE MessagesKept'
BY DEF MessagesKept, OneRevisionPerMessage, EnvelopeOverOneChannel, OverLimitIsRefused,
       ReportsOfTheMessage
-----------------------------------------------------------------------------
(* Permits                                                                  *)

\* How the sets that permits count change when s becomes r.
LEMMA SetsAfter ==
    ASSUME SessionInv, NEW s \in Sessions, NEW r \in Locals \cup {Closed},
           session' = [session EXCEPT ![s] = r]
    PROVE  /\ OpenOnes' = IF r = Closed THEN OpenOnes \ {s} ELSE OpenOnes \cup {s}
           /\ \A p \in Peers :
                OpenFrom(p)' = IF r \in Locals /\ r.peer = p THEN OpenFrom(p) \cup {s}
                                                             ELSE OpenFrom(p) \ {s}
           /\ Receiving' = IF r.phase \in {"data", "scan"} THEN Receiving \cup {s}
                                                          ELSE Receiving \ {s}
<1>1. session \in [Sessions -> Locals \cup {Closed}] BY DEF SessionInv, Shapes
<1>2. \A t \in Sessions : session'[t] = IF t = s THEN r ELSE session[t] BY <1>1
<1>3. r # Closed <=> r.phase # "closed" BY ClosedApart
<1>4. r # Closed <=> r \in Locals BY ClosedApart
<1>5. OpenOnes' = {t \in Sessions : session'[t].phase # "closed"} BY DEF OpenOnes, Open
<1>6. \A p \in Peers : OpenFrom(p)' = {t \in Sessions : session'[t].phase # "closed"
                                                     /\ session'[t].peer = p}
  BY DEF OpenFrom, Open
<1>7. Receiving' = {t \in Sessions : session'[t].phase \in {"data", "scan"}}
  BY DEF Receiving, InData
<1>8. OpenOnes' = IF r = Closed THEN OpenOnes \ {s} ELSE OpenOnes \cup {s}
  BY <1>2, <1>3, <1>5 DEF OpenOnes, Open
<1>9. ASSUME NEW p \in Peers
      PROVE  OpenFrom(p)' = IF r \in Locals /\ r.peer = p THEN OpenFrom(p) \cup {s}
                                                          ELSE OpenFrom(p) \ {s}
  BY <1>2, <1>3, <1>4, <1>6 DEF OpenFrom, Open
<1>10. Receiving' = IF r.phase \in {"data", "scan"} THEN Receiving \cup {s}
                                                   ELSE Receiving \ {s}
  BY <1>2, <1>7 DEF Receiving, InData
<1> QED BY <1>8, <1>9, <1>10

\* What is counted is finite.
LEMMA FinitelyMany ==
    ASSUME SessionInv
    PROVE  /\ IsFiniteSet(OpenOnes) /\ IsFiniteSet(Receiving)
           /\ \A p \in Peers : IsFiniteSet(OpenFrom(p))
           /\ slots = Cardinality(OpenOnes) /\ processing = Cardinality(Receiving)
           /\ \A p \in Peers : counts[p] = Cardinality(OpenFrom(p))
           /\ incoming = Receiving
<1>1. IsFiniteSet(OpenOnes) BY DEF SessionInv, PermitsKept
<1>2. Receiving \subseteq OpenOnes BY DEF Receiving, OpenOnes, InData, Open
<1>3. \A p \in Peers : OpenFrom(p) \subseteq OpenOnes BY DEF OpenFrom, OpenOnes
<1>4. IsFiniteSet(Receiving) BY <1>1, <1>2, FS_Subset
<1>5. \A p \in Peers : IsFiniteSet(OpenFrom(p)) BY <1>1, <1>3, FS_Subset
<1> QED
  BY <1>1, <1>4, <1>5
     DEF SessionInv, PermitsKept, NothingLeaks, OpenOnes, OpenFrom, Receiving

LEMMA PermitsAgain ==
    ASSUME IsFiniteSet(OpenOnes'), slots' = Cardinality(OpenOnes'),
           incoming' = Receiving', processing' = Cardinality(Receiving'),
           \A p \in Peers : counts'[p] = Cardinality(OpenFrom(p)')
    PROVE  PermitsKept'
BY DEF PermitsKept, NothingLeaks, OpenOnes, OpenFrom, Receiving

\* A session that goes on stays counted.
LEMMA GoesOn ==
    ASSUME SessionInv, NEW s \in Sessions, NEW r \in Locals,
           session' = [session EXCEPT ![s] = r], Open(s), r.peer = session[s].peer
    PROVE  /\ OpenOnes' = OpenOnes /\ \A p \in Peers : OpenFrom(p)' = OpenFrom(p)
           /\ Receiving' = IF r.phase \in {"data", "scan"} THEN Receiving \cup {s}
                                                          ELSE Receiving \ {s}
<1>1. r # Closed /\ r \in Locals \cup {Closed} BY ClosedApart
<1>2. s \in OpenOnes BY DEF OpenOnes
<1>3. /\ OpenOnes' = OpenOnes \cup {s}
      /\ \A p \in Peers : OpenFrom(p)' = IF r.peer = p THEN OpenFrom(p) \cup {s}
                                                       ELSE OpenFrom(p) \ {s}
      /\ Receiving' = IF r.phase \in {"data", "scan"} THEN Receiving \cup {s}
                                                     ELSE Receiving \ {s}
  BY <1>1, SetsAfter
<1>4. OpenOnes' = OpenOnes BY <1>2, <1>3
<1>5. ASSUME NEW p \in Peers PROVE OpenFrom(p)' = OpenFrom(p)
  <2>1. s \in OpenFrom(p) <=> r.peer = p BY DEF OpenFrom
  <2>2. OpenFrom(p)' = IF r.peer = p THEN OpenFrom(p) \cup {s} ELSE OpenFrom(p) \ {s}
    BY <1>3
  <2> QED BY <2>1, <2>2
<1> QED BY <1>3, <1>4, <1>5

\* A command that neither begins nor ends DATA.
LEMMA PermitsSame ==
    ASSUME SessionInv, NEW s \in Sessions, NEW r \in Locals,
           session' = [session EXCEPT ![s] = r], Open(s), r.peer = session[s].peer,
           InData(s) <=> r.phase \in {"data", "scan"},
           UNCHANGED <<slots, counts, processing, incoming>>
    PROVE  PermitsKept'
<1>1. /\ OpenOnes' = OpenOnes /\ \A p \in Peers : OpenFrom(p)' = OpenFrom(p)
      /\ Receiving' = IF r.phase \in {"data", "scan"} THEN Receiving \cup {s}
                                                     ELSE Receiving \ {s}
  BY GoesOn
<1>2. s \in Receiving <=> r.phase \in {"data", "scan"} BY DEF Receiving
<1>3. Receiving' = Receiving BY <1>1, <1>2
<1> QED BY <1>1, <1>3, FinitelyMany, PermitsAgain

\* DATA takes a permit and a file.
LEMMA PermitsTaken ==
    ASSUME SessionInv, NEW s \in Sessions, NEW r \in Locals,
           session' = [session EXCEPT ![s] = r], Open(s), r.peer = session[s].peer,
           ~InData(s), r.phase = "data", UNCHANGED <<slots, counts>>,
           processing' = processing + 1, incoming' = incoming \cup {s}
    PROVE  PermitsKept'
<1>1. /\ OpenOnes' = OpenOnes /\ \A p \in Peers : OpenFrom(p)' = OpenFrom(p)
      /\ Receiving' = Receiving \cup {s}
  BY GoesOn
<1>2. s \notin Receiving BY DEF Receiving
<1>3. Cardinality(Receiving') = Cardinality(Receiving) + 1
  BY <1>1, <1>2, FinitelyMany, FS_AddElement
<1> QED BY <1>1, <1>3, FinitelyMany, PermitsAgain

\* DropData releases what DATA took, if anything.
LEMMA DataReleased ==
    ASSUME SessionInv, NEW s \in Sessions, DropData(s), Receiving' = Receiving \ {s}
    PROVE  incoming' = Receiving' /\ processing' = Cardinality(Receiving')
<1>1. s \in Receiving <=> InData(s) BY DEF Receiving
<1>2. IsFiniteSet(Receiving) /\ processing = Cardinality(Receiving) /\ incoming = Receiving
  BY FinitelyMany
<1>3. CASE InData(s)
  <2>1. Cardinality(Receiving \ {s}) = Cardinality(Receiving) - 1
    BY <1>1, <1>2, <1>3, FS_RemoveElement
  <2> QED BY <1>2, <1>3, <2>1 DEF DropData
<1>4. CASE ~InData(s)
  <2>1. Receiving \ {s} = Receiving BY <1>1, <1>4
  <2> QED BY <1>2, <1>4, <2>1 DEF DropData
<1> QED BY <1>3, <1>4

\* The session goes on after DATA.
LEMMA PermitsReleased ==
    ASSUME SessionInv, NEW s \in Sessions, NEW r \in Locals,
           session' = [session EXCEPT ![s] = r], Open(s), r.peer = session[s].peer,
           r.phase = "prompt", UNCHANGED <<slots, counts>>, DropData(s)
    PROVE  PermitsKept'
<1>1. /\ OpenOnes' = OpenOnes /\ \A p \in Peers : OpenFrom(p)' = OpenFrom(p)
      /\ Receiving' = Receiving \ {s}
  BY GoesOn
<1>2. incoming' = Receiving' /\ processing' = Cardinality(Receiving')
  BY <1>1, DataReleased
<1> QED BY <1>1, <1>2, FinitelyMany, PermitsAgain

\* A new connection has no transaction.
LEMMA NewSession ==
    ASSUME SessionInv, NEW s \in Sessions, NEW p \in Peers, Accept(s, p)
    PROVE  \E r \in Locals : /\ session' = [session EXCEPT ![s] = r] /\ r.peer = p
                              /\ r.phase = "prompt" /\ Consistent(r)
<1> DEFINE r == [phase |-> "prompt", peer |-> p, helo |-> "none", encrypted |-> FALSE,
          from |-> FALSE, recipients |-> {}, config |-> policy, engine |-> 0,
          charged |-> FALSE, reputation |-> 0, reports |-> {}, mail |-> 0, limited |-> FALSE]
<1>1. policy \in Nat BY DEF SessionInv, Shapes
<1>2. r \in Locals BY <1>1 DEF Locals, Named
<1>3. Consistent(r) BY DEF Consistent, Busy
<1>4. session' = [session EXCEPT ![s] = r] BY DEF Accept
<1> QED BY <1>2, <1>3, <1>4

\* serve_controlled counts a connection in.
LEMMA AcceptPermits ==
    ASSUME SessionInv, NEW s \in Sessions, NEW p \in Peers, Accept(s, p)
    PROVE  PermitsKept'
<1>1. PICK r \in Locals : /\ session' = [session EXCEPT ![s] = r] /\ r.peer = p
                          /\ r.phase = "prompt"
  BY NewSession
<1>2. r # Closed /\ r \in Locals \cup {Closed} BY ClosedApart
<1>3. /\ s \notin OpenOnes /\ s \notin Receiving /\ \A q \in Peers : s \notin OpenFrom(q)
  BY DEF Accept, OpenOnes, Receiving, OpenFrom, InData, Open
<1>4. /\ OpenOnes' = OpenOnes \cup {s}
      /\ \A q \in Peers : OpenFrom(q)' = IF p = q THEN OpenFrom(q) \cup {s}
                                                 ELSE OpenFrom(q) \ {s}
      /\ Receiving' = Receiving \ {s}
  BY <1>1, <1>2, SetsAfter
<1>5. Receiving' = Receiving BY <1>3, <1>4
<1>6. IsFiniteSet(OpenOnes') /\ Cardinality(OpenOnes') = slots'
  BY <1>3, <1>4, FinitelyMany, FS_AddElement DEF Accept
<1>7. ASSUME NEW q \in Peers PROVE counts'[q] = Cardinality(OpenFrom(q)')
  <2>1. counts \in [Peers -> Nat] BY DEF SessionInv, Shapes
  <2>2. counts' = [counts EXCEPT ![p] = @ + 1] BY DEF Accept
  <2>3. CASE p = q
    <3>1. OpenFrom(q)' = OpenFrom(q) \cup {s} BY <1>4, <2>3
    <3>2. Cardinality(OpenFrom(q) \cup {s}) = Cardinality(OpenFrom(q)) + 1
      BY <1>3, FinitelyMany, FS_AddElement
    <3>3. counts'[q] = counts[q] + 1 BY <2>1, <2>2, <2>3
    <3> QED BY <3>1, <3>2, <3>3, FinitelyMany
  <2>4. CASE p # q
    <3>1. OpenFrom(q)' = OpenFrom(q) BY <1>3, <1>4, <2>4
    <3>2. counts'[q] = counts[q] BY <2>1, <2>2, <2>4
    <3> QED BY <3>1, <3>2, FinitelyMany
  <2> QED BY <2>3, <2>4
<1>8. UNCHANGED <<processing, incoming>> BY DEF Accept
<1> QED BY <1>5, <1>6, <1>7, <1>8, FinitelyMany, PermitsAgain

\* However a session ends, it is counted out.
LEMMA EndPermits ==
    ASSUME SessionInv, NEW s \in Sessions, End(s)
    PROVE  PermitsKept'
<1>1. session' = [session EXCEPT ![s] = Closed] /\ Closed \in Locals \cup {Closed}
  BY DEF End
<1>2. PICK p \in Peers : p = session[s].peer
  <2>1. session[s] \in Locals BY OpenLocals DEF End, SessionInv
  <2> QED BY <2>1 DEF Locals
<1>3. /\ s \in OpenOnes /\ \A q \in Peers : s \in OpenFrom(q) <=> q = p
  BY <1>2 DEF End, OpenOnes, OpenFrom
<1>4. /\ OpenOnes' = OpenOnes \ {s} /\ \A q \in Peers : OpenFrom(q)' = OpenFrom(q) \ {s}
      /\ Receiving' = Receiving \ {s}
  BY <1>1, SetsAfter, ClosedApart
<1>5. incoming' = Receiving' /\ processing' = Cardinality(Receiving')
  BY <1>4, DataReleased DEF End
<1>6. IsFiniteSet(OpenOnes') /\ Cardinality(OpenOnes') = slots'
  BY <1>3, <1>4, FinitelyMany, FS_RemoveElement DEF End
<1>7. ASSUME NEW q \in Peers PROVE counts'[q] = Cardinality(OpenFrom(q)')
  <2>1. counts \in [Peers -> Nat] BY DEF SessionInv, Shapes
  <2>2. counts' = [counts EXCEPT ![p] = @ - 1] BY <1>2 DEF End
  <2>3. CASE p = q
    <3>1. OpenFrom(q)' = OpenFrom(q) \ {s} BY <1>4
    <3>2. Cardinality(OpenFrom(q) \ {s}) = Cardinality(OpenFrom(q)) - 1
      BY <1>3, <2>3, FinitelyMany, FS_RemoveElement
    <3>3. counts'[q] = counts[q] - 1 BY <2>1, <2>2, <2>3
    <3> QED BY <3>1, <3>2, <3>3, FinitelyMany
  <2>4. CASE p # q
    <3>1. OpenFrom(q)' = OpenFrom(q) BY <1>3, <1>4, <2>4
    <3>2. counts'[q] = counts[q] BY <2>1, <2>2, <2>4
    <3> QED BY <3>1, <3>2, FinitelyMany
  <2> QED BY <2>3, <2>4
<1> QED BY <1>5, <1>6, <1>7, PermitsAgain

-----------------------------------------------------------------------------
(* The steps                                                                *)

\* The top of the command loop.
LEMMA Prompted ==
    ASSUME NEW r \in Locals
    PROVE  /\ Prompt(r) \in Locals /\ Prompt(r).phase = "prompt" /\ Prompt(r).peer = r.peer
           /\ Prompt(r).from = r.from
BY DEF Prompt, Locals

\* A command leaves its transaction consistent.
LEMMA Commanded ==
    ASSUME SessionInv, NEW s \in Sessions, At(s), NEW r \in Locals,
           r.peer = session[s].peer, Consistent(Prompt(r)), Answered(s, r),
           UNCHANGED <<processing, incoming, queued>>
    PROVE  SessionInv'
<1>1. Prompt(r) \in Locals /\ Prompt(r).phase = "prompt" /\ Prompt(r).peer = session[s].peer
  BY Prompted
<1>2. session' = [session EXCEPT ![s] = Prompt(r)] /\ UNCHANGED <<slots, counts, policy, ready>>
  BY DEF Answered
<1>3. session' \in [Sessions -> Locals \cup {Closed}] /\ SessionsKept'
  BY <1>1, <1>2, OneSession
<1>4. Shapes' BY <1>2, <1>3 DEF SessionInv, Shapes
<1>5. MessagesKept' BY MessagesSame DEF SessionInv
<1>6. Open(s) /\ ~InData(s) BY DEF At, InData
<1>7. PermitsKept' BY <1>1, <1>2, <1>6, PermitsSame
<1> QED BY <1>3, <1>4, <1>5, <1>7 DEF SessionInv

\* The variables of a session that waits for a command.
LEMMA Waiting ==
    ASSUME SessionInv, NEW s \in Sessions, At(s)
    PROVE  /\ session[s] \in Locals /\ Consistent(session[s]) /\ session[s].phase = "prompt"
           /\ policy \in Nat
BY OpenLocals DEF SessionInv, SessionsKept, Shapes, At

LEMMA ResetGood ==
    ASSUME NEW r \in Locals, Consistent(r)
    PROVE  Reset(r) \in Locals /\ Reset(r).peer = r.peer /\ Consistent(Prompt(Reset(r)))
<1>1. Reset(r) \in Locals BY DEF Reset, Locals
<1>2. Consistent(Prompt(Reset(r))) BY DEF Reset, Locals, Prompt, Consistent, Busy
<1> QED BY <1>1, <1>2 DEF Reset, Locals

LEMMA GreetingStep ==
    ASSUME SessionInv, NEW s \in Sessions, Greeting(s) \/ StartTls(s) \/ Rset(s) \/ RefuseData(s)
    PROVE  SessionInv'
<1>0. At(s) BY DEF Greeting, StartTls, Rset, RefuseData
<1>1. session[s] \in Locals /\ Consistent(session[s]) BY <1>0, Waiting
<1>2. CASE Greeting(s)
  <2>1. PICK h \in {"helo", "ehlo"} : Answered(s, [Reset(session[s]) EXCEPT !.helo = h])
    BY <1>2 DEF Greeting
  <2>2. PICK r : r = [Reset(session[s]) EXCEPT !.helo = h] OBVIOUS
  <2>3. r \in Locals /\ r.peer = session[s].peer BY <1>1, <2>2 DEF Reset, Locals
  <2>4. Consistent(Prompt(r)) BY <1>1, <2>2 DEF Reset, Locals, Prompt, Consistent, Busy
  <2> QED BY <1>0, <1>2, <2>1, <2>2, <2>3, <2>4, Commanded DEF Greeting
<1>3. CASE StartTls(s)
  <2>2. PICK r : r = Secured(session[s]) OBVIOUS
  <2>3. r \in Locals /\ r.peer = session[s].peer BY <1>1, <2>2 DEF Secured, Reset, Locals
  <2>4. Consistent(Prompt(r)) BY <1>1, <2>2 DEF Secured, Reset, Locals, Prompt, Consistent, Busy
  <2> QED BY <1>0, <1>3, <2>2, <2>3, <2>4, Commanded DEF StartTls
<1>4. CASE Rset(s) \/ RefuseData(s)
  <2>1. Answered(s, Reset(session[s])) /\ UNCHANGED <<processing, incoming, queued>>
    BY <1>4 DEF Rset, RefuseData
  <2> QED BY <1>0, <1>1, <2>1, ResetGood, Commanded
<1> QED BY <1>2, <1>3, <1>4

\* MAIL: the revision is read only without a transaction, when nobody is named.
LEMMA MailStep ==
    ASSUME SessionInv, NEW s \in Sessions, Mail(s) \/ RefuseMail(s)
    PROVE  SessionInv'
<1>0. At(s) BY DEF Mail, RefuseMail
<1>1. /\ session[s] \in Locals /\ Consistent(session[s]) /\ session[s].phase = "prompt"
      /\ policy \in Nat
  BY <1>0, Waiting
<1>2. CASE Mail(s)
  <2>0. PICK q : q = Snapshot(session[s]) OBVIOUS
  <2>1. PICK r : r = Begun(q) OBVIOUS
  <2>2. r \in Locals /\ r.peer = session[s].peer
    <3>1. q \in Locals /\ q.peer = session[s].peer
      BY <1>1, <1>2, <2>0 DEF Mail, Snapshot, Locals
    <3>2. PICK k \in Nat : k = q.mail + 1 BY <3>1 DEF Locals
    <3>3. r = [q EXCEPT !.from = TRUE, !.recipients = {}, !.mail = k, !.limited = FALSE,
                        !.charged = FALSE, !.reputation = 0, !.reports = {}]
      BY <2>1, <3>2 DEF Begun
    <3> QED BY <3>1, <3>2, <3>3 DEF Locals
  <2>3. Consistent(Prompt(r))
    BY <1>1, <1>2, <2>0, <2>1 DEF Mail, Begun, Snapshot, Locals, Prompt, Consistent, Busy
  <2> QED BY <1>0, <1>2, <2>0, <2>1, <2>2, <2>3, Commanded DEF Mail
<1>3. CASE RefuseMail(s)
  <2>1. PICK r : r = Snapshot(session[s]) OBVIOUS
  <2>2. r \in Locals /\ r.peer = session[s].peer
    <3>1. CASE session[s].from BY <1>1, <2>1, <3>1 DEF Snapshot
    <3>2. CASE ~session[s].from BY <1>1, <2>1, <3>2 DEF Snapshot, Locals
    <3> QED BY <3>1, <3>2
  <2>3. Consistent(Prompt(r))
    BY <1>1, <2>1 DEF Snapshot, Locals, Prompt, Consistent, Busy
  <2> QED BY <1>0, <1>3, <2>1, <2>2, <2>3, Commanded DEF RefuseMail
<1> QED BY <1>2, <1>3

\* RCPT: the reports are those of this transaction's check of the peer.
LEMMA RcptStep ==
    ASSUME SessionInv, NEW s \in Sessions, NEW a \in Recipients, Rcpt(s, a)
    PROVE  SessionInv'
<1>0. At(s) /\ session[s].from /\ UNCHANGED <<processing, incoming, queued>> BY DEF Rcpt
<1>1. session[s] \in Locals /\ Consistent(session[s]) BY <1>0, Waiting
<1>2. PICK c : c = Checked(session[s]) OBVIOUS
<1>3. /\ c \in Locals /\ c.peer = session[s].peer /\ c.reputation = c.mail /\ c.from
      /\ Consistent(c)
  BY <1>0, <1>1, <1>2 DEF Checked, Locals, Consistent, Busy
<1>4. CASE Answered(s, OverLimit(c))
  <2>1. PICK r : r = OverLimit(c) OBVIOUS
  <2>2. r \in Locals /\ r.peer = session[s].peer BY <1>3, <2>1 DEF OverLimit, Reset, Locals
  <2>3. Consistent(Prompt(r))
    BY <1>3, <2>1 DEF OverLimit, Reset, Locals, Prompt, Consistent, Busy
  <2> QED BY <1>0, <1>4, <2>1, <2>2, <2>3, Commanded
<1>5. CASE Answered(s, c)
  <2>1. Consistent(Prompt(c)) BY <1>3 DEF Locals, Prompt, Consistent, Busy
  <2> QED BY <1>0, <1>3, <1>5, <2>1, Commanded
<1>6. CASE Answered(s, Accepted([c EXCEPT !.reports = @ \cup {c.reputation}], a))
  <2>0. PICK n : n = [to |-> a, config |-> c.config, encrypted |-> c.encrypted] OBVIOUS
  <2>1. PICK q : q = [c EXCEPT !.reports = @ \cup {c.reputation}] OBVIOUS
  <2>2. /\ q \in Locals /\ q.peer = session[s].peer /\ q.from /\ Consistent(q)
        /\ q.config = c.config /\ q.encrypted = c.encrypted
    BY <1>3, <2>1 DEF Locals, Consistent, Busy
  <2>3. PICK r : r = [q EXCEPT !.recipients = @ \cup {n}] OBVIOUS
  <2>4. r = Accepted(q, a) BY <2>0, <2>2, <2>3 DEF Accepted
  <2>5. n \in Named /\ n.config = q.config /\ n.encrypted = q.encrypted
    BY <2>0, <1>3, <2>2 DEF Named, Locals
  <2>6. r \in Locals /\ r.peer = session[s].peer BY <2>2, <2>3, <2>5 DEF Locals
  <2>7. Consistent(Prompt(r))
    BY <2>2, <2>3, <2>5 DEF Locals, Prompt, Consistent, Busy
  <2> QED BY <1>0, <1>6, <2>1, <2>4, <2>6, <2>7, Commanded
<1> QED BY <1>2, <1>4, <1>5, <1>6 DEF Rcpt

\* The session goes on after its message; what was queued is consistent.
LEMMA DataEnds ==
    ASSUME SessionInv, NEW s \in Sessions, Open(s), Answered(s, Reset(session[s])),
           DropData(s), queued' \subseteq Messages, MessagesKept'
    PROVE  SessionInv'
<1>1. session[s] \in Locals /\ Consistent(session[s])
  BY OpenLocals DEF SessionInv, SessionsKept
<1>2. PICK r : r = Prompt(Reset(session[s])) OBVIOUS
<1>3. r \in Locals /\ r.phase = "prompt" /\ r.peer = session[s].peer /\ Consistent(r)
  BY <1>1, <1>2, ResetGood, Prompted
<1>4. session' = [session EXCEPT ![s] = r] /\ UNCHANGED <<slots, counts, policy, ready>>
  BY <1>2 DEF Answered
<1>5. session' \in [Sessions -> Locals \cup {Closed}] /\ SessionsKept'
  BY <1>3, <1>4, OneSession
<1>6. PermitsKept' BY <1>3, <1>4, PermitsReleased
<1>7. processing' \in Nat
  <2>1. IsFiniteSet(Receiving \ {s}) BY FinitelyMany, FS_RemoveElement
  <2>2. Receiving' = Receiving \ {s} BY <1>3, <1>4, GoesOn
  <2>3. processing' = Cardinality(Receiving') BY <2>2, DataReleased
  <2> QED BY <2>1, <2>2, <2>3, FS_CardinalityType
<1> QED BY <1>4, <1>5, <1>6, <1>7 DEF SessionInv, Shapes

LEMMA DataStep ==
    ASSUME SessionInv, NEW s \in Sessions, Data(s) \/ Body(s) \/ Scanned(s)
    PROVE  SessionInv'
<1>0. Open(s) /\ session[s] \in Locals /\ Consistent(session[s])
  BY OpenLocals DEF SessionInv, SessionsKept, Data, Body, Scanned, At
<1>1. CASE Data(s)
  <2>1. PICK r : r = [session[s] EXCEPT !.phase = "data"] OBVIOUS
  <2>2. /\ r \in Locals /\ r.peer = session[s].peer /\ r.phase = "data" /\ Consistent(r)
    BY <1>0, <1>1, <2>1 DEF Data, At, Locals, Consistent, Busy
  <2>3. session' = [session EXCEPT ![s] = r] BY <1>1, <2>1 DEF Data
  <2>4. session' \in [Sessions -> Locals \cup {Closed}] /\ SessionsKept'
    BY <2>2, <2>3, OneSession
  <2>5. PermitsKept' BY <1>0, <1>1, <2>2, <2>3, PermitsTaken DEF Data, At, InData
  <2>6. Shapes' BY <1>1, <2>4 DEF Data, SessionInv, Shapes
  <2>7. MessagesKept' BY <1>1, MessagesSame DEF Data, SessionInv
  <2> QED BY <2>4, <2>5, <2>6, <2>7 DEF SessionInv
<1>2. ASSUME Body(s), Answered(s, Reset(session[s])), DropData(s) PROVE SessionInv'
  <2>1. queued' = queued BY <1>2 DEF Body
  <2>2. queued' \subseteq Messages /\ MessagesKept'
    BY <2>1, MessagesSame DEF SessionInv, Shapes
  <2> QED BY <1>0, <1>2, <2>2, DataEnds
<1>3. ASSUME Body(s), session' = [session EXCEPT ![s].phase = "scan", ![s].from = FALSE],
             UNCHANGED <<slots, counts, processing, incoming, policy, ready>>
      PROVE  SessionInv'
  <2>1. PICK r : r = [session[s] EXCEPT !.phase = "scan", !.from = FALSE] OBVIOUS
  <2>2. session[s].phase = "data" /\ queued' = queued BY <1>3 DEF Body
  <2>3. /\ r \in Locals /\ r.peer = session[s].peer /\ r.phase = "scan" /\ Consistent(r)
    BY <1>0, <2>1, <2>2 DEF Locals, Consistent, Busy
  <2>4. session' = [session EXCEPT ![s] = r]
    BY <1>3, <2>1 DEF SessionInv, Shapes
  <2>5. session' \in [Sessions -> Locals \cup {Closed}] /\ SessionsKept'
    BY <2>3, <2>4, OneSession
  <2>6. PermitsKept' BY <1>0, <1>3, <2>2, <2>3, <2>4, PermitsSame DEF InData
  <2>7. Shapes' BY <1>3, <2>2, <2>5 DEF SessionInv, Shapes
  <2>8. MessagesKept' BY <2>2, MessagesSame DEF SessionInv
  <2> QED BY <2>5, <2>6, <2>7, <2>8 DEF SessionInv
<1>4. CASE Scanned(s)
  <2>1. queued' = queued \/ queued' = {Message(s)} BY <1>4 DEF Scanned
  <2>2. queued' \subseteq Messages /\ MessagesKept'
    BY <1>0, <1>4, <2>1, MessagesSame, MessageGood DEF Scanned, SessionInv, Shapes
  <2> QED BY <1>0, <1>4, <2>2, DataEnds DEF Scanned
<1> QED BY <1>1, <1>2, <1>3, <1>4 DEF Body

\* Connections come and go.
LEMMA ListenerStep ==
    ASSUME SessionInv, NEW s \in Sessions, (\E p \in Peers : Accept(s, p)) \/ End(s)
    PROVE  SessionInv'
<1>1. ASSUME NEW p \in Peers, Accept(s, p) PROVE SessionInv'
  <2>1. PICK r \in Locals : session' = [session EXCEPT ![s] = r] /\ Consistent(r)
    BY <1>1, NewSession
  <2>2. session' \in [Sessions -> Locals \cup {Closed}] /\ SessionsKept' BY <2>1, OneSession
  <2>3. PermitsKept' BY <1>1, AcceptPermits
  <2>4. Shapes' BY <1>1, <2>2 DEF Accept, SessionInv, Shapes
  <2>5. MessagesKept' BY <1>1, MessagesSame DEF Accept, SessionInv
  <2> QED BY <2>2, <2>3, <2>4, <2>5 DEF SessionInv
<1>2. CASE End(s)
  <2>1. session' \in [Sessions -> Locals \cup {Closed}] /\ SessionsKept'
    BY <1>2, OneSession, ClosedApart DEF End
  <2>2. PermitsKept' BY <1>2, EndPermits
  <2>3. queued' = queued \/ (session[s].phase = "scan" /\ queued' = {Message(s)})
    BY <1>2 DEF End
  <2>4. queued' \subseteq Messages /\ MessagesKept'
    BY <1>2, <2>3, MessagesSame, MessageGood DEF End, SessionInv, Shapes
  <2>5. slots' \in Nat /\ processing' \in Nat
    <3>1. IsFiniteSet(OpenOnes') /\ slots' = Cardinality(OpenOnes')
          /\ processing' = Cardinality(incoming') /\ incoming' = Receiving'
      BY <2>2 DEF PermitsKept, NothingLeaks, OpenOnes, Receiving
    <3>2. Receiving' \subseteq OpenOnes' BY DEF Receiving, OpenOnes, InData, Open
    <3> QED BY <3>1, <3>2, FS_Subset, FS_CardinalityType
  <2>6. counts' \in [Peers -> Nat]
    <3>1. IsFiniteSet(OpenOnes') /\ \A p \in Peers : counts'[p] = Cardinality(OpenFrom(p)')
      BY <2>2 DEF PermitsKept, NothingLeaks, OpenFrom
    <3>2. \A p \in Peers : OpenFrom(p)' \subseteq OpenOnes' BY DEF OpenFrom, OpenOnes
    <3>3. \A p \in Peers : counts'[p] \in Nat BY <3>1, <3>2, FS_Subset, FS_CardinalityType
    <3>4. DOMAIN counts' = Peers /\ counts' = [p \in Peers |-> counts'[p]]
      BY <1>2 DEF End, SessionInv, Shapes
    <3> QED BY <3>3, <3>4
  <2>7. Shapes' BY <1>2, <2>1, <2>4, <2>5, <2>6 DEF End, SessionInv, Shapes
  <2> QED BY <2>1, <2>2, <2>4, <2>7 DEF SessionInv
<1> QED BY <1>1, <1>2

LEMMA SessionsUnchanged ==
    ASSUME SessionInv, UNCHANGED <<session, slots, counts, processing, incoming, queued>>,
           policy' \in Nat, ready' \in BOOLEAN
    PROVE  SessionInv'
<1>1. Shapes' BY DEF SessionInv, Shapes
<1>2. SessionsKept' BY DEF SessionInv, SessionsKept, Open, Consistent, Busy
<1>3. MessagesKept' BY MessagesSame DEF SessionInv
<1>4. PermitsKept'
  BY DEF SessionInv, PermitsKept, NothingLeaks, OpenOnes, Open, InData
<1> QED BY <1>1, <1>2, <1>3, <1>4 DEF SessionInv

LEMMA InvInit == Init => SessionInv
<1> SUFFICES ASSUME Init PROVE SessionInv OBVIOUS
<1>1. \A s \in Sessions : ~Open(s) /\ ~InData(s)
  BY ClosedApart DEF Init, Open, InData, Closed
<1>2. {s \in Sessions : Open(s)} = {} /\ {s \in Sessions : InData(s)} = {}
      /\ \A p \in Peers : {s \in Sessions : Open(s) /\ session[s].peer = p} = {}
  BY <1>1
<1>3. IsFiniteSet({}) /\ Cardinality({}) = 0 BY FS_EmptySet
<1>4. PermitsKept BY <1>2, <1>3 DEF Init, PermitsKept, NothingLeaks, OpenOnes
<1>5. Shapes BY DEF Init, Shapes
<1>6. SessionsKept BY <1>1 DEF SessionsKept
<1>7. MessagesKept
  BY DEF Init, MessagesKept, OneRevisionPerMessage, EnvelopeOverOneChannel,
         OverLimitIsRefused, ReportsOfTheMessage
<1> QED BY <1>4, <1>5, <1>6, <1>7 DEF SessionInv

LEMMA InvStep == SessionInv /\ [Next]_vars => SessionInv'
<1> SUFFICES ASSUME SessionInv, [Next]_vars PROVE SessionInv' OBVIOUS
<1>1. CASE UNCHANGED vars BY <1>1, SessionsUnchanged DEF vars, SessionInv, Shapes
<1>2. CASE Activate
  <2>1. policy' \in Nat BY <1>2 DEF Activate, SessionInv, Shapes
  <2>2. ready' \in BOOLEAN BY <1>2, Zenon DEF Activate, SessionInv, Shapes
  <2> QED BY <1>2, <2>1, <2>2, SessionsUnchanged DEF Activate
<1>3. CASE \E s \in Sessions :
         \/ \E p \in Peers : Accept(s, p)
         \/ \E a \in Recipients : Rcpt(s, a)
         \/ Greeting(s) \/ StartTls(s) \/ Mail(s) \/ RefuseMail(s) \/ RefuseData(s) \/ Data(s)
         \/ Body(s) \/ Scanned(s) \/ Rset(s) \/ End(s)
  BY <1>3, ListenerStep, RcptStep, GreetingStep, MailStep, DataStep
<1> QED BY <1>1, <1>2, <1>3 DEF Next

-----------------------------------------------------------------------------
(* What follows                                                             *)

\* Transactions, messages and permits are kept consistent on every way through
\* the command loop (smtp.rs).
THEOREM SessionsCorrect == Spec => []SessionInv
BY InvInit, InvStep, PTL DEF Spec

\* A message is analysed with the revision its recipients were accepted under,
\* whatever was activated during the transaction.
THEOREM RevisionKept == Spec => []OneRevisionPerMessage
<1>1. SessionInv => OneRevisionPerMessage BY DEF SessionInv, MessagesKept
<1> QED BY <1>1, SessionsCorrect, PTL

\* STARTTLS forgets what was said in plain text.
THEOREM ChannelKept == Spec => []EnvelopeOverOneChannel
<1>1. SessionInv => EnvelopeOverOneChannel BY DEF SessionInv, MessagesKept
<1> QED BY <1>1, SessionsCorrect, PTL

\* A transaction over the rate limit is never accepted.
THEOREM LimitsEnforced == Spec => []OverLimitIsRefused
<1>1. SessionInv => OverLimitIsRefused BY DEF SessionInv, MessagesKept
<1> QED BY <1>1, SessionsCorrect, PTL

\* Admission's reports go with the message they were made for.
THEOREM ReportsKept == Spec => []ReportsOfTheMessage
<1>1. SessionInv => ReportsOfTheMessage BY DEF SessionInv, MessagesKept
<1> QED BY <1>1, SessionsCorrect, PTL

\* An idle connection holds no engine.
THEOREM IdleIsFree == Spec => []IdleHoldsNoEngine
<1>1. SessionInv => IdleHoldsNoEngine
  BY DEF SessionInv, SessionsKept, Consistent, Busy, IdleHoldsNoEngine, At
<1> QED BY <1>1, SessionsCorrect, PTL

\* No way out of a command or a connection leaks a permit, a count or a file.
THEOREM PermitsReturned == Spec => []NothingLeaks
<1>1. SessionInv => NothingLeaks BY DEF SessionInv, PermitsKept
<1> QED BY <1>1, SessionsCorrect, PTL
=============================================================================
