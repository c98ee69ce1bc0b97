---------------------------- MODULE SmtpSession ----------------------------
(***************************************************************************)
(* The SMTP listener and its sessions (src/smtp.rs, controlled mode): the  *)
(* connection, per-address and analysis permits, the envelope of every     *)
(* session, and the policy revision that a transaction reads at MAIL and   *)
(* keeps until it is reset, while other revisions are activated.           *)
(*                                                                         *)
(* A command and its answer are one step, except DATA, which waits for the *)
(* body and then for the analysis.  The answers of admission, recipient    *)
(* verification, reputation, storage and the analysis are nondeterministic.*)
(***************************************************************************)
EXTENDS Naturals, FiniteSets

CONSTANTS
    Sessions,       \* connections
    Peers,          \* addresses of clients
    Recipients,
    MaxConnections, \* smtp.max_connections
    MaxPerPeer,     \* smtp.max_connections_per_ip
    Processing,     \* analyses at the same time
    MaxPolicy,      \* bound: revisions
    MaxMail         \* bound: transactions of a connection

VARIABLES
    session,     \* every session's local variables
    slots,       \* connection permits taken
    counts,      \* sessions of every address
    processing,  \* analysis permits taken
    incoming,    \* files of bodies being received
    policy,      \* the active revision
    ready,       \* the activation gate is open
    queued       \* history: the message accepted last

vars == <<session, slots, counts, processing, incoming, policy, ready, queued>>

Closed == [phase |-> "closed"]
Open(s)  == session[s].phase # "closed"
InData(s) == session[s].phase \in {"data", "scan"}

Init ==
    /\ session = [s \in Sessions |-> Closed]
    /\ slots = 0 /\ processing = 0
    /\ counts = [p \in Peers |-> 0]
    /\ incoming = {} /\ queued = {}
    /\ policy = 1 /\ ready = TRUE

-----------------------------------------------------------------------------
(* The listener                                                             *)

\* serve_controlled: a connection over a limit is told that the server is busy.
Accept(s, p) ==
    /\ ~Open(s) /\ slots < MaxConnections /\ counts[p] < MaxPerPeer
    /\ slots' = slots + 1 /\ counts' = [counts EXCEPT ![p] = @ + 1]
    /\ session' = [session EXCEPT ![s] =
         [phase |-> "prompt", peer |-> p, helo |-> "none", encrypted |-> FALSE,
          from |-> FALSE, recipients |-> {}, config |-> policy, engine |-> 0,
          charged |-> FALSE, reputation |-> 0, reports |-> {}, mail |-> 0, limited |-> FALSE]]
    /\ UNCHANGED <<processing, incoming, policy, ready, queued>>

\* Mutant: the file of a body that was not received stays.
DropKeepingFile(s) == processing' = (IF InData(s) THEN processing - 1 ELSE processing)
                      /\ UNCHANGED incoming

\* What DATA holds is released on every way out of it: Incoming and the permit.
DropData(s) ==
    /\ processing' = IF InData(s) THEN processing - 1 ELSE processing
    /\ incoming' = incoming \ {s}

\* The session ends: QUIT, a closed or failing connection, a timeout, too many
\* errors, an oversized body, or the end of the process' grace period.  A
\* message handed to the queue's thread may still be accepted.
Message(s) == [engine |-> session[s].engine, recipients |-> session[s].recipients,
               limited |-> session[s].limited, reports |-> session[s].reports,
               mail |-> session[s].mail, encrypted |-> session[s].encrypted]

End(s) ==
    /\ Open(s)
    /\ DropData(s)
    /\ slots' = slots - 1
    /\ counts' = [counts EXCEPT ![session[s].peer] = @ - 1]
    /\ session' = [session EXCEPT ![s] = Closed]
    /\ queued' \in {queued} \cup (IF session[s].phase = "scan" THEN {{Message(s)}} ELSE {})
    /\ UNCHANGED <<policy, ready>>

\* A revision becomes active, and the gate closes and opens around it.
Activate ==
    /\ \/ policy < MaxPolicy /\ policy' = policy + 1 /\ UNCHANGED ready
       \/ ready' = ~ready /\ UNCHANGED policy
    /\ UNCHANGED <<session, slots, counts, processing, incoming, queued>>

-----------------------------------------------------------------------------
(* Commands                                                                 *)

\* Mutant: an idle session keeps the engine of its last transaction.
PromptKeepingEngine(r) == [r EXCEPT !.phase = "prompt"]

\* The top of the command loop: without a transaction no engine is held.
Prompt(r) == [r EXCEPT !.phase = "prompt", !.engine = IF r.from THEN @ ELSE 0]

At(s)    == Open(s) /\ session[s].phase = "prompt"
Reset(r) == [r EXCEPT !.from = FALSE, !.recipients = {}]
Answered(s, r) ==
    /\ session' = [session EXCEPT ![s] = Prompt(r)]
    /\ UNCHANGED <<slots, counts, policy, ready>>

Greeting(s) ==
    /\ At(s)
    /\ \E h \in {"helo", "ehlo"} : Answered(s, [Reset(session[s]) EXCEPT !.helo = h])
    /\ UNCHANGED <<processing, incoming, queued>>

\* Mutant: the greeting is forgotten but the transaction goes on.
SecuredOnly(r) == [r EXCEPT !.encrypted = TRUE, !.helo = "none"]

\* Nothing said in plain text remains.
Secured(r) == [Reset(r) EXCEPT !.encrypted = TRUE, !.helo = "none"]

StartTls(s) ==
    /\ At(s) /\ session[s].helo = "ehlo" /\ ~session[s].encrypted
    /\ Answered(s, Secured(session[s]))
    /\ UNCHANGED <<processing, incoming, queued>>

\* Mutant: a second MAIL, which is refused, reads the revision again.
SnapshotAlways(r) == [r EXCEPT !.config = policy, !.engine = policy]

\* MAIL reads the active revision, unless a transaction is open.
Snapshot(r) == IF r.from THEN r ELSE [r EXCEPT !.config = policy, !.engine = policy]

\* Mutant: what admission said about an earlier transaction stays.
BegunAgain(r) == [r EXCEPT !.from = TRUE, !.recipients = {}, !.mail = @ + 1, !.limited = FALSE]

Begun(r) == [r EXCEPT !.from = TRUE, !.recipients = {}, !.mail = @ + 1, !.limited = FALSE,
                      !.charged = FALSE, !.reputation = 0, !.reports = {}]

Mail(s) ==
    /\ At(s) /\ ready /\ ~session[s].from /\ session[s].helo # "none"
    /\ session[s].mail < MaxMail
    /\ Answered(s, Begun(Snapshot(session[s])))
    /\ UNCHANGED <<processing, incoming, queued>>

\* A bad command, parameter or path, no second copy, or too little space.
RefuseMail(s) ==
    /\ At(s) /\ ready
    /\ Answered(s, Snapshot(session[s]))
    /\ UNCHANGED <<processing, incoming, queued>>

\* Mutant: an over-limit transaction goes on with its next recipient.
OverLimitKept(r) == [r EXCEPT !.limited = TRUE]

\* A MAIL over the rate limit ends.
OverLimit(r) == [Reset(r) EXCEPT !.limited = TRUE, !.reports = {}]

\* RCPT of a configured recipient, with admission: only the first recipient is
\* charged, and the reputation of the peer is read once per transaction.
Checked(r) == [r EXCEPT !.charged = TRUE, !.reputation = IF @ = 0 THEN r.mail ELSE @]
Accepted(r, a) == [r EXCEPT !.recipients = @ \cup {[to |-> a, config |-> r.config, encrypted |-> r.encrypted]}]

Rcpt(s, a) ==
    LET r == session[s] IN
    /\ At(s) /\ r.from
    /\ \/ ~r.charged /\ Answered(s, OverLimit(Checked(r)))
       \/ Answered(s, Checked(r))                 \* greylisted, unknown or unavailable
       \/ Answered(s, Accepted([Checked(r) EXCEPT !.reports = @ \cup {Checked(r).reputation}], a))
    /\ UNCHANGED <<processing, incoming, queued>>

\* DATA refused for the peer's reputation or for want of capacity.
RefuseData(s) ==
    /\ At(s) /\ session[s].from /\ session[s].recipients # {}
    /\ Answered(s, Reset(session[s]))
    /\ UNCHANGED <<processing, incoming, queued>>

Data(s) ==
    /\ At(s) /\ session[s].from /\ session[s].recipients # {}
    /\ processing < Processing
    /\ processing' = processing + 1 /\ incoming' = incoming \cup {s}
    /\ session' = [session EXCEPT ![s].phase = "data"]
    /\ UNCHANGED <<slots, counts, policy, ready, queued>>

\* The body ends; one that is not a message is refused.
Body(s) ==
    /\ Open(s) /\ session[s].phase = "data"
    /\ \/ Answered(s, Reset(session[s])) /\ DropData(s)
       \/ /\ session' = [session EXCEPT ![s].phase = "scan", ![s].from = FALSE]
          /\ UNCHANGED <<slots, counts, processing, incoming, policy, ready>>
    /\ UNCHANGED queued

\* The analysis and the queue: 250 only when the message is durably queued,
\* 451 when traffic limits defer it or anything fails.
Scanned(s) ==
    /\ Open(s) /\ session[s].phase = "scan"
    /\ Answered(s, Reset(session[s])) /\ DropData(s)
    /\ queued' \in {queued, {Message(s)}}

Rset(s) ==
    /\ At(s) /\ Answered(s, Reset(session[s]))
    /\ UNCHANGED <<processing, incoming, queued>>

Next ==
    \/ \E s \in Sessions :
         \/ \E p \in Peers : Accept(s, p)
         \/ \E a \in Recipients : Rcpt(s, a)
         \/ Greeting(s) \/ StartTls(s) \/ Mail(s) \/ RefuseMail(s) \/ RefuseData(s) \/ Data(s)
         \/ Body(s) \/ Scanned(s) \/ Rset(s) \/ End(s)
    \/ Activate

Spec == Init /\ [][Next]_vars

-----------------------------------------------------------------------------
(* Properties                                                               *)

\* A message is analysed with the revision under which every one of its
\* recipients was accepted, whatever was activated during the transaction.
OneRevisionPerMessage ==
    \A m \in queued : \A a \in m.recipients : a.config = m.engine

\* No recipient named in plain text is part of a message sent over TLS.
EnvelopeOverOneChannel ==
    \A m \in queued : \A a \in m.recipients : a.encrypted = m.encrypted

\* A transaction that admission found over the rate limit is never accepted,
\* also not when the client goes on with another recipient.
OverLimitIsRefused == \A m \in queued : ~m.limited

\* The admission reports attached to a message are those of its transaction.
ReportsOfTheMessage == \A m \in queued : m.reports \subseteq {m.mail}

\* A connection that waits for a transaction holds no engine, so a retired
\* model is not kept in memory by idle clients.
IdleHoldsNoEngine ==
    \A s \in Sessions : At(s) /\ ~session[s].from => session[s].engine = 0

\* Permits, counts and files are those of the sessions there are, on every way
\* out of a command or a connection.
NothingLeaks ==
    /\ slots = Cardinality({s \in Sessions : Open(s)})
    /\ \A p \in Peers : counts[p] = Cardinality({s \in Sessions : Open(s) /\ session[s].peer = p})
    /\ incoming = {s \in Sessions : InData(s)} /\ processing = Cardinality(incoming)
=============================================================================
