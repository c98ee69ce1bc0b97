------------------------ MODULE SenderVerification ------------------------
(***************************************************************************)
(* Verification of new senders (src/traffic/verification.rs and its        *)
(* captcha.rs, with the ticket that src/traffic/runtime.rs takes): a       *)
(* message of an unknown sender is held under a ticket, the sender is      *)
(* invited once the message is durable, answers a challenge, and the node  *)
(* that holds the message releases it.  Tickets, challenges and grants are *)
(* the coordinator's; holds are the nodes'.  An answer proves itself with  *)
(* the coordinator's own challenge, or with the captcha provider's word,   *)
(* which is awaited between the two checks of the link.                    *)
(***************************************************************************)
EXTENDS Naturals, FiniteSets, FiniteSetsExt

CONSTANTS
    Messages,
    Recipient,    \* of every message; all messages have the same sender
    Lifetime,     \* of a ticket
    Day,          \* the period of invitations
    Quota,        \* invitations_per_day
    Hold,         \* how long a message is held
    Remember,     \* how long a verified pair is
    Captchas,     \* "self_hosted" and "turnstile", as far as policies use them
    MaxTime, MaxTickets, MaxChallenges, MaxRequests  \* bounds

VARIABLES
    now,
    tickets,     \* sender_verification_v1
    grants,      \* sender_verification_grants_v1: how long every pair is verified
    challenge,   \* sender_captcha_v1: the challenge of every ticket
    message,     \* every message: its state, ticket and the end of its hold
    answers,     \* what a poll was told of its tickets
    confirming,  \* confirmations between the authorization and the transaction, and what they await
    mailbox,     \* links that reached the sender
    issued,      \* how many tickets, challenges and confirmations there were: the next identifiers
    invited,     \* history: tickets and times of invitations
    guesses,     \* history: answers given to every challenge
    proved       \* history: tickets with a right answer

vars == <<now, tickets, grants, challenge, message, answers, confirming, mailbox, issued, invited,
          guesses, proved>>

NoAnswer    == [held |-> {}, verified |-> {}]
Ids         == DOMAIN tickets
Recipients  == {Recipient[m] : m \in Messages}
Drop(f, S)  == [x \in DOMAIN f \ S |-> f[x]]

Init ==
    /\ now = 0
    /\ tickets = << >> /\ challenge = << >>
    /\ grants = [r \in Recipients |-> 0]
    /\ message = [m \in Messages |-> [state |-> "new", ticket |-> 0]]
    /\ answers = NoAnswer
    /\ issued = [tickets |-> 0, challenges |-> 0, requests |-> 0]
    /\ confirming = {} /\ mailbox = {} /\ invited = {} /\ proved = {}
    /\ guesses = [c \in 1..MaxChallenges |-> 0]

-----------------------------------------------------------------------------
(* The message                                                              *)

\* Mutant: a ticket is deleted when it expires.
OldTicketsNow == {t \in Ids : tickets[t].expires < now}

\* Tickets are kept a day after they expire.
OldTickets == {t \in Ids : tickets[t].expires + Day < now}

\* A pair is verified until its grant ends, or is deleted after that.
Granted(r) == grants[r] > now
KeptGrants == [r \in Recipients |-> IF Granted(r) THEN grants[r] ELSE 0]

Usable(t, r) == tickets[t].recipient = r /\ tickets[t].expires > now /\ ~tickets[t].verified
Fresh == issued.tickets + 1

\* ticket, in the transaction of the traffic check: a verified pair passes, an
\* open ticket is shared, another one is created.
Check(m) ==
    LET r == Recipient[m]
        kept == Drop(tickets, OldTickets)
        open == {t \in DOMAIN kept : Usable(t, r)} IN
    /\ message[m].state = "new"
    /\ \/ Granted(r) /\ tickets' = kept /\ UNCHANGED issued
          /\ message' = [message EXCEPT ![m].state = "delivered"]
       \/ /\ ~Granted(r) /\ open # {} /\ tickets' = kept /\ UNCHANGED issued
          /\ message' = [message EXCEPT ![m] = [state |-> "checked", ticket |-> Max(open)]]
       \/ /\ ~Granted(r) /\ open = {} /\ Fresh <= MaxTickets /\ issued' = [issued EXCEPT !.tickets = Fresh]
          /\ tickets' = [t \in DOMAIN kept \cup {Fresh} |->
               IF t \in DOMAIN kept THEN kept[t]
               ELSE [recipient |-> r, expires |-> now + Lifetime, armed |-> FALSE,
                     verified |-> FALSE, notified |-> FALSE, at |-> 0]]
          /\ message' = [message EXCEPT ![m] = [state |-> "checked", ticket |-> Fresh]]
    /\ grants' = KeptGrants
    /\ UNCHANGED <<now, challenge, answers, confirming, mailbox, invited, guesses, proved>>

\* The queue persists the message, or it is refused and the sender keeps it.
Queue(m) ==
    /\ message[m].state = "checked"
    /\ \/ message' = [message EXCEPT ![m] =
                        [state |-> "held", ticket |-> @.ticket, until |-> now + Hold, acked |-> FALSE]]
       \/ message' = [message EXCEPT ![m].state = "refused"]
    /\ UNCHANGED <<now, tickets, grants, challenge, answers, confirming, mailbox, issued, invited, guesses, proved>>

\* The second copy is durable.
Replicate(m) ==
    /\ message[m].state = "held" /\ ~message[m].acked
    /\ message' = [message EXCEPT ![m].acked = TRUE]
    /\ UNCHANGED <<now, tickets, grants, challenge, answers, confirming, mailbox, issued, invited, guesses, proved>>

\* The hold ends and the message expires, or an administrator releases it.
EndHold(m) ==
    /\ message[m].state = "held"
    /\ \/ message[m].until <= now /\ message' = [message EXCEPT ![m].state = "expired"]
       \/ message' = [message EXCEPT ![m].state = "by_hand"]
    /\ UNCHANGED <<now, tickets, grants, challenge, answers, confirming, mailbox, issued, invited, guesses, proved>>

-----------------------------------------------------------------------------
(* The node's poll                                                          *)

\* Mutant: a message is reported before its second copy is durable.
ReportableEarly == {m \in Messages : message[m].state = "held" /\ message[m].until > now}

Reportable == {m \in Messages : message[m].state = "held" /\ message[m].acked /\ message[m].until > now}

\* Mutant: the tickets that exist count as verified.
VerifiedLoosely(t) == tickets[t].expires > now

Verified(t) == tickets[t].verified /\ tickets[t].expires > now

\* arm: the tickets of durable holds may be used; the answer says which are
\* verified.  The holds are released in a later transaction of the node.
Arm ==
    LET held == Reportable
        ids == {message[m].ticket : m \in held} \cap Ids IN
    /\ held # {}
    /\ tickets' = [t \in Ids |-> [tickets[t] EXCEPT !.armed = @ \/ (t \in ids /\ tickets[t].expires > now)]]
    /\ answers' = [held |-> held, verified |-> {t \in ids : Verified(t)}]
    /\ UNCHANGED <<now, grants, challenge, message, confirming, mailbox, issued, invited, guesses, proved>>

\* poll: what is still held then is released; what expired or was released is not.
Release ==
    /\ answers.held # {}
    /\ answers' = NoAnswer
    /\ message' = [m \in Messages |->
         IF /\ m \in answers.held /\ message[m].ticket \in answers.verified
            /\ message[m].state = "held" /\ message[m].until > now
         THEN [message[m] EXCEPT !.state = "released"] ELSE message[m]]
    /\ UNCHANGED <<now, tickets, grants, challenge, confirming, mailbox, issued, invited, guesses, proved>>

-----------------------------------------------------------------------------
(* The invitation                                                           *)

Recent(t) == tickets[t].notified /\ tickets[t].at + Day >= now

\* notify: the invitation is recorded before it is sent, and never sent again;
\* it reaches the sender or it does not.
Notify(t) ==
    /\ t \in Ids /\ tickets[t].armed /\ ~tickets[t].verified /\ tickets[t].expires > now
    /\ ~tickets[t].notified
    /\ Cardinality({u \in Ids : Recent(u)}) < Quota
    /\ \A u \in Ids \ {t} : ~Recent(u)
    /\ tickets' = [tickets EXCEPT ![t].notified = TRUE, ![t].at = now]
    /\ invited' = invited \cup {<<t, now>>}
    /\ mailbox' \in {mailbox, mailbox \cup {t}}
    /\ UNCHANGED <<now, grants, challenge, message, answers, confirming, issued, guesses, proved>>

-----------------------------------------------------------------------------
(* The sender                                                               *)

\* authorize: a link for a ticket that is armed, open and in time.
Authorized(t) == t \in mailbox \cap Ids /\ tickets[t].armed /\ ~tickets[t].verified /\ tickets[t].expires > now

\* captcha::save: a new challenge replaces the one before.
Challenge(t) ==
    /\ Authorized(t)
    /\ issued.challenges < MaxChallenges
    /\ issued' = [issued EXCEPT !.challenges = @ + 1]
    /\ challenge' = [u \in DOMAIN challenge \cup {t} |-> IF u = t THEN issued'.challenges ELSE challenge[u]]
    /\ UNCHANGED <<now, tickets, grants, message, answers, confirming, mailbox, invited, guesses, proved>>

\* confirm, its first part: the link is checked before anything is awaited.  An
\* answer to the coordinator's own challenge names it; any other is the provider's
\* to judge.
Submit(t, captcha) ==
    LET x == [n |-> issued.requests + 1, ticket |-> t, awaits |-> captcha = "turnstile",
              challenge |-> IF captcha = "turnstile" THEN 0 ELSE challenge[t]] IN
    /\ Authorized(t)
    /\ captcha = "self_hosted" => t \in DOMAIN challenge
    /\ issued.requests < MaxRequests /\ issued' = [issued EXCEPT !.requests = @ + 1]
    /\ confirming' = confirming \cup {x}
    /\ UNCHANGED <<now, tickets, grants, challenge, message, answers, mailbox, invited, guesses, proved>>

\* The provider vouches for the answer, or it does not, or gives no proper reply.
Judged(x, vouches) ==
    /\ x \in confirming /\ x.awaits
    /\ confirming' = (confirming \ {x}) \cup (IF vouches THEN {[x EXCEPT !.awaits = FALSE]} ELSE {})
    /\ UNCHANGED <<now, tickets, grants, challenge, message, answers, mailbox, issued, invited, guesses, proved>>

\* Mutant: a wrong answer rolls back the deletion of the challenge.
ConsumedWhenRight(t, right) == IF right THEN Drop(challenge, {t}) ELSE challenge

\* captcha::consume: an answer, right or wrong, ends the challenge.
Consumed(t, right) == Drop(challenge, {t})

\* Mutant: the link is not checked again in the transaction.
StillAuthorizedOnce(t) == t \in Ids

StillAuthorized(t) == Authorized(t)

\* confirm, the transaction: the link again, the challenge where it is the
\* coordinator's own, the grant and the ticket.  An answer to a challenge that was
\* replaced or used fails.
Confirm(x, right) ==
    LET t == x.ticket
        own == x.challenge # 0
        current == t \in DOMAIN challenge /\ challenge[t] = x.challenge IN
    /\ x \in confirming /\ ~x.awaits /\ confirming' = confirming \ {x}
    /\ ~own => right
    /\ IF StillAuthorized(t) /\ (own => current)
       THEN /\ IF own
               THEN challenge' = Consumed(t, right) /\ guesses' = [guesses EXCEPT ![x.challenge] = @ + 1]
               ELSE UNCHANGED <<challenge, guesses>>
            /\ IF right
               THEN /\ tickets' = [tickets EXCEPT ![t].verified = TRUE]
                    /\ grants' = [KeptGrants EXCEPT ![tickets[t].recipient] = now + Remember]
                    /\ proved' = proved \cup {t}
               ELSE UNCHANGED <<tickets, grants, proved>>
       ELSE UNCHANGED <<tickets, grants, challenge, guesses, proved>>
    /\ UNCHANGED <<now, message, answers, mailbox, issued, invited>>

-----------------------------------------------------------------------------
(* Maintenance and time                                                     *)

\* run: expired challenges, old tickets and grants are deleted.
Maintain ==
    /\ tickets' = Drop(tickets, OldTickets)
    /\ \E gone \in SUBSET DOMAIN challenge : challenge' = Drop(challenge, gone)
    /\ grants' = KeptGrants
    /\ UNCHANGED <<now, message, answers, confirming, mailbox, issued, invited, guesses, proved>>

Tick ==
    /\ now < MaxTime /\ now' = now + 1
    /\ UNCHANGED <<tickets, grants, challenge, message, answers, confirming, mailbox, issued, invited, guesses, proved>>

Next ==
    \/ \E m \in Messages : Check(m) \/ Queue(m) \/ Replicate(m) \/ EndHold(m)
    \/ \E t \in Ids : Notify(t) \/ Challenge(t) \/ \E captcha \in Captchas : Submit(t, captcha)
    \/ \E x \in confirming, right \in BOOLEAN : Judged(x, right) \/ Confirm(x, right)
    \/ Arm \/ Release \/ Maintain \/ Tick

Spec == Init /\ [][Next]_vars

-----------------------------------------------------------------------------
(* Properties                                                               *)

\* A message is released by a right answer for its own ticket: not by that of
\* another recipient, not by an answer that was stale, and never twice.
ReleasedWhenProved ==
    \A m \in Messages : message[m].state = "released" => message[m].ticket \in proved

\* No invitation is sent for mail that was not accepted for good: some message
\* of the ticket was held and on its second node first.
InvitedForDurableMail ==
    \A i \in invited : \E m \in Messages :
        message[m].ticket = i[1] /\ message[m].state \notin {"new", "checked", "refused"}
        /\ (message[m].state = "held" => message[m].acked)

\* The sender gets at most one invitation a day, over all recipients, also when
\* the ticket of an earlier invitation expired and was deleted.
OneInvitationPerDay ==
    \A i, j \in invited : i # j => i[2] + Day < j[2] \/ j[2] + Day < i[2]

\* A challenge is answered once: a wrong answer ends it, and an answer that was
\* submitted twice is used once.
OneGuessPerChallenge == \A c \in DOMAIN guesses : guesses[c] <= 1

ProvedStep ==
    \A r \in Recipients : grants'[r] > grants[r] =>
        \E t \in Ids :
            /\ tickets[t].recipient = r /\ tickets[t].expires > now
            /\ ~tickets[t].verified /\ tickets'[t].verified

\* A grant begins, or is prolonged, only by a right answer to a ticket that is still
\* open and in time when the answer counts: another request may have used the ticket,
\* or its time run out, while the provider was asked.
ProvedInTime == [][ProvedStep]_vars
=============================================================================
