------------------------------ MODULE Accounts ------------------------------
(***************************************************************************)
(* Console accounts under central management: sessions, second factors,    *)
(* password changes and invitations (src/central/accounts.rs, admin.rs,    *)
(* invitations.rs, mfa.rs and the handlers of src/api that call them).     *)
(*                                                                         *)
(* A handler reads the password hash, verifies it in a worker thread and   *)
(* only then opens the transaction that acts on the answer.  Transactions  *)
(* serialize on the account's row or on the management lock, so each is    *)
(* one step; the time between the reading and the transaction is where     *)
(* other requests act.                                                     *)
(***************************************************************************)
EXTENDS Naturals, FiniteSets

CONSTANTS
    Users,        \* account names
    Founder,      \* the administrator who exists from the start
    Requests,     \* concurrent requests
    Invites,      \* invitation tokens
    Recovery,     \* recovery codes of one factor
    Attempts,     \* codes that may be tried in one window: 10
    MaxVersion,   \* bound: changes of one account
    MaxSessions,  \* bound: sessions ever created
    MaxStep,      \* bound: time steps of the one-time code
    MaxWindow     \* bound: windows of the attempt limiter

VARIABLES
    user,       \* users
    session,    \* sessions: a login deletes the others of its account
    factor,     \* mfa_credentials
    codes,      \* mfa_recovery
    limiter,    \* mfa_attempts
    invite,     \* invitations
    request,    \* what a handler carries into its transaction
    clock,      \* the current time step
    sessions,   \* sessions ever created
    used,       \* history: codes accepted for the current factor
    replayed,   \* history: a code was accepted twice
    checked,    \* history: codes compared, by the window that was charged
    blind       \* history: a password replaced by someone who did not know it

database == <<user, session, factor, codes, limiter, invite>>
history  == <<used, replayed, checked, blind>>
vars     == <<database, request, clock, sessions, history>>

Absent    == [version |-> 0]
NoSession == [id |-> 0]
NoFactor  == [state |-> "none", gen |-> 0, last |-> 0]
NoInvite  == [open |-> FALSE]
Idle      == [op |-> "idle"]
Steps     == 1..MaxStep
Windows   == 1..MaxWindow

Exists(u)        == user[u].version > 0
Active(u)        == Exists(u) /\ ~user[u].disabled
Administrator(u) == Active(u) /\ user[u].admin
Usable(u)        == session[u] # NoSession /\ Active(u)
                    /\ (session[u].proof # 0 \/ factor[u].state # "enabled")

Init ==
    /\ user = [u \in Users |-> IF u # Founder THEN Absent ELSE
                 [version |-> 1, admin |-> TRUE, disabled |-> FALSE, password |-> 1]]
    /\ session = [u \in Users |-> NoSession]
    /\ factor = [u \in Users |-> NoFactor] /\ codes = [u \in Users |-> {}]
    /\ limiter = [u \in Users |-> [window |-> 1, tries |-> 0]]
    /\ invite = [i \in Invites |-> NoInvite]
    /\ request = [r \in Requests |-> Idle]
    /\ clock = 1 /\ sessions = 0
    /\ used = [u \in Users |-> {}] /\ replayed = FALSE
    /\ checked = [u \in Users |-> [w \in Windows |-> 0]] /\ blind = FALSE

-----------------------------------------------------------------------------
(* The second factor                                                        *)

\* attempt: counted whatever comes of it, up to one more than is permitted.
Counted(u)   == [limiter EXCEPT ![u].tries = IF @ > Attempts THEN @ ELSE @ + 1]
Permitted(u) == limiter[u].tries < Attempts

\* Mutant: a code is accepted again while its time step lasts.
MatchesAgain(u, c) == c \in {clock, clock - 1, clock + 1} \cap Steps \/ c \in codes[u]

\* matched_step, then the recovery codes.
Matches(u, c) ==
    \/ c \in {clock, clock - 1, clock + 1} \cap Steps /\ c > factor[u].last
    \/ c \in codes[u]

\* consume: a factor that is not enabled asks for nothing; an accepted code is spent.
Consume(u, c) ==
    /\ factor' = IF c \in Steps THEN [factor EXCEPT ![u].last = c] ELSE factor
    /\ codes' = [codes EXCEPT ![u] = @ \ {c}]
    /\ replayed' = (replayed \/ c \in used[u])
    /\ used' = [used EXCEPT ![u] = @ \cup {c}]

Check(u, w) == checked' = [checked EXCEPT ![u][w] = @ + 1]

\* allowed: the session the request came with is still there, and the hash unchanged.
Allowed(q) ==
    /\ Usable(q.user) /\ session[q.user].id = q.id
    /\ q.op # "confirm" => user[q.user].password = q.hash

-----------------------------------------------------------------------------
(* Requests                                                                 *)

Carry(r, op, u, id) ==
    request' = [request EXCEPT ![r] = [op |-> op, user |-> u, id |-> id,
                                       hash |-> user[u].password, window |-> limiter[u].window]]

\* login up to the verified password.
BeginLogin(r, u) ==
    /\ request[r] = Idle /\ Active(u)
    /\ Carry(r, "login", u, 0)
    /\ UNCHANGED <<database, clock, sessions, history>>

\* password, confirm: authenticated by a session.
BeginOwn(r, u) ==
    /\ request[r] = Idle /\ Usable(u)
    /\ \E op \in {"password", "confirm"} : Carry(r, op, u, session[u].id)
    /\ UNCHANGED <<database, clock, sessions, history>>

\* enroll, disable: reauthenticate also counts an attempt.
BeginFactor(r, u) ==
    /\ request[r] = Idle /\ Usable(u) /\ Permitted(u)
    /\ limiter' = Counted(u)
    /\ \E op \in {"enroll", "disable"} : Carry(r, op, u, session[u].id)
    /\ UNCHANGED <<user, session, factor, codes, invite, clock, sessions, history>>

Done(r) == request' = [request EXCEPT ![r] = Idle]

\* The password was wrong, the client left, or a check of the transaction failed.
Abandon(r) ==
    /\ request[r] # Idle /\ Done(r)
    /\ UNCHANGED <<database, clock, sessions, history>>

\* Mutant: the hash verified before the lock is not compared again under it.
SameAccountOnce(q) == Active(q.user)

SameAccount(q) == Active(q.user) /\ user[q.user].password = q.hash

\* The cookie the browser had is dropped along with the account's own sessions.
Signed(q, id, proof, other) ==
    [u \in Users |-> IF u = q.user THEN
                       [id |-> id, password |-> q.hash, version |-> user[u].version, proof |-> proof]
                     ELSE IF u = other THEN NoSession ELSE session[u]]

\* Mutant: a wrong code rolls its attempt back.
RefusedRollback(r, u) ==
    /\ factor[u].state = "enabled" /\ Permitted(u)
    /\ Check(u, limiter[u].window)
    /\ UNCHANGED <<limiter, user, session, factor, codes, invite, clock, sessions, used, replayed, blind>>

\* A wrong code, or one attempt too many: the count is committed alone.
Refused(r, u) ==
    /\ limiter' = Counted(u)
    /\ IF Permitted(u) THEN factor[u].state = "enabled" /\ Check(u, limiter[u].window)
       ELSE UNCHANGED checked
    /\ UNCHANGED <<user, session, factor, codes, invite, clock, sessions, used, replayed, blind>>

\* create_session.
CreateSession(r) ==
    /\ request[r].op = "login" /\ SameAccount(request[r]) /\ Done(r)
    /\ LET q == request[r]  u == q.user
       IN  \/ Refused(r, u)
           \/ /\ Permitted(u) /\ sessions < MaxSessions
              /\ limiter' = Counted(u) /\ sessions' = sessions + 1
              /\ \/ /\ factor[u].state # "enabled"
                    /\ \E o \in Users : session' = Signed(q, sessions + 1, 0, o)
                    /\ UNCHANGED <<factor, codes, used, replayed, checked>>
                 \/ /\ factor[u].state = "enabled"
                    /\ \E c \in Steps \cup Recovery : Matches(u, c) /\ Consume(u, c)
                    /\ session' = Signed(q, sessions + 1, factor[u].gen, u)
                    /\ Check(u, limiter[u].window)
              /\ UNCHANGED <<user, invite, clock, blind>>

\* enroll_factor: a pending factor may be replaced, an enabled one may not.
EnrollFactor(r) ==
    /\ request[r].op = "enroll" /\ Allowed(request[r]) /\ Done(r)
    /\ LET u == request[r].user
       IN  /\ factor[u].state # "enabled"
           /\ factor' = [factor EXCEPT ![u] = [state |-> "pending", gen |-> sessions, last |-> 0]]
    /\ UNCHANGED <<user, session, codes, limiter, invite, clock, sessions, history>>

\* Mutant: sessions opened before the factor live on.
EnabledQuietly(u, c) ==
    /\ factor' = [factor EXCEPT ![u].state = "enabled", ![u].last = c]
    /\ codes' = [codes EXCEPT ![u] = Recovery]
    /\ used' = [used EXCEPT ![u] = {c}]
    /\ UNCHANGED session

\* The factor is enabled with new recovery codes and every session is closed.
Enabled(u, c) ==
    /\ factor' = [factor EXCEPT ![u].state = "enabled", ![u].last = c]
    /\ codes' = [codes EXCEPT ![u] = Recovery]
    /\ used' = [used EXCEPT ![u] = {c}]
    /\ session' = [session EXCEPT ![u] = NoSession]

\* confirm_factor.
ConfirmFactor(r) ==
    /\ request[r].op = "confirm" /\ Allowed(request[r]) /\ Done(r)
    /\ LET u == request[r].user
       IN  /\ limiter' = Counted(u)
           /\ IF Permitted(u) /\ factor[u].state = "pending"
              THEN /\ Check(u, limiter[u].window)
                   /\ \/ \E c \in {clock, clock - 1, clock + 1} \cap Steps : Enabled(u, c)
                      \/ UNCHANGED <<factor, codes, used, session>>
              ELSE UNCHANGED <<factor, codes, used, session, checked>>
    /\ UNCHANGED <<user, invite, clock, sessions, replayed, blind>>

\* disable_factor: a code that fails changes nothing, its attempt was counted before.
DisableFactor(r) ==
    /\ request[r].op = "disable" /\ Allowed(request[r]) /\ Done(r)
    /\ LET q == request[r]  u == q.user
       IN  /\ factor[u].state = "enabled"
           /\ Check(u, q.window)
           /\ \/ \E c \in Steps \cup Recovery :
                   /\ Matches(u, c) /\ replayed' = (replayed \/ c \in used[u])
                   /\ factor' = [factor EXCEPT ![u] = NoFactor]
                   /\ codes' = [codes EXCEPT ![u] = {}] /\ used' = [used EXCEPT ![u] = {}]
                   /\ session' = [session EXCEPT ![u] = NoSession]
              \/ UNCHANGED <<factor, codes, session, used, replayed>>
    /\ UNCHANGED <<user, limiter, invite, clock, sessions, blind>>

\* Mutant: the new password is stored without a second look at the account.
ReplaceableBlindly(q) == Exists(q.user)

Replaceable(q) == Allowed(q)

\* change_password.
ChangePassword(r) ==
    /\ request[r].op = "password" /\ Replaceable(request[r]) /\ Done(r)
    /\ LET q == request[r]  u == q.user
       IN  /\ user[u].version < MaxVersion
           /\ user' = [user EXCEPT ![u].password = @ + 1, ![u].version = @ + 1]
           /\ session' = [session EXCEPT ![u] = NoSession]
           /\ blind' = (blind \/ q.hash # user[u].password)
    /\ UNCHANGED <<factor, codes, limiter, invite, clock, sessions, used, replayed, checked>>

Logout(u) ==
    /\ Usable(u)
    /\ session' = [session EXCEPT ![u] = NoSession]
    /\ UNCHANGED <<user, factor, codes, limiter, invite, request, clock, sessions, history>>

-----------------------------------------------------------------------------
(* Administrators                                                           *)

\* Mutant: the right checked when the request arrived is not read again.
MaySaveOnce(actor, u, admin, disabled) == Exists(actor)

\* save_account under the management lock: the actor still administers, keeps
\* its own rights, and someone administers afterwards.
MaySave(actor, u, admin, disabled) ==
    /\ Administrator(actor)
    /\ u = actor => admin /\ ~disabled
    /\ (admin /\ ~disabled) \/ \E o \in Users \ {u} : Administrator(o)

\* The form's version is the current one.  A new account brings a password.
SaveAccount(actor, u) ==
    \E admin, disabled, fresh \in BOOLEAN :
        /\ MaySave(actor, u, admin, disabled)
        /\ user[u].version < MaxVersion /\ (Exists(u) \/ fresh)
        /\ user' = [user EXCEPT ![u] =
             [version |-> @.version + 1, admin |-> admin, disabled |-> disabled,
              password |-> IF ~Exists(u) THEN 1 ELSE IF fresh THEN @.password + 1 ELSE @.password]]
        /\ session' = [session EXCEPT ![u] = NoSession]
        /\ UNCHANGED <<factor, codes, limiter, invite, request, clock, sessions, history>>

\* Mutant: a new link leaves the earlier ones of the same name open.
ReissuedBeside(i, u, new) == [invite EXCEPT ![i] = new]

\* Reissuing for a name closes its earlier links.
Reissued(i, u, new) ==
    [j \in Invites |-> IF j = i THEN new
                       ELSE IF invite[j].open /\ invite[j].user = u THEN [invite[j] EXCEPT !.open = FALSE]
                       ELSE invite[j]]

\* create_invitation remembers the version of its creator.
CreateInvitation(actor, i, u) ==
    /\ Administrator(actor) /\ ~Exists(u) /\ invite[i] = NoInvite
    /\ \E admin \in BOOLEAN :
         invite' = Reissued(i, u, [open |-> TRUE, user |-> u, admin |-> admin,
                                   creator |-> actor, version |-> user[actor].version])
    /\ UNCHANGED <<user, session, factor, codes, limiter, request, clock, sessions, history>>

\* revoke_invitation, or the link's date has passed.
RevokeInvitation(i) ==
    /\ invite[i].open
    /\ invite' = [invite EXCEPT ![i].open = FALSE]
    /\ UNCHANGED <<user, session, factor, codes, limiter, request, clock, sessions, history>>

\* CLAIM.
Claimable(i) ==
    /\ invite[i].open
    /\ Administrator(invite[i].creator) /\ user[invite[i].creator].version = invite[i].version
    /\ ~Exists(invite[i].user)

\* accept_invitation.
AcceptInvitation(i) ==
    /\ Claimable(i)
    /\ user' = [user EXCEPT ![invite[i].user] =
                  [version |-> 1, admin |-> invite[i].admin, disabled |-> FALSE, password |-> 1]]
    /\ invite' = [invite EXCEPT ![i].open = FALSE]
    /\ UNCHANGED <<session, factor, codes, limiter, request, clock, sessions, history>>

-----------------------------------------------------------------------------
(* Time                                                                     *)

Tick ==
    /\ clock < MaxStep /\ clock' = clock + 1
    /\ UNCHANGED <<database, request, sessions, history>>

\* The limiter's window of ten minutes ends.
NextWindow(u) ==
    /\ limiter[u].window < MaxWindow /\ limiter[u].tries > 0
    /\ limiter' = [limiter EXCEPT ![u] = [window |-> @.window + 1, tries |-> 0]]
    /\ UNCHANGED <<user, session, factor, codes, invite, request, clock, sessions, history>>

\* A session or a pending factor expires.
Expire(u) ==
    /\ \/ session' = [session EXCEPT ![u] = NoSession] /\ session[u] # NoSession /\ UNCHANGED factor
       \/ factor[u].state = "pending" /\ factor' = [factor EXCEPT ![u] = NoFactor] /\ UNCHANGED session
    /\ UNCHANGED <<user, codes, limiter, invite, request, clock, sessions, history>>

Next ==
    \/ \E r \in Requests, u \in Users : BeginLogin(r, u) \/ BeginOwn(r, u) \/ BeginFactor(r, u)
    \/ \E r \in Requests : \/ CreateSession(r) \/ EnrollFactor(r) \/ ConfirmFactor(r)
                           \/ DisableFactor(r) \/ ChangePassword(r) \/ Abandon(r)
    \/ \E u \in Users : Logout(u) \/ Expire(u) \/ NextWindow(u)
    \/ \E a, u \in Users : SaveAccount(a, u) \/ \E i \in Invites : CreateInvitation(a, i, u)
    \/ \E i \in Invites : RevokeInvitation(i) \/ AcceptInvitation(i)
    \/ Tick

Spec == Init /\ [][Next]_vars

-----------------------------------------------------------------------------
(* Properties                                                               *)

\* A stored session was opened with the account's present password and has seen
\* no change of the account since: a reset, a disabling or a new role that runs
\* between the verification of a password and the session's transaction, or
\* afterwards, leaves no session behind.
SessionsAreCurrent ==
    \A u \in Users : session[u] # NoSession =>
        /\ session[u].password = user[u].password /\ session[u].version = user[u].version
        /\ Active(u)

\* A stored session of an account with a second factor has proved that very
\* factor, whether it was opened before, during or after its enrolment.
SessionsProveTheFactor ==
    \A u \in Users : (session[u] # NoSession /\ factor[u].state = "enabled")
                       => session[u].proof = factor[u].gen

\* No code of a factor is accepted twice, by two logins, by a login after the
\* enrolment, or by the removal of the factor.
CodeAcceptedOnce == ~replayed

\* The codes compared on the account of one window never exceed its limit, over
\* logins, enrolments and removals together, whatever fails in between.
AttemptsBounded == \A u \in Users, w \in Windows : checked[u][w] <= Attempts

\* A password is changed by its owner only on the strength of the password it
\* replaces: a reset by an administrator is never overwritten by a request that
\* was on its way.
ResetIsNotOverwritten == ~blind

\* Someone administers at every moment, also when two administrators take each
\* other's rights at once.
SomeoneAdministers == \E u \in Users : Administrator(u)

\* At most one link can create an account of a given name.
OneLinkPerName ==
    \A i, j \in Invites : (Claimable(i) /\ Claimable(j) /\ invite[i].user = invite[j].user) => i = j
=============================================================================
