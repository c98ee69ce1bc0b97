--------------------------------- MODULE Scim ---------------------------------
(***************************************************************************)
(* Provisioning of a directory source over SCIM (src/api/scim.rs,          *)
(* src/identity/scim, src/control/identity_scim.rs and                     *)
(* src/central/identity_scim.rs).  Requests name the enrollment they were  *)
(* given, upload a body of any length and are then executed in one         *)
(* transaction.  Users and groups are staged with counters kept beside     *)
(* them; an administrator reviews the staged inventory, attests that it is *)
(* complete, and the candidate made of it becomes ready some time later.   *)
(* The identifier of a resource is never given out twice.                  *)
(***************************************************************************)
EXTENDS Naturals, FiniteSets

CONSTANTS
    Ids, Names, None, Gone,
    Requests,       \* requests that may be under way
    MaxMembers, MaxResources,  \* limits of the stage
    MaxRate,        \* requests in a window
    Reviewing,      \* whether an administrator reviews the stage
    MaxVersion, MaxGen  \* bounds: changes of the stage, enrollments

VARIABLES
    gen, revoked,   \* enrollment in force
    stage,          \* resources by identifier: None, Gone or a record
    counts,         \* users, groups, memberships
    sequence,       \* of the changes of the stage
    rate,           \* requests in the current window
    reqs,           \* requests whose body is being read
    review,         \* what an administrator has seen
    candidate       \* an attested inventory

vars == <<gen, revoked, stage, counts, sequence, rate, reqs, review, candidate>>

NoCounts == [users |-> 0, groups |-> 0, members |-> 0]

Init ==
    /\ gen = 1 /\ revoked = FALSE
    /\ stage = [i \in Ids |-> None]
    /\ counts = NoCounts /\ sequence = 0 /\ rate = 0
    /\ reqs = [r \in Requests |-> None]
    /\ review = None /\ candidate = None

Live(i) == stage[i] \notin {None, Gone}
Staged == {i \in Ids : Live(i)}
User(n) == [kind |-> "User", name |-> n, members |-> {}, version |-> 1]
Group(ms) == [kind |-> "Group", name |-> None, members |-> ms, version |-> 1]
Body == {User(n) : n \in Names}
        \cup {Group(ms) : ms \in {x \in SUBSET Ids : Cardinality(x) <= MaxMembers}}
SameData(a, b) == a.name = b.name /\ a.members = b.members

-----------------------------------------------------------------------------
(* Enrollment                                                               *)

\* enroll_scim: a new bearer supersedes the one before.
Enroll ==
    /\ gen < MaxGen /\ gen' = gen + 1 /\ revoked' = FALSE
    /\ UNCHANGED <<stage, counts, sequence, rate, reqs, review, candidate>>

Revoke ==
    /\ ~revoked /\ revoked' = TRUE
    /\ UNCHANGED <<gen, stage, counts, sequence, rate, reqs, review, candidate>>

\* verify: the bearer of the enrollment in force, of an owner who is current.
Verified(g) == g = gen /\ ~revoked

-----------------------------------------------------------------------------
(* Requests                                                                 *)

Creations == {[op |-> "create", body |-> b] : b \in Body}
Changes(i) ==
    IF ~Live(i) THEN {} ELSE
    {[op |-> "replace", body |-> b] : b \in {x \in Body : x.kind = stage[i].kind}}
    \cup {[op |-> "delete"]}
    \cup (IF stage[i].kind = "User" THEN {}
          ELSE {[op |-> o, member |-> m] : o \in {"add", "remove"}, m \in Ids})

\* preflight: the bearer is verified before the body is read.  A conditional
\* request carries the version the client read, and here what it read with it.
Preflight(r, i, command, seen) ==
    /\ reqs[r] = None /\ Verified(gen)
    /\ reqs' = [reqs EXCEPT ![r] = [id |-> i, command |-> command, gen |-> gen, seen |-> seen]]
    /\ UNCHANGED <<gen, revoked, stage, counts, sequence, rate, review, candidate>>

Ask(r) ==
    \/ \E command \in Creations : Preflight(r, None, command, None)
    \/ \E i \in Ids : \E command \in Changes(i), seen \in {None, stage[i]} :
            Preflight(r, i, command, seen)

\* The client goes away or the body takes too long.
Drop(r) ==
    /\ reqs[r] # None
    /\ reqs' = [reqs EXCEPT ![r] = None]
    /\ UNCHANGED <<gen, revoked, stage, counts, sequence, rate, review, candidate>>

Precondition(q) == q.seen # None => stage[q.id].version = q.seen.version

\* patch: operations work on the stored data, whatever the client had read.
\* Removing a value that is not there has no target.
PatchTarget(q) ==
    q.command.op = "remove" => q.command.member \in stage[q.id].members
PatchedMembers(q) ==
    IF q.command.op = "add" THEN stage[q.id].members \cup {q.command.member}
    ELSE stage[q.id].members \ {q.command.member}

\* changed: the same data keeps its version.
NextData(q) ==
    IF q.command.op = "create" THEN q.command.body ELSE
    LET old == stage[q.id]
        data == IF q.command.op = "replace" THEN q.command.body
                ELSE [old EXCEPT !.members = PatchedMembers(q)]
    IN  IF SameData(data, old) THEN old ELSE [data EXCEPT !.version = old.version + 1]

\* put: a login is given once, members exist and are not the group itself.
Acceptable(i, next) ==
    /\ next.name # None => \A x \in Staged \ {i} : stage[x].name # next.name
    /\ \A m \in next.members : m # i /\ Live(m)

\* counters: within the limits, with every change of the stage.
Within(c) == c.users + c.groups <= MaxResources /\ c.members <= 2 * MaxMembers

Size(i) == IF Live(i) THEN Cardinality(stage[i].members) ELSE 0

CountsWith(i, next) ==
    LET new(k) == IF ~Live(i) /\ next.kind = k THEN 1 ELSE 0 IN
    [users |-> counts.users + new("User"), groups |-> counts.groups + new("Group"),
     members |-> counts.members + Cardinality(next.members) - Size(i)]

\* put: writing what is there already is no change.
Puttable(i, next) ==
    stage[i] = next \/ (Within(CountsWith(i, next)) /\ Acceptable(i, next))
Put(i, next) ==
    IF stage[i] = next THEN UNCHANGED <<stage, counts, sequence>>
    ELSE /\ stage' = [stage EXCEPT ![i] = next]
         /\ counts' = CountsWith(i, next) /\ sequence' = sequence + 1

Referencing(i) == {g \in Staged : i \in stage[g].members}

\* Mutant: a group that loses a member keeps its version.
MembershipRemovedKept(g, i) == [stage[g] EXCEPT !.members = @ \ {i}]

\* membership_removed: the version of a group moves with its members.
MembershipRemoved(g, i) == [stage[g] EXCEPT !.members = @ \ {i}, !.version = @ + 1]

\* Mutant: only the members of the deleted group are counted off.
EdgesGoneOwn(i) == Size(i)

\* Edges go in both directions.
EdgesGone(i) == Size(i) + Cardinality(Referencing(i))

Delete(i) ==
    LET user == IF stage[i].kind = "User" THEN 1 ELSE 0 IN
    /\ stage' = [x \in Ids |-> IF x = i THEN Gone
                               ELSE IF x \in Referencing(i) THEN MembershipRemoved(x, i)
                               ELSE stage[x]]
    /\ counts' = [users |-> counts.users - user, groups |-> counts.groups - (1 - user),
                  members |-> counts.members - EdgesGone(i)]
    /\ sequence' = sequence + 1

\* create: an identifier nobody has had.
Fresh == CHOOSE i \in Ids : stage[i] = None /\ \A x \in Ids : stage[x] = None => i <= x

\* The bound on identifiers: one is left for what a request creates.
Spare(q) == q.command.op = "create" => \E i \in Ids : stage[i] = None

\* dispatch: what is an error of the client, and what a request does otherwise.
Valid(q) ==
    CASE q.command.op = "create" -> Puttable(Fresh, NextData(q))
      [] q.command.op = "delete" -> Live(q.id) /\ Precondition(q)
      [] OTHER -> Live(q.id) /\ Precondition(q) /\ PatchTarget(q) /\ Puttable(q.id, NextData(q))
Dispatch(q) ==
    CASE q.command.op = "create" -> Put(Fresh, NextData(q))
      [] q.command.op = "delete" -> Delete(q.id)
      [] OTHER -> Put(q.id, NextData(q))

\* Mutant: the bearer was verified before the body was read.
StillVerifiedThen(q) == TRUE

StillVerified(q) == Verified(q.gen)

\* scim_request and execute: verified again, charged, and then all of the change or
\* none of it.  An error of the client keeps the charge.
Execute(r) ==
    LET q == reqs[r] IN
    /\ q # None /\ StillVerified(q) /\ rate < MaxRate
    /\ sequence < MaxVersion /\ Spare(q)
    /\ Valid(q) /\ Dispatch(q)
    /\ rate' = rate + 1 /\ reqs' = [reqs EXCEPT ![r] = None]
    /\ UNCHANGED <<gen, revoked, review, candidate>>

Reject(r) ==
    LET q == reqs[r] IN
    /\ q # None /\ Spare(q)
    /\ ~(StillVerified(q) /\ rate < MaxRate /\ Valid(q))
    /\ rate' = IF StillVerified(q) /\ rate < MaxRate THEN rate + 1 ELSE rate
    /\ reqs' = [reqs EXCEPT ![r] = None]
    /\ UNCHANGED <<gen, revoked, stage, counts, sequence, review, candidate>>

Window ==
    /\ rate = MaxRate /\ rate' = 0
    /\ UNCHANGED <<gen, revoked, stage, counts, sequence, reqs, review, candidate>>

-----------------------------------------------------------------------------
(* Attestation                                                              *)

\* scim_inventory_view: the inventory with its revision.
View ==
    /\ Reviewing /\ Verified(gen) /\ review = None
    /\ review' = [gen |-> gen, sequence |-> sequence, data |-> stage]
    /\ UNCHANGED <<gen, revoked, stage, counts, sequence, rate, reqs, candidate>>

Current(x) == Verified(x.gen) /\ x.sequence = sequence

\* project: a graph without a cycle, here of two levels at most.
Acyclic ==
    \A g \in Staged : \A h \in stage[g].members : \A m \in stage[h].members :
        m # g /\ stage[m].members = {}

\* attest_scim: the reviewed revision is the one that is stored.
Attest ==
    /\ review # None /\ candidate = None /\ Current(review)
    /\ Acyclic
    /\ candidate' = [gen |-> gen, sequence |-> sequence, data |-> stage,
                     reviewed |-> review.data, ready |-> FALSE]
    /\ UNCHANGED <<gen, revoked, stage, counts, sequence, rate, reqs, review>>

\* Mutant: what was checked when the candidate was made is enough.
ReviewStandsThen == TRUE

\* verify_review, in the transaction that records the result.
ReviewStands == Current(candidate)

Complete ==
    /\ candidate # None /\ ~candidate.ready /\ ReviewStands
    /\ candidate' = [candidate EXCEPT !.ready = TRUE]
    /\ UNCHANGED <<gen, revoked, stage, counts, sequence, rate, reqs, review>>

\* A stale result, or a review that is made again.
Forget ==
    /\ review # None /\ (candidate # None => ~candidate.ready)
    /\ review' = None /\ candidate' = None
    /\ UNCHANGED <<gen, revoked, stage, counts, sequence, rate, reqs>>

Next ==
    \/ Enroll \/ Revoke \/ Window \/ View \/ Attest \/ Complete \/ Forget
    \/ \E r \in Requests :
        Ask(r) \/ Drop(r) \/ Execute(r) \/ Reject(r)

Spec == Init /\ [][Next]_vars

-----------------------------------------------------------------------------
(* Properties                                                               *)

\* inventory() refuses a stage whose counters and rows disagree: whatever was
\* created, changed and deleted, in whatever order, they agree, every member is
\* there and a login belongs to one user.  A stage that broke this could never be
\* reviewed again.
InventoryExact ==
    /\ counts.users = Cardinality({i \in Staged : stage[i].kind = "User"})
    /\ counts.groups = Cardinality({i \in Staged : stage[i].kind = "Group"})
    /\ counts.members = Cardinality({e \in Ids \X Ids : Live(e[1]) /\ e[2] \in stage[e[1]].members})
    /\ \A g \in Staged : \A m \in stage[g].members : Live(m)
    /\ \A i, j \in Staged : stage[i].name = stage[j].name /\ stage[i].name # None => i = j

Consumed(r) == reqs[r] # None /\ reqs'[r] = None

UpdateStep ==
    \A r \in Requests : Consumed(r) /\ reqs[r].seen # None /\ stage' # stage =>
        SameData(stage[reqs[r].id], reqs[r].seen)

\* A conditional change never overwrites what its client had not read: also a
\* member that was taken out of a group by the deletion of that member counts.
NoLostUpdate == [][UpdateStep]_vars

RevocationStep ==
    \A r \in Requests : Consumed(r) /\ stage' # stage => reqs[r].gen = gen /\ ~revoked

\* A request whose body was still coming when its bearer was revoked or replaced
\* changes nothing.
NothingAfterRevocation == [][RevocationStep]_vars

CandidateStep ==
    candidate # None /\ candidate' # None /\ candidate'.ready /\ ~candidate.ready =>
        candidate.reviewed = candidate.data /\ candidate.data = stage

\* A candidate becomes ready only with exactly the people, groups and members its
\* reviewer saw, and while those are what is stored.
ReadyIsReviewed == [][CandidateStep]_vars
=============================================================================
