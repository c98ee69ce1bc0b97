----------------------------- MODULE Connectors -----------------------------
(***************************************************************************)
(* Reading a directory from its provider (src/identity/connectors),        *)
(* checking it (identity/directory.rs) and carrying the administrator's    *)
(* protection over to it (identity/protection.rs, management.rs).  A       *)
(* collection takes many requests, so the directory changes while it is    *)
(* read.  A page holds one object and a provider lists objects in the      *)
(* order of their immutable ids, continuing after the last one returned;   *)
(* that order is the provider's promise, not the program's.  Delegations   *)
(* are carried over and checked like protection, and left out.             *)
(***************************************************************************)
EXTENDS Naturals, FiniteSets, FiniteSetsExt

CONSTANTS
    Users, Groups,   \* ids: disjoint sets of numbers above zero
    Mails,           \* the addresses a person may have
    Providers,       \* of "google", "entra", "okta", "aws", "ad"
    MaxRequests,     \* of one collection
    Crossing,        \* whether people are reactivated while Okta's two lists are read
    Timeout, Stale, MaxAge,                \* of a collection, a directory, an export
    MaxChanges, MaxTime, MaxGen            \* bounds

VARIABLES
    provider, now,
    person,    \* at the provider: the state of every user
    mail,      \* at the provider: the address of every user
    group,     \* at the provider: the groups
    member,    \* at the provider: <<group, user, group or Outside>>
    scope,     \* at the provider: whether the source's domain is verified
    changes,   \* at the provider: changes so far
    export,    \* the last signed export of an offline collector
    job,       \* the collection under way
    prepared,  \* the candidate that awaits a review
    installed, \* the directory in force
    kept,      \* history: what has been at the provider since the collection began
    held       \* history: when a person last was active with an address

remote == <<person, mail, group, member, scope, changes, held>>
vars == <<provider, now, remote, export, job, prepared, installed, kept>>

Outside == 0      \* a member that is no identity of this directory
NoCandidate == [from |-> 0]
Idle == [pass |-> "idle", group |-> 0, cursor |-> 0, attempt |-> 0, requests |-> 0, began |-> 0, at |-> 0,
         got |-> {}, people |-> {}, groups |-> {}, mem |-> {}, outside |-> FALSE, left |-> {}]
Failed == [Idle EXCEPT !.pass = "failed"]
NoExport == [at |-> 0, complete |-> FALSE, people |-> {}, groups |-> {}, mem |-> {}]

Present == {u \in Users : person[u] # "absent"}
Record(u) == [id |-> u, active |-> person[u] = "active", mail |-> mail[u]]
Ids(people) == {r.id : r \in people}
Holds(u, a) == person[u] = "active" /\ mail[u] = a

Init ==
    /\ provider \in Providers /\ now = 1 /\ changes = 0 /\ scope \in {TRUE, provider # "google"}
    /\ person \in [Users -> {"active", "inactive", "absent"}] /\ mail = [u \in Users |-> Min(Mails)]
    /\ group = Groups
    /\ member \in SUBSET (Groups \X Present)
    /\ export = NoExport /\ job = Idle /\ prepared = NoCandidate
    /\ installed = [gen |-> 0, at |-> 0, people |-> {}, groups |-> {}, mem |-> {}, roles |-> {},
                    marks |-> {}]
    /\ kept = [people |-> {}, mem |-> {}]
    /\ held = [x \in Users \X Mails |-> IF Holds(x[1], x[2]) THEN now ELSE 0]

-----------------------------------------------------------------------------
(* The provider's directory changes                                         *)

\* What stays of the history after a change of u that may unsettle a listing.
Without(u) == [people |-> kept.people \ {u}, mem |-> {e \in kept.mem : e[2] # u /\ e[1] # u}]

Changes ==
    /\ changes < MaxChanges /\ changes' = changes + 1
    /\ held' = [x \in Users \X Mails |-> IF Holds(x[1], x[2])' THEN now ELSE held[x]]
    /\ UNCHANGED <<provider, now, scope, export, job, prepared, installed>>

Hire(u) ==
    /\ person[u] = "absent" /\ person' = [person EXCEPT ![u] = "active"]
    /\ UNCHANGED <<mail, group, member, kept>> /\ Changes

\* A deactivated person stays in the directory; Okta moves him to another list, where
\* the collection meets him a second time.
Deactivate(u) ==
    /\ person[u] = "active" /\ person' = [person EXCEPT ![u] = "inactive"]
    /\ kept' = [kept EXCEPT !.mem = Without(u).mem]
    /\ UNCHANGED <<mail, group, member>> /\ Changes

\* A person reactivated between Okta's two lists is in neither as it is read.
Reactivate(u) ==
    /\ person[u] = "inactive" /\ person' = [person EXCEPT ![u] = "active"]
    /\ provider = "okta" /\ job.pass \in {"users", "inactive"} => Crossing
    /\ UNCHANGED <<mail, group, member, kept>> /\ Changes

Leave(u) ==
    /\ person[u] # "absent" /\ person' = [person EXCEPT ![u] = "absent"]
    /\ member' = {e \in member : e[2] # u} /\ kept' = Without(u)
    /\ UNCHANGED <<mail, group>> /\ Changes

Readdress(u, a) ==
    /\ person[u] # "absent" /\ a # mail[u] /\ mail' = [mail EXCEPT ![u] = a]
    /\ UNCHANGED <<person, group, member, kept>> /\ Changes

AddGroup(g) ==
    /\ g \notin group /\ group' = group \cup {g}
    /\ UNCHANGED <<person, mail, member, kept>> /\ Changes

DropGroup(g) ==
    /\ g \in group /\ group' = group \ {g}
    /\ member' = {e \in member : g \notin {e[1], e[2]}} /\ kept' = Without(g)
    /\ UNCHANGED <<person, mail>> /\ Changes

Join(g, m) ==
    /\ g \in group /\ m \in Present \cup (group \ {g}) \cup {Outside} /\ <<g, m>> \notin member
    /\ member' = member \cup {<<g, m>>}
    /\ UNCHANGED <<person, mail, group, kept>> /\ Changes

Part(e) ==
    /\ e \in member /\ member' = member \ {e}
    /\ kept' = [kept EXCEPT !.mem = @ \ {e}]
    /\ UNCHANGED <<person, mail, group>> /\ Changes

-----------------------------------------------------------------------------
(* Requests                                                                 *)

\* One of three attempts at a page: a retry needs a status that is worth one, and a
\* delay of no more than ten seconds.
Attempt(worth, status, n, late) ==
    IF status = "200" THEN "page"
    ELSE IF status \in worth /\ n < 2 /\ ~late THEN "again" ELSE "fail"

GoogleFetch(status, n, late) == Attempt({"429", "502", "503", "504"}, status, n, late)
EntraFetch(status, n, late) == Attempt({"429", "503"}, status, n, late)
OktaFetch(status, n, late) == Attempt({"429", "503"}, status, n, late)
\* AWS also answers 400 with a throttling error.
AwsFetch(status, n, late) == Attempt({"429", "500", "503", "throttled"}, status, n, late)

Fetch(status, n, late) ==
    CASE provider = "google" -> GoogleFetch(status, n, late)
      [] provider = "entra" -> EntraFetch(status, n, late)
      [] provider = "okta" -> OktaFetch(status, n, late)
      [] provider = "aws" -> AwsFetch(status, n, late)
Statuses == {"200", "401", "429", "500", "502", "503", "504", "throttled"}

\* What is wrong with a page that ends the collection: a continuation that leaves the
\* collection, its authority or its selection, or comes back to a page seen before;
\* too many objects; and what each protocol adds.
GoogleDefects == {"continuation", "loop", "limit", "kind", "fields"}
EntraDefects == {"continuation", "loop", "limit", "delta"}
OktaDefects == {"continuation", "loop", "limit", "ambiguous link"}
AwsDefects == {"repeated token", "limit", "collection missing"}

Defects ==
    CASE provider = "google" -> GoogleDefects
      [] provider = "entra" -> EntraDefects
      [] provider = "okta" -> OktaDefects
      [] provider = "aws" -> AwsDefects

\* A body larger than a page, or that brings the whole over its budget.
ReadFaults == {"page bytes", "byte budget", "interrupted"}

-----------------------------------------------------------------------------
(* What a collection reads, and in which order                              *)

\* Mutant: the list of deprovisioned users is not read.
PassAfterDefaultOnly(pass) ==
    CASE pass = "domains" -> "users"
      [] pass \in {"users", "inactive"} -> "groups"
      [] OTHER -> "members"

\* Okta's default list omits deprovisioned users, who have a list of their own.
PassAfter(pass) ==
    CASE pass = "domains" -> "users"
      [] pass = "users" /\ provider = "okta" -> "inactive"
      [] pass \in {"users", "inactive"} -> "groups"
      [] OTHER -> "members"

FirstPass == IF provider = "google" THEN "domains" ELSE "users"

\* What the provider lists now.  Okta and AWS report the users of a group only.
Listing ==
    CASE job.pass = "domains" -> {}
      [] job.pass = "users" -> IF provider = "okta" THEN {u \in Present : person[u] # "inactive"}
                               ELSE Present
      [] job.pass = "inactive" -> {u \in Present : person[u] = "inactive"}
      [] job.pass = "groups" -> group
      [] job.pass = "members" ->
            {m \in Users \cup Groups \cup {Outside} :
                <<job.group, m>> \in member /\ (provider \in {"okta", "aws"} => m \in Users)}

\* An object as the page gives it: of a member, the address the group shows and
\* whether he is active.
Entry(x) == IF x \in Users THEN Record(x) ELSE [id |-> x, active |-> TRUE, mail |-> 0]

Running == job.pass \in {"domains", "users", "inactive", "groups", "members"}

\* The domains of the customer: the scopes of the source must be verified ones.
GoogleDomains == scope

\* Users by their ids; one met twice ends the collection.
Distinct(got) == Cardinality(Ids(got)) = Cardinality(got)
GoogleUsers(j, got) == [ok |-> Distinct(got), people |-> got]
EntraUsers(j, got) == [ok |-> Distinct(got), people |-> got]
AwsUsers(j, got) == [ok |-> Distinct(got), people |-> got]
OktaUsers(j, got) ==
    [ok |-> Distinct(got) /\ Ids(got) \cap Ids(j.people) = {}, people |-> j.people \cup got]

People(j, got) ==
    CASE provider = "google" -> GoogleUsers(j, got)
      [] provider = "entra" -> EntraUsers(j, got)
      [] provider = "okta" -> OktaUsers(j, got)
      [] provider = "aws" -> AwsUsers(j, got)

Known(j, x) == x \in Ids(j.people) \cup j.groups
\* A known person whose address changed meanwhile ends the collection, one who is
\* not active has no edge, and a member of the customer's own domains must be known.
GoogleMember(j, r) ==
    CASE r.id = Outside -> "excluded"
      [] r.id # Outside /\ ~Known(j, r.id) -> "missing"
      [] Known(j, r.id) /\ r.id \in Users /\ [r EXCEPT !.active = TRUE] \notin
            {[p EXCEPT !.active = TRUE] : p \in j.people} -> "missing"
      [] OTHER -> IF r.active THEN "edge" ELSE "excluded"
\* Devices, principals and contacts are counted, not kept.
EntraMember(j, r) ==
    IF r.id = Outside THEN "excluded" ELSE IF Known(j, r.id) THEN "edge" ELSE "missing"
OktaMember(j, r) == IF Known(j, r.id) THEN "edge" ELSE "missing"
AwsMember(j, r) == IF Known(j, r.id) THEN "edge" ELSE "missing"

MemberOf(j, r) ==
    CASE provider = "google" -> GoogleMember(j, r)
      [] provider = "entra" -> EntraMember(j, r)
      [] provider = "okta" -> OktaMember(j, r)
      [] provider = "aws" -> AwsMember(j, r)

Begin(j, pass) == [j EXCEPT !.pass = pass, !.cursor = 0, !.attempt = 0, !.got = {}]
\* The members of the next group, or the end.
NextGroup(j) ==
    IF j.left = {} THEN [Begin(j, "collected") EXCEPT !.group = 0, !.at = now]
    ELSE [Begin(j, "members") EXCEPT !.group = Min(j.left), !.left = @ \ {Min(j.left)}]

\* The last page of a list: its objects are taken together.
ListEnds(j, got) ==
    CASE j.pass = "domains" -> IF GoogleDomains THEN Begin(j, PassAfter(j.pass)) ELSE Failed
      [] j.pass \in {"users", "inactive"} ->
            LET p == People(j, got) IN
            IF p.ok THEN [Begin(j, PassAfter(j.pass)) EXCEPT !.people = p.people] ELSE Failed
      [] j.pass = "groups" -> NextGroup([j EXCEPT !.groups = Ids(got), !.left = Ids(got)])
      [] j.pass = "members" ->
            IF \E r \in got : MemberOf(j, r) = "missing" THEN Failed
            ELSE NextGroup([j EXCEPT
                    !.mem = @ \cup {<<j.group, r.id>> : r \in {r \in got : MemberOf(j, r) = "edge"}},
                    !.outside = @ \/ \E r \in got : MemberOf(j, r) = "excluded"])

Start ==
    /\ provider # "ad" /\ ~Running /\ job.pass # "collected"
    /\ job' = [Begin(Idle, FirstPass) EXCEPT !.began = now]
    /\ kept' = [people |-> Present,
                mem |-> {e \in member :
                            /\ e[2] # Outside
                            /\ provider = "google" /\ e[2] \in Users => person[e[2]] = "active"
                            /\ provider \in {"okta", "aws"} => e[2] \in Users}]
    /\ UNCHANGED <<provider, now, remote, export, prepared, installed>>

\* Cursors order members too: one outside the directory comes first.
Turn(x) == x + 1

Page(j) ==
    LET rest == {x \in Listing : Turn(x) > j.cursor}
        x == Min(rest)
        got == IF rest = {} THEN j.got ELSE j.got \cup {Entry(x)} IN
    IF Cardinality(rest) <= 1 THEN ListEnds(j, got)
    ELSE [j EXCEPT !.got = got, !.cursor = Turn(x), !.attempt = 0]

\* What the answer to an attempt may come to.
Outcomes ==
    {Fetch(status, job.attempt, late) : status \in Statuses, late \in BOOLEAN}
    \cup {"defective" : d \in Defects \cup ReadFaults}

\* A request and its answer.  The budget of requests counts every attempt.
Request(outcome) ==
    LET j == [job EXCEPT !.requests = @ + 1] IN
    /\ job' = IF job.requests >= MaxRequests THEN Failed
              ELSE CASE outcome = "page" -> Page(j)
                     [] outcome = "again" -> [j EXCEPT !.attempt = @ + 1]
                     [] outcome \in {"fail", "defective"} -> Failed
    /\ UNCHANGED <<provider, now, remote, export, prepared, installed, kept>>

\* timeout: what was read so far is dropped.
Deadline ==
    /\ Running /\ now = job.began + Timeout /\ job' = Failed
    /\ UNCHANGED <<provider, now, remote, export, prepared, installed, kept>>

-----------------------------------------------------------------------------
(* The signed export of an offline collector                                *)

\* Outside the program: the collector of Active Directory reads and signs.
Export(complete) ==
    /\ provider = "ad"
    /\ export' = [at |-> now, complete |-> complete, people |-> {Record(u) : u \in Present},
                  groups |-> group, mem |-> {e \in member : e[2] # Outside}]
    /\ UNCHANGED <<provider, now, remote, job, prepared, installed, kept>>

\* PublicKey::verify: whole, and recent when it comes in.
Verify ==
    /\ provider = "ad" /\ job.pass \in {"idle", "failed"}
    /\ export.at > 0 /\ export.complete /\ now - export.at <= MaxAge
    /\ job' = [Idle EXCEPT !.pass = "collected", !.at = export.at, !.people = export.people,
                           !.groups = export.groups, !.mem = export.mem]
    /\ UNCHANGED <<provider, now, remote, export, prepared, installed, kept>>

\* Mutant: the age is checked once, when the export comes in.
NotExpiredOnce == TRUE

\* VerifiedExport::collect: still recent when it is prepared.
NotExpired == provider = "ad" => now - job.at <= MaxAge

-----------------------------------------------------------------------------
(* Preparing a candidate                                                    *)

\* No chain of groups comes back to where it began.
Acyclic(mem) ==
    \A S \in SUBSET Groups \ {{}} : \E g \in S : \A h \in S : <<h, g>> \notin mem

\* Snapshot::validate
Valid(s) ==
    /\ \A e \in s.mem : e[1] \in s.groups /\ e[2] \in (Ids(s.people) \cup s.groups) \ {e[1]}
    /\ Acyclic(s.mem)

\* Selection::apply: protection is the administrator's, and no provider's answer
\* takes it from anyone; who is protected must be in the candidate.
Carries(s) == installed.roles \subseteq Ids(s.people) /\ installed.marks \subseteq s.groups

Snapshot(j) ==
    [gen |-> installed.gen + 1, at |-> j.at, people |-> j.people, groups |-> j.groups, mem |-> j.mem,
     roles |-> installed.roles, marks |-> installed.marks]

ActivePeople(s) == {r.id : r \in {r \in s.people : r.active}}
MembersIn(s, g) == {e[2] : e \in {e \in s.mem : e[1] = g}}
\* Protected persons whose record differs, and protected groups that are gone or have
\* other members.
Touched(old, new) ==
    \/ \E u \in old.roles : {r \in old.people : r.id = u} # {r \in new.people : r.id = u}
    \/ \E g \in old.marks : g \notin new.groups \/ MembersIn(old, g) # MembersIn(new, g)

\* changes: a fifth of what was active is gone, or something protected differs.
RequiresReview(old, new) ==
    LET lost == Cardinality(ActivePeople(old) \ ActivePeople(new))
                + Cardinality(old.groups \ new.groups)
        active == Cardinality(ActivePeople(old)) + Cardinality(old.groups) IN
    old.gen > 0 /\ (Touched(old, new) \/ (lost > 0 /\ lost * 5 >= active))

\* preview_collected and finish: the review of exactly this change.
Prepare ==
    LET s == Snapshot(job) IN
    /\ job.pass = "collected" /\ installed.gen < MaxGen
    /\ IF NotExpired /\ Valid(s) /\ Carries(s)
       THEN /\ prepared' = [from |-> installed.gen + 1, snap |-> s,
                            attention |-> RequiresReview(installed, s) \/ job.outside]
            /\ job' = Idle
       ELSE job' = Failed /\ UNCHANGED prepared
    /\ UNCHANGED <<provider, now, remote, export, installed, kept>>

\* Mutant: the review is not tied to the directory it was made from.
InstallableAnyway == prepared # NoCandidate

\* A review holds for the directory it compared the candidate with.
Installable == prepared # NoCandidate /\ prepared.from = installed.gen + 1

Install ==
    /\ Installable
    /\ installed' = prepared.snap /\ prepared' = NoCandidate
    /\ UNCHANGED <<provider, now, remote, export, job, kept>>

Discard ==
    /\ prepared # NoCandidate /\ prepared' = NoCandidate
    /\ UNCHANGED <<provider, now, remote, export, job, installed, kept>>

\* Mutant: a change of protection counts as a collection.
PatchRenews(x) ==
    /\ installed.gen \in 1..(MaxGen - 1)
    /\ \/ /\ x \in Ids(installed.people)
          /\ installed' = [installed EXCEPT !.gen = @ + 1, !.at = now,
                                !.roles = IF x \in @ THEN @ \ {x} ELSE @ \cup {x}]
       \/ /\ x \in installed.groups
          /\ installed' = [installed EXCEPT !.gen = @ + 1, !.at = now,
                                !.marks = IF x \in @ THEN @ \ {x} ELSE @ \cup {x}]
    /\ UNCHANGED <<provider, now, remote, export, job, prepared, kept>>

\* Patch::apply: the administrator changes what is protected among what is installed.
\* The directory is as old as it was.
Patch(x) ==
    /\ installed.gen \in 1..(MaxGen - 1)
    /\ \/ /\ x \in Ids(installed.people)
          /\ installed' = [installed EXCEPT !.gen = @ + 1,
                                !.roles = IF x \in @ THEN @ \ {x} ELSE @ \cup {x}]
       \/ /\ x \in installed.groups
          /\ installed' = [installed EXCEPT !.gen = @ + 1,
                                !.marks = IF x \in @ THEN @ \ {x} ELSE @ \cup {x}]
    /\ UNCHANGED <<provider, now, remote, export, job, prepared, kept>>

\* Snapshot::fresh
Fresh == installed.at > 0 /\ now - installed.at <= Stale
\* Index::address: one active person of a fresh directory, or nobody.
Identified(a) ==
    LET found == {r.id : r \in {r \in installed.people : r.active /\ r.mail = a}} IN
    IF Fresh /\ Cardinality(found) = 1 THEN found ELSE {}

Tick ==
    /\ now < MaxTime /\ now' = now + 1
    /\ Running => now < job.began + Timeout
    /\ held' = [x \in Users \X Mails |-> IF Holds(x[1], x[2]) THEN now + 1 ELSE held[x]]
    /\ UNCHANGED <<provider, person, mail, group, member, scope, changes, export, job, prepared,
                   installed, kept>>

Next ==
    \/ \E u \in Users : Hire(u) \/ Deactivate(u) \/ Reactivate(u) \/ Leave(u)
                        \/ \E a \in Mails : Readdress(u, a)
    \/ \E g \in Groups : AddGroup(g) \/ DropGroup(g)
                         \/ \E m \in Users \cup Groups \cup {Outside} : Join(g, m)
    \/ \E e \in member : Part(e)
    \/ Running /\ \E outcome \in Outcomes : Request(outcome)
    \/ Start \/ Deadline \/ \E complete \in BOOLEAN : Export(complete)
    \/ Verify \/ Prepare \/ Install \/ Discard \/ \E x \in Users \cup Groups : Patch(x) \/ Tick

Spec == Init /\ [][Next]_vars

-----------------------------------------------------------------------------
(* Properties                                                               *)

\* A collection is whole or it is nothing: whoever was at the provider from its first
\* request on is in it, with every membership that stood all the time, whatever else
\* joined, left or failed to answer meanwhile.  Okta has two lists of people, and
\* okta.rs says that one who crosses them aborts the scan: so it is for who is met
\* twice, but with Crossing, one who is met in neither list is missed and the scan
\* does not abort.
Complete ==
    job.pass = "collected" /\ provider # "ad" =>
        kept.people \subseteq Ids(job.people) /\ kept.mem \subseteq job.mem

\* A person found by an address was active with it at the provider not longer ago than
\* a directory may be stale and a collection may last, or an export may be old; changes
\* of protection and repeated uploads of an export do not renew it.
RecentlyHeld ==
    \A a \in Mails : \A u \in Identified(a) : held[<<u, a>>] + Stale + Timeout >= now

InstallStep ==
    prepared' # prepared /\ installed' # installed =>
        /\ Touched(installed, installed') => prepared.attention
        /\ installed.roles = installed'.roles /\ installed.marks = installed'.marks
        /\ installed'.roles \subseteq Ids(installed'.people)

\* No collection changes who is protected, drops a protected identity or alters one
\* without the review having said so, also when the protection was edited between the
\* review and its installation.
ProtectionKept == [][InstallStep]_vars

PreparedStep ==
    prepared' # prepared /\ prepared' # NoCandidate /\ provider = "ad" =>
        now - prepared'.snap.at <= MaxAge

\* An export that waits for its preparation until it is too old is never prepared.
ExportRecent == [][PreparedStep]_vars
=============================================================================
