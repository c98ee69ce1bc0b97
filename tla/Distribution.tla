---------------------------- MODULE Distribution ----------------------------
(***************************************************************************)
(* How a console policy reaches a worker before coordinated activation is   *)
(* enrolled: an administrator saves a revision on the coordinator, the      *)
(* coordinator captures it with the hashes of its model files into a        *)
(* bundle, a worker polls, downloads the files it lacks into a directory    *)
(* named by the manifest, stores and installs the bundle, and serves mail   *)
(* until its lease on that answer ends.  The model files of the             *)
(* installation may be replaced at any time, and both processes may crash.  *)
(*                                                                          *)
(* A file is its version; a replacement is a version that was never there   *)
(* before.  One clock stands for both machines.                             *)
(***************************************************************************)
EXTENDS Naturals, Sequences, FiniteSets

CONSTANTS Workers,
          Slots,            \* model slots of the policy
          Reread,           \* those every new engine reads again: fusion, quality candidate
          MaxVersion, MaxRevision, MaxNow,
          MaxStale,         \* max_stale_seconds
          HandlerTime,      \* node_guard's timeout
          ClockSkew,        \* how far an answer's date may be from the worker's clock
          MaxEngines,       \* MAX_RUNTIME_GENERATIONS
          None,
          Gated,            \* settings that may be saved once every worker reads them
          Refused,          \* settings an older build does not get at all
          Optional          \* settings an older build gets the policy without

VARIABLES
  now,
  source,     \* slot -> version of the installed file
  saved,      \* console_revisions: settings, and the revision they were edited from
  inForce,    \* when each revision was first in force on the coordinator
  ran,        \* the model sets a coordinator engine was built from
  active,     \* the coordinator's snapshot, or Down
  loading,    \* files read while an engine is built
  saving,     \* the save that holds the permit
  held,       \* retired engines that sessions still use
  cache,      \* the publication
  capture,    \* files hashed for the next publication
  nodes,      \* cluster_nodes: enabled, last_seen, build
  exch,       \* sync_exchange, per worker
  build,      \* the worker's binary
  disk,       \* the worker's model directories: manifest -> slots that are there
  stored,     \* the worker's cluster_state: bundle and last_sync
  live,       \* what the worker runs
  poll,       \* the worker's poll
  retired     \* a replaced model set that sessions still use

coordinator == <<source, saved, inForce, ran, active, loading, saving, held, cache, capture, nodes>>
workers == <<exch, build, disk, stored, live, poll, retired>>
vars == <<now, coordinator, workers>>

Down == [rev |-> 0, set |-> "down", models |-> <<>>]
Settings == {"plain", "invalid"} \cup Gated \cup Refused \cup Optional
Manifests == [Slots -> 0..MaxVersion]
Bundles == [rev : 0..MaxRevision, set : Settings, files : Manifests, label : {"old", "new"}]
Leases == [bundle : Bundles, until : 0..(MaxNow + MaxStale)]
Saves == [base : 0..MaxRevision, set : Settings, models : Manifests, done : BOOLEAN]
Idle == [pc |-> "idle"]
Nothing == [s \in {} |-> 0]

\* file_digest: a file is its version.
Digest(s) == source[s]

\* An engine that is being built: a template reads every slot, a reconfigured engine
\* has the template's models but for the slots that are read again.
Building(kind, models) ==
  [kind |-> kind, models |-> models, hash |-> Nothing, bytes |-> Nothing, again |-> Nothing]
Needed == IF loading.kind = "template" THEN Slots ELSE Reread
Built == loading # None /\ DOMAIN loading.again = Needed
Models(read) == [s \in Slots |-> IF s \in Needed THEN read[s] ELSE loading.models[s]]

Started == active # Down
Bundle(rev, set, files) == [rev |-> rev, set |-> set, files |-> files, label |-> "new"]

\* Engines of the process: the template, the one in force if it is another one, and
\* those that sessions still use.
Engines == 1 + (IF active.rev > 0 THEN 1 ELSE 0) + held

\* The console, the publication and each worker keep records of the right kind; an
\* engine is only built while a generation is free (capacity.rs).
TypeOK ==
  /\ source \in Manifests
  /\ \A i \in 1..Len(saved) : saved[i].set \in Settings
  /\ ran \subseteq Manifests
  /\ cache # None => cache \in Bundles
  /\ saving # None => saving \in Saves
  /\ held \in Nat /\ Engines + (IF saving = None THEN 0 ELSE 1) <= MaxEngines
  /\ \A w \in Workers : /\ disk[w] \in [Manifests -> SUBSET Slots]
                        /\ live[w] # None /\ live[w].bundle # None => live[w] \in Leases

Init ==
  /\ now = 0
  /\ source = [s \in Slots |-> 0]
  /\ saved = <<>> /\ inForce = <<>> /\ ran = {}
  /\ active = Down /\ loading = None /\ saving = None /\ held = 0
  /\ cache = None /\ capture = None
  /\ nodes = [w \in Workers |-> [enabled |-> TRUE, seen |-> None, build |-> "old"]]
  /\ exch = [w \in Workers |-> Idle]
  /\ build \in [Workers -> {"old", "new"}]
  /\ disk = [w \in Workers |-> [m \in Manifests |-> {}]]
  /\ stored = [w \in Workers |-> None]
  /\ live = [w \in Workers |-> None]
  /\ poll = [w \in Workers |-> Idle]
  /\ retired = [w \in Workers |-> FALSE]

\* An administrator installs another model file.
Replace(s) ==
  /\ source[s] < MaxVersion
  /\ source' = [source EXCEPT ![s] = @ + 1]
  /\ UNCHANGED <<now, saved, inForce, ran, active, loading, saving, held, cache, capture, nodes, workers>>

Tick ==
  /\ now < MaxNow
  /\ \A w \in Workers : exch[w].pc # "idle" => now - exch[w].began < HandlerTime
  /\ now' = now + 1
  /\ UNCHANGED <<coordinator, workers>>

(***************************************************************************)
(* The coordinator.                                                        *)
(***************************************************************************)

Boot ==
  /\ ~Started /\ loading = None
  /\ loading' = Building("template", Nothing)
  /\ UNCHANGED <<now, source, saved, inForce, ran, active, saving, held, cache, capture, nodes, workers>>

\* Engine::build: hash every file, read every file, hash again.
Load(s) ==
  /\ loading # None /\ s \in Needed
  /\ \E pass \in {"hash", "bytes", "again"} :
       /\ s \notin DOMAIN loading[pass]
       /\ pass # "hash" => DOMAIN loading.hash = Needed
       /\ pass = "again" => DOMAIN loading.bytes = Needed
       /\ loading' = [loading EXCEPT ![pass] =
                        [t \in DOMAIN @ \cup {s} |-> IF t = s THEN Digest(s) ELSE @[t]]]
  /\ UNCHANGED <<now, source, saved, inForce, ran, active, saving, held, cache, capture, nodes, workers>>

\* "Models changed while loading."
Steady == loading.hash = loading.again

\* Controller::load: the last saved revision comes into force, with the template or an
\* engine made from it; without revisions the template itself.
Start ==
  /\ ~Started /\ Built
  /\ IF ~Steady
     THEN loading' = None /\ UNCHANGED <<active, ran, inForce>>
     ELSE /\ ran' = ran \cup {Models(loading.bytes)}
          /\ IF loading.kind = "template" /\ saved # <<>>
             THEN /\ loading' = Building("first", Models(loading.hash))
                  /\ UNCHANGED <<active, inForce>>
             ELSE /\ loading' = None
                  /\ active' = [rev |-> Len(saved), models |-> Models(loading.hash),
                                set |-> IF saved = <<>> THEN "plain" ELSE saved[Len(saved)].set]
                  /\ inForce' = IF Len(inForce) < Len(saved) THEN Append(inForce, now) ELSE inForce
  /\ UNCHANGED <<now, source, saved, saving, held, cache, capture, nodes, workers>>

\* effective_inner: settings that name missing gateways, connectors or addresses out of
\* bounds make no configuration.
Effective(set) == set # "invalid"

\* apply_authorized: one save at a time, from the revision in force.  Its engine is
\* made from the template.
Save(base, set) ==
  /\ Started /\ saving = None /\ Len(saved) < MaxRevision
  /\ base = active.rev /\ Effective(set)
  /\ Engines < MaxEngines
  /\ saving' = [base |-> base, set |-> set, models |-> active.models, done |-> FALSE]
  /\ loading' = Building("save", active.models)
  /\ UNCHANGED <<now, source, saved, inForce, ran, active, held, cache, capture, nodes, workers>>

\* The engine is there, or a file was replaced while it was built and the save ends.
SaveBuilt ==
  /\ saving # None /\ Built
  /\ loading' = None
  /\ IF Steady
     THEN /\ saving' = [saving EXCEPT !.models = Models(loading.hash)]
          /\ ran' = ran \cup {Models(loading.bytes)}
     ELSE saving' = None /\ UNCHANGED ran
  /\ UNCHANGED <<now, source, saved, inForce, active, held, cache, capture, nodes, workers>>

\* Every enabled worker was heard of recently and reads the setting.
Readable ==
  \A w \in Workers :
    nodes[w].enabled => /\ nodes[w].seen # None
                        /\ nodes[w].seen + MaxStale >= now
                        /\ nodes[w].build = "new"

\* The transaction inserts the revision, if the administrator still is one; a refusal
\* releases the permit.
SaveCommit ==
  /\ saving # None /\ loading = None /\ ~saving.done
  /\ \E authorized \in BOOLEAN :
     IF authorized /\ saving.base = Len(saved) /\ (saving.set \in Gated => Readable)
     THEN /\ saved' = Append(saved, [set |-> saving.set, base |-> saving.base])
          /\ saving' = [saving EXCEPT !.done = TRUE]
     ELSE saving' = None /\ UNCHANGED saved
  /\ UNCHANGED <<now, source, inForce, ran, active, loading, held, cache, capture, nodes, workers>>

\* Then the snapshot is replaced; sessions may keep the previous engine for a while.
SaveActivate ==
  /\ saving # None /\ saving.done
  /\ active' = [rev |-> Len(saved), set |-> saving.set, models |-> saving.models]
  /\ \E used \in BOOLEAN : held' = held + (IF used /\ active.rev > 0 THEN 1 ELSE 0)
  /\ inForce' = Append(inForce, now)
  /\ saving' = None
  /\ UNCHANGED <<now, source, saved, ran, loading, cache, capture, nodes, workers>>

SessionEnds ==
  /\ held > 0 /\ held' = held - 1
  /\ UNCHANGED <<now, source, saved, inForce, ran, active, loading, saving, cache, capture, nodes, workers>>

\* The process stops; exchanges in it are lost.
Crash ==
  /\ Started \/ loading # None
  /\ active' = Down /\ loading' = None /\ saving' = None /\ held' = 0
  /\ cache' = None /\ capture' = None
  /\ exch' = [w \in Workers |-> Idle]
  /\ UNCHANGED <<now, source, saved, inForce, ran, nodes, build, disk, stored, live, poll, retired>>

\* save_node.
Enable(w) ==
  /\ Started
  /\ nodes' = [nodes EXCEPT ![w].enabled = ~@]
  /\ UNCHANGED <<now, source, saved, inForce, ran, active, loading, saving, held, cache, capture, workers>>

(***************************************************************************)
(* Publication and exchange.                                               *)
(***************************************************************************)

Fresh == cache # None /\ cache.rev = active.rev

\* The workers' requests that need the publication: an exchange, or a download.
Requests == {<<"sync", w>> : w \in {x \in Workers : exch[x].pc = "asking"}}
              \cup {<<"file", w>> : w \in {x \in Workers : poll[x].pc = "fetch"}}

\* capture hashes file after file, for the request that found the cache stale and
\* the snapshot it found.
Capture(s) ==
  /\ Started
  /\ \E c \in IF capture # None THEN {capture}
             ELSE {[by |-> r, snap |-> active, hash |-> Nothing] : r \in Requests} :
       /\ capture = None => ~Fresh
       /\ s \notin DOMAIN c.hash
       /\ capture' = [c EXCEPT !.hash =
                        [t \in DOMAIN @ \cup {s} |-> IF t = s THEN Digest(s) ELSE @[t]]]
  /\ UNCHANGED <<now, source, saved, inForce, ran, active, loading, saving, held, cache, nodes, workers>>

\* Publishing whatever was hashed.
AnyCapture(c) == TRUE

\* validate_cluster_publication: the files on disk are those the engine runs.
Resident(c) == c.hash = c.snap.models

\* for_build refuses an older build a policy it would apply differently.
Refuses(w, set) == set \in Refused /\ build[w] = "old"

\* Settings an older build would not parse are removed from its copy.
Stripped(w, set) == IF set \in Optional /\ build[w] = "old" THEN "plain" ELSE set

\* for_build: the publication as the worker's build reads it, or a failed poll.
ForBuild(w, b) ==
  IF Refuses(w, b.set) THEN Idle
  ELSE [pc |-> "record", began |-> exch[w].began,
        bundle |-> [b EXCEPT !.label = build[w], !.set = Stripped(w, @)]]

\* The capture ends: the request that made it goes on with it, even when another
\* revision came into force meanwhile.
Publish ==
  /\ capture # None /\ DOMAIN capture.hash = Slots
  /\ LET b == Bundle(capture.snap.rev, capture.snap.set, capture.hash)
         w == capture.by[2]
         asked == capture.by[1] = "sync" /\ exch[w].pc = "asking"
     IN IF Resident(capture)
        THEN /\ cache' = b
             /\ exch' = IF asked THEN [exch EXCEPT ![w] = ForBuild(w, b)] ELSE exch
        ELSE /\ exch' = IF asked THEN [exch EXCEPT ![w] = Idle] ELSE exch
             /\ UNCHANGED cache
  /\ capture' = None
  /\ UNCHANGED <<now, source, saved, inForce, ran, active, loading, saving, held, nodes,
                 build, disk, stored, live, poll, retired>>

\* The worker's poll reaches the coordinator: an identical build asks v2, any other v1.
Ask(w) ==
  /\ Started /\ live[w] # None /\ poll[w].pc = "idle" /\ exch[w].pc = "idle"
  /\ nodes[w].enabled
  /\ exch' = [exch EXCEPT ![w] = [pc |-> "asking", began |-> now]]
  /\ UNCHANGED <<now, coordinator, build, disk, stored, live, poll, retired>>

\* The cached publication answers.
Answer(w) ==
  /\ exch[w].pc = "asking" /\ Fresh /\ capture = None
  /\ exch' = [exch EXCEPT ![w] = ForBuild(w, cache)]
  /\ UNCHANGED <<now, coordinator, build, disk, stored, live, poll, retired>>

\* The transaction of sync_exchange, for a node that is still enabled.
Record(w) ==
  /\ exch[w].pc = "record"
  /\ IF nodes[w].enabled
     THEN /\ nodes' = [nodes EXCEPT ![w].seen = now, ![w].build = build[w]]
          /\ exch' = [exch EXCEPT ![w].pc = "reply"]
     ELSE exch' = [exch EXCEPT ![w] = Idle] /\ UNCHANGED nodes
  /\ UNCHANGED <<now, source, saved, inForce, ran, active, loading, saving, held, cache, capture,
                 build, disk, stored, live, poll, retired>>

\* The reply, dated now.  Only v1 checks that the revision is still in force.
Reply(w) ==
  /\ exch[w].pc = "reply"
  /\ exch' = [exch EXCEPT ![w] = Idle]
  /\ poll' = IF nodes[w].enabled /\ (build[w] = "old" => active.rev = exch[w].bundle.rev)
             THEN [poll EXCEPT ![w] = [pc |-> "fetch", bundle |-> exch[w].bundle, time |-> now,
                                       before |-> stored[w]]]
             ELSE poll
  /\ UNCHANGED <<now, coordinator, build, disk, stored, live, retired>>

\* A dropped request drops the capture it was waiting for.
Cancelled(gone) == IF capture # None /\ capture.by \in gone THEN None ELSE capture

\* The timeout of node_guard, or a lost connection, ends an exchange.
Abandon(w) ==
  /\ exch[w].pc # "idle"
  /\ exch' = [exch EXCEPT ![w] = Idle]
  /\ capture' = Cancelled({<<"sync", w>>})
  /\ UNCHANGED <<now, source, saved, inForce, ran, active, loading, saving, held, cache, nodes, build, disk, stored, live, poll, retired>>

(***************************************************************************)
(* The worker.                                                             *)
(***************************************************************************)

Same(w) == live[w].bundle = poll[w].bundle
Complete(w, m) == disk[w][m] = Slots

\* cluster_model_identity: a waiting worker runs no models.
Runs(w, m) == live[w].bundle # None /\ live[w].bundle.files = m

\* download of one file.  The route serves a file of the publication in force, from
\* its installation path; the bytes are hashed before the rename.
Fetch(w, s) ==
  /\ poll[w].pc = "fetch" /\ Started /\ Fresh /\ nodes[w].enabled /\ ~Same(w)
  /\ LET m == poll[w].bundle.files
     IN /\ s \notin disk[w][m]
        /\ IF cache.files[s] = m[s] /\ source[s] = m[s]
           THEN disk' = [disk EXCEPT ![w][m] = @ \cup {s}] /\ UNCHANGED poll
           ELSE poll' = [poll EXCEPT ![w] = Idle] /\ UNCHANGED disk
  /\ UNCHANGED <<now, coordinator, exch, build, stored, live, retired>>

\* Any failure ends the poll: the next one starts over.
PollFails(w) ==
  /\ poll[w].pc = "fetch"
  /\ poll' = [poll EXCEPT ![w] = Idle]
  /\ capture' = Cancelled({<<"file", w>>})
  /\ UNCHANGED <<now, source, saved, inForce, ran, active, loading, saving, held, cache, nodes, exch, build, disk, stored, live, retired>>

\* apply_cluster: never an older revision; a new model set waits for the last one's
\* sessions.  The bundle and the date of the answer become durable first.
Apply(w) ==
  /\ poll[w].pc = "fetch"
  /\ Same(w) \/ Complete(w, poll[w].bundle.files)
  /\ now <= poll[w].time + ClockSkew
  /\ live[w].bundle # None => poll[w].bundle.rev >= live[w].bundle.rev
  /\ ~Runs(w, poll[w].bundle.files) => ~retired[w]
  /\ stored' = [stored EXCEPT ![w] = [bundle |-> poll[w].bundle, sync |-> poll[w].time]]
  /\ poll' = [poll EXCEPT ![w].pc = "install"]
  /\ UNCHANGED <<now, coordinator, exch, build, disk, live, retired>>

\* Then the engine and the lease.
Install(w) ==
  /\ poll[w].pc = "install"
  /\ LET b == poll[w].bundle
         changed == ~Runs(w, b.files)
     IN /\ live' = [live EXCEPT ![w] = [bundle |-> b, until |-> poll[w].time + MaxStale]]
        /\ \E used \in BOOLEAN :
             retired' = [retired EXCEPT ![w] = IF changed THEN used ELSE @]
  /\ poll' = [poll EXCEPT ![w].pc = "prune"]
  /\ UNCHANGED <<now, coordinator, exch, build, disk, stored>>

\* prune_models keeps the new manifest and the one read before it was stored.
Prune(w) ==
  /\ poll[w].pc = "prune"
  /\ LET keep == {poll[w].bundle.files}
                   \cup (IF poll[w].before = None THEN {} ELSE {poll[w].before.bundle.files})
     IN disk' = [disk EXCEPT ![w] = [m \in Manifests |-> IF m \in keep THEN @[m] ELSE {}]]
  /\ poll' = [poll EXCEPT ![w] = Idle]
  /\ UNCHANGED <<now, coordinator, exch, build, stored, live, retired>>

RetiredEnds(w) ==
  /\ retired[w]
  /\ retired' = [retired EXCEPT ![w] = FALSE]
  /\ UNCHANGED <<now, coordinator, exch, build, disk, stored, live, poll>>

WorkerStops(w) ==
  /\ live[w] # None
  /\ live' = [live EXCEPT ![w] = None]
  /\ poll' = [poll EXCEPT ![w] = Idle]
  /\ exch' = [exch EXCEPT ![w] = Idle]
  /\ retired' = [retired EXCEPT ![w] = FALSE]
  /\ capture' = Cancelled({<<"sync", w>>, <<"file", w>>})
  /\ UNCHANGED <<now, source, saved, inForce, ran, active, loading, saving, held, cache, nodes,
                 build, disk, stored>>

\* Controller::load on a worker: the stored bundle with every file verified, or a
\* waiting configuration; the lease continues from the stored date.
WorkerStarts(w) ==
  /\ live[w] = None
  /\ stored[w] # None => Complete(w, stored[w].bundle.files)
  /\ live' = [live EXCEPT ![w] =
       IF stored[w] = None THEN [bundle |-> None, until |-> 0]
       ELSE [bundle |-> stored[w].bundle, until |-> stored[w].sync + MaxStale]]
  /\ \E b \in {build[w], "new"} : build' = [build EXCEPT ![w] = b]
  /\ UNCHANGED <<now, coordinator, exch, disk, stored, poll, retired>>

Next ==
  \/ Tick \/ Boot \/ Start \/ SaveBuilt \/ SaveCommit \/ SaveActivate \/ SessionEnds \/ Crash \/ Publish
  \/ \E s \in Slots : Replace(s) \/ Load(s) \/ Capture(s)
  \/ \E base \in 0..MaxRevision, set \in Settings : Save(base, set)
  \/ \E w \in Workers :
       \/ Enable(w) \/ Ask(w) \/ Answer(w) \/ Record(w) \/ Reply(w) \/ Abandon(w)
       \/ PollFails(w) \/ Apply(w) \/ Install(w) \/ Prune(w) \/ RetiredEnds(w)
       \/ WorkerStops(w) \/ WorkerStarts(w)
       \/ \E s \in Slots : Fetch(w, s)

Spec == Init /\ [][Next]_vars

(***************************************************************************)
(* Properties.                                                             *)
(***************************************************************************)

\* cluster_ready: the worker accepts mail.
Ready(w) == live[w] # None /\ live[w].bundle # None /\ live[w].until >= now

\* Every model set a worker runs is one a coordinator engine was built from, as a
\* whole: never a mix of files of before and after a replacement.
OneModelSet ==
  /\ \A w \in Workers : live[w] # None /\ live[w].bundle # None => live[w].bundle.files \in ran
  /\ Started => active.models \in ran

\* A worker that stored a bundle can start from it after any crash: all its files are
\* there, whatever was downloaded or pruned since.
Restartable ==
  \A w \in Workers : stored[w] # None => Complete(w, stored[w].bundle.files)

\* A worker that accepts mail applies the policy in force, or one that was replaced
\* at most a lease (and, through v2, the time of one exchange) ago.
StalenessBounded ==
  \A w \in Workers :
    Ready(w) /\ Len(inForce) > live[w].bundle.rev =>
      now <= inForce[live[w].bundle.rev + 1] + MaxStale
               + (IF build[w] = "new" THEN HandlerTime ELSE 0)

\* No edit is lost: each revision was made from the one before it, and the policy in
\* force is the last one saved.
NoLostEdit ==
  /\ \A i \in 1..Len(saved) : saved[i].base = i - 1 /\ Effective(saved[i].set)
  /\ Started /\ saving = None => active.rev = Len(saved)

\* An older build never stores a policy it cannot read.
OnlyReadablePolicies ==
  \A w \in Workers :
    stored[w] # None /\ stored[w].bundle.set \in Refused \cup Optional => build[w] = "new"
=============================================================================
