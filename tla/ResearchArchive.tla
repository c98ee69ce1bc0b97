-------------------------- MODULE ResearchArchive --------------------------
(***************************************************************************)
(* The temporary archive of originals (src/research_archive.rs): encrypted *)
(* files beside an index, written by background jobs and kept up by a      *)
(* maintenance pass, one at a time under the io lock.  Files and index are *)
(* not one transaction; the process may stop between any two of them.  The *)
(* operator's export is another process and takes no part in the lock.     *)
(***************************************************************************)
EXTENDS Integers, FiniteSets, FiniteSetsExt

CONSTANTS
    Msgs,        \* accepted transactions, each an archive entry at most once
    Compared,    \* those another filter still compares when they are accepted
    Settings,    \* settings: [until, life, quota]; collection stops at until
    Permits,     \* outstanding jobs
    Exports,     \* whether the operator exports, once
    MaxTime, MaxCrashes, MaxChanges   \* bounds

VARIABLES
    now, policy,
    up, crashes, changes,
    recovered,   \* this process has reconciled the files with the index
    job,         \* of every transaction: its capture
    key,         \* 0 none, -1 created but not yet written, else its generation
    keys,        \* generations drawn so far
    disk,        \* of every entry: what its folder holds
    row,         \* of every entry: its row of the index
    io,          \* what the holder of the lock is doing
    pass,        \* entries the maintenance pass still has to refresh
    scan,        \* of every transaction: its message in the store
    reader,      \* the operator's export
    slips        \* entries whose clean-up or index update failed in this process

vars == <<now, policy, up, crashes, changes, recovered, job, key, keys, disk, row, io, pass, scan, reader,
          slips>>
files == <<key, keys, disk, row>>
rest  == <<now, policy, up, crashes, changes, scan, reader>>

None == [none |-> TRUE]
Free == [op |-> "free"]
Idle == [at |-> "idle"]
Nothing == [msg |-> 0, ctx |-> None]

collecting(p) == now < p.until

\* The original, and the context with its observations.
Size(d) == (IF d.msg = 0 THEN 0 ELSE 1) + (IF d.ctx = None THEN 0 ELSE IF d.ctx.final THEN 2 ELSE 1)
Indexed == {m \in Msgs : row[m] # None}
Used == MapThenSumSet(LAMBDA m : row[m].stored, Indexed)

\* A folder whose two files are whole and sealed with key k.
Sealed(d, k) == k > 0 /\ d.msg = k /\ d.ctx # None /\ d.ctx.key = k

Init ==
    /\ now = 0 /\ policy \in Settings
    /\ up = TRUE /\ crashes = 0 /\ changes = 0 /\ recovered = FALSE
    /\ job = [m \in Msgs |-> Idle]
    /\ key = 0 /\ keys = 0 /\ disk = [m \in Msgs |-> None] /\ row = [m \in Msgs |-> None]
    /\ io = Free /\ pass = {} /\ slips = {}
    /\ scan = [m \in Msgs |-> IF m \in Compared THEN "pending" ELSE "done"]
    /\ reader = Idle

-----------------------------------------------------------------------------
(* Capture and persist                                                      *)

Queued == {m \in Msgs : job[m].at = "queued"}

\* capture, for an accepted message: a full pool or a stopped collection drops it.
Capture(m) ==
    /\ up /\ job[m] = Idle
    /\ job' = [job EXCEPT ![m] = IF collecting(policy) /\ Cardinality(Queued) < Permits
                                 THEN [at |-> "queued", created |-> now, scan |-> scan[m]]
                                 ELSE [at |-> "ended"]]
    /\ UNCHANGED <<recovered, files, io, pass, slips, rest>>

Ended(m) == [job EXCEPT ![m] = [at |-> "ended"]]

\* persist takes the lock and the settings of the moment.
Persist(m) ==
    /\ up /\ io = Free /\ m \in Queued
    /\ IF collecting(policy)
       THEN io' = [op |-> "persist", at |-> "purge", m |-> m, p |-> policy, began |-> now] /\ UNCHANGED job
       ELSE job' = Ended(m) /\ UNCHANGED io
    /\ UNCHANGED <<recovered, files, pass, slips, rest>>

\* purge_expired: the files of an expired entry, one after the other, then its row.
Expired(m) == row[m] # None /\ row[m].expires <= io.began
PurgeFile(m) ==
    /\ io # Free /\ io.at = "purge" /\ Expired(m) /\ disk[m] # None
    /\ \E d \in IF disk[m] = Nothing THEN {None}
               ELSE {[disk[m] EXCEPT !.msg = 0], [disk[m] EXCEPT !.ctx = None]} \ {disk[m]} :
         disk' = [disk EXCEPT ![m] = d]
    /\ UNCHANGED <<recovered, job, key, keys, row, io, pass, slips, rest>>
PurgeRow(m) ==
    /\ io # Free /\ io.at = "purge" /\ Expired(m) /\ disk[m] = None
    /\ row' = [row EXCEPT ![m] = None]
    /\ UNCHANGED <<recovered, job, key, keys, disk, io, pass, slips, rest>>
Purged == io.at = "purge" /\ \A m \in Msgs : ~Expired(m)

\* An error ends what the lock was taken for; the next purge goes on from there.
PurgeFails ==
    /\ io # Free /\ io.at = "purge" /\ io' = Free
    /\ job' = IF io.op = "persist" THEN Ended(io.m) ELSE job
    /\ UNCHANGED <<recovered, files, pass, slips, rest>>

\* Mutant: the limit is compared before the new entry.
AdmittedBefore(m) == Used <= io.p.quota

\* The entry's size is known before it is written; refreshing may grow it.
Admitted(m) == Used + (IF job[m].scan = "pending" THEN 2 ELSE 3) <= io.p.quota

KeyUsable == Indexed = {} \/ key # 0

\* A full quota, a short disk or a full index ends the job; a key missing although
\* entries exist is an error.
Admit ==
    /\ io # Free /\ io.op = "persist" /\ Purged
    /\ \/ /\ Admitted(io.m) /\ KeyUsable
          /\ io' = [io EXCEPT !.at = IF key = 0 THEN "key" ELSE "folder"]
          /\ key' = IF key = 0 THEN -1 ELSE key
          /\ UNCHANGED job
       \/ io' = Free /\ job' = Ended(io.m) /\ UNCHANGED key
    /\ UNCHANGED <<recovered, keys, disk, row, pass, slips, rest>>
WriteKey ==
    /\ io # Free /\ io.at = "key"
    /\ key' = keys + 1 /\ keys' = keys + 1
    /\ io' = [io EXCEPT !.at = "folder"]
    /\ UNCHANGED <<recovered, job, disk, row, pass, slips, rest>>

\* key refuses a file that is not whole; the folder, then the two files.
Written ==
    /\ io # Free /\ io.at \in {"folder", "message", "context"} /\ key > 0
    /\ disk' = [disk EXCEPT ![io.m] =
         CASE io.at = "folder"  -> Nothing
           [] io.at = "message" -> [@ EXCEPT !.msg = key]
           [] io.at = "context" -> [@ EXCEPT !.ctx =
                [key |-> key, expires |-> job[io.m].created + io.p.life,
                 seen |-> job[io.m].scan, final |-> job[io.m].scan # "pending"]]]
    /\ io' = [io EXCEPT !.at = CASE @ = "folder" -> "message" [] @ = "message" -> "context" [] OTHER -> "row"]
    /\ UNCHANGED <<recovered, job, key, keys, row, pass, slips, rest>>
CommitRow ==
    /\ io # Free /\ io.at = "row"
    /\ row' = [row EXCEPT ![io.m] = [expires |-> disk[io.m].ctx.expires, final |-> disk[io.m].ctx.final,
                                     stored |-> Size(disk[io.m])]]
    /\ io' = Free /\ job' = Ended(io.m)
    /\ UNCHANGED <<recovered, key, keys, disk, pass, slips, rest>>

\* An error on the way removes the folder, when that works; a key that is not
\* whole is one.
PersistFails ==
    /\ io # Free /\ io.op = "persist" /\ io.at # "purge"
    /\ IF io.at \in {"key", "folder"} THEN UNCHANGED <<disk, slips>>
       ELSE \/ disk' = [disk EXCEPT ![io.m] = None] /\ UNCHANGED slips
            \/ slips' = slips \cup {io.m} /\ UNCHANGED disk
    /\ io' = Free /\ job' = Ended(io.m)
    /\ UNCHANGED <<recovered, key, keys, row, pass, rest>>

-----------------------------------------------------------------------------
(* Maintenance                                                              *)

Maintain ==
    /\ up /\ io = Free /\ pass = {}
    /\ io' = [op |-> "maintain", at |-> "purge", began |-> now]
    /\ UNCHANGED <<recovered, job, files, pass, slips, rest>>

\* Mutant: rows are repaired, folders without one stay.
ReconciledRows(m) == disk[m]

\* Once after a start: a folder without a row is removed, and the size in a row
\* follows its files.
Reconciled(m) == IF row[m] = None THEN None ELSE disk[m]
Recover ==
    /\ io # Free /\ io.op = "maintain" /\ Purged /\ ~recovered
    /\ disk' = [m \in Msgs |-> Reconciled(m)]
    /\ row' = [m \in Msgs |-> IF row[m] # None /\ disk[m] # None
                              THEN [row[m] EXCEPT !.stored = Size(disk[m])] ELSE row[m]]
    /\ recovered' = TRUE
    /\ UNCHANGED <<job, key, keys, io, pass, slips, rest>>

\* Mutant: the key goes when collection ends.
KeyNeededWhileCollecting == collecting(policy)

KeyNeeded == collecting(policy) \/ Indexed # {}

\* The key of an empty archive that collects no more is removed; the pass lists
\* the entries with unfinished observations and releases the lock.
ListPending ==
    /\ io # Free /\ io.op = "maintain" /\ Purged /\ recovered
    /\ key' = IF KeyNeeded THEN key ELSE 0
    /\ pass' = {m \in Indexed : ~row[m].final /\ row[m].expires > now}
    /\ io' = Free
    /\ UNCHANGED <<recovered, job, keys, disk, row, slips, rest>>

\* The message's scan as the store has it; then refresh, under the lock.
Refresh(m) ==
    /\ up /\ io = Free /\ m \in pass
    /\ pass' = pass \ {m}
    /\ io' = IF row[m] # None /\ row[m].expires > now /\ Sealed(disk[m], key)
             THEN [op |-> "refresh", at |-> "write", m |-> m, saw |-> scan[m], was |-> Size(disk[m])]
             ELSE Free
    /\ UNCHANGED <<recovered, job, files, slips, rest>>

\* A comparator that is past its deadline counts as interrupted, from then on; a
\* message that is gone leaves what was recorded.
Observed(c, saw) ==
    IF saw = "gone" THEN {[c EXCEPT !.final = TRUE]}
    ELSE {[c EXCEPT !.seen = s, !.final = s # "pending"] :
            s \in IF saw = "pending" THEN {c.seen, "interrupted"} ELSE {saw}}

\* The context is replaced, if the quota of the moment allows.
WriteContext ==
    /\ io # Free /\ io.at = "write"
    /\ \E c \in Observed(disk[io.m].ctx, io.saw) :
         LET d == [disk[io.m] EXCEPT !.ctx = c] IN
         IF Used - io.was + Size(d) > policy.quota THEN io' = Free /\ UNCHANGED disk
         ELSE io' = [io EXCEPT !.at = "update"] /\ disk' = [disk EXCEPT ![io.m] = d]
    /\ UNCHANGED <<recovered, job, key, keys, row, pass, slips, rest>>
UpdateRow ==
    /\ io # Free /\ io.at = "update"
    /\ row' = [row EXCEPT ![io.m].final = disk[io.m].ctx.final,
                          ![io.m].stored = @ - io.was + Size(disk[io.m])]
    /\ io' = Free
    /\ UNCHANGED <<recovered, job, key, keys, disk, pass, slips, rest>>

\* An error of a refresh ends the pass.
RefreshFails ==
    /\ io # Free /\ io.op = "refresh" /\ io' = Free /\ pass' = {}
    /\ slips' = IF io.at = "update" THEN slips \cup {io.m} ELSE slips
    /\ UNCHANGED <<recovered, job, files, rest>>

-----------------------------------------------------------------------------
(* The operator's export                                                    *)

inside == <<up, crashes, changes, recovered, job, files, io, pass, scan, slips>>

CheckRow(m) ==
    /\ Exports /\ reader = Idle /\ row[m] # None /\ row[m].expires > now
    /\ reader' = [at |-> "key", m |-> m]
    /\ UNCHANGED <<now, policy, inside>>
ReadKey ==
    /\ reader.at = "key"
    /\ reader' = IF key > 0 THEN [at |-> "context", m |-> reader.m, key |-> key] ELSE Idle
    /\ UNCHANGED <<now, policy, inside>>
ReadContext ==
    /\ reader.at = "context"
    /\ LET d == disk[reader.m] IN
       reader' = IF d # None /\ d.ctx # None /\ d.ctx.key = reader.key
                 THEN [at |-> "message", m |-> reader.m, key |-> reader.key, ctx |-> d.ctx] ELSE Idle
    /\ UNCHANGED <<now, policy, inside>>

\* Mutant: the index's check is enough.
InTimeOnce(r) == TRUE

InTime(r) == r.ctx.expires > now
ReadMessage ==
    /\ reader.at = "message"
    /\ reader' = IF disk[reader.m] # None /\ disk[reader.m].msg = reader.key /\ InTime(reader)
                 THEN [at |-> "out", on |-> now, expires |-> reader.ctx.expires] ELSE Idle
    /\ UNCHANGED <<now, policy, inside>>

-----------------------------------------------------------------------------
(* The rest                                                                 *)

\* The comparator ends, or the store forgets the message.
ScanChanges(m) ==
    /\ \/ scan[m] = "pending" /\ scan' = [scan EXCEPT ![m] = "done"]
       \/ scan[m] # "gone" /\ job[m] # Idle /\ scan' = [scan EXCEPT ![m] = "gone"]
    /\ UNCHANGED <<now, policy, up, crashes, changes, recovered, job, files, io, pass, reader, slips>>

Configure ==
    /\ changes < MaxChanges /\ changes' = changes + 1
    /\ policy' \in Settings \ {policy}
    /\ UNCHANGED <<now, up, crashes, recovered, job, files, io, pass, scan, reader, slips>>

\* The process stops anywhere: what it had in memory is gone, the files stay.
Crash ==
    /\ up /\ crashes < MaxCrashes /\ crashes' = crashes + 1
    /\ up' = FALSE /\ io' = Free /\ pass' = {} /\ recovered' = FALSE /\ slips' = {}
    /\ job' = [m \in Msgs |-> IF m \in Queued THEN [at |-> "ended"] ELSE job[m]]
    /\ UNCHANGED <<now, policy, changes, files, scan, reader>>
Restart ==
    /\ ~up /\ up' = TRUE
    /\ UNCHANGED <<now, policy, crashes, changes, recovered, job, files, io, pass, scan, reader, slips>>

Tick ==
    /\ now < MaxTime /\ now' = now + 1
    /\ UNCHANGED <<policy, reader, inside>>

Next ==
    \/ \E m \in Msgs : \/ Capture(m) \/ Persist(m) \/ PurgeFile(m) \/ PurgeRow(m) \/ Refresh(m)
                       \/ CheckRow(m) \/ ScanChanges(m)
    \/ PurgeFails \/ Admit \/ WriteKey \/ Written \/ CommitRow \/ PersistFails
    \/ Maintain \/ Recover \/ ListPending \/ WriteContext \/ UpdateRow \/ RefreshFails
    \/ ReadKey \/ ReadContext \/ ReadMessage
    \/ Configure \/ Crash \/ Restart \/ Tick

Spec == Init /\ [][Next]_vars

-----------------------------------------------------------------------------
(* Properties                                                               *)

TypeOK ==
    /\ key \in -1..keys
    /\ io # Free => up
    /\ pass \subseteq Msgs /\ slips \subseteq Msgs

\* An entry the index shows and that has not expired can be read: both its files
\* are there, whole, under the key on disk - through crashes, clean-ups, purges
\* and the end of collection.
Readable ==
    \A m \in Indexed : row[m].expires > now => disk[m] # None /\ Sealed(disk[m], key)

\* Once this process has reconciled, no original lies outside the index and the
\* index knows what each entry takes, except where a clean-up or an update failed.
Reconciles ==
    recovered /\ io = Free =>
        \A m \in Msgs \ slips :
            /\ disk[m] # None => row[m] # None
            /\ row[m] # None /\ row[m].expires > now => row[m].stored = Size(disk[m])

\* The index calls observations final only when the context on disk does, so a
\* crash between the two repeats the refresh and never skips it.
FinalIsRecorded ==
    \A m \in Indexed : row[m].final /\ row[m].expires > now => disk[m].ctx.final

\* No export leaves after the entry's own expiry.
ExportedInTime == reader.at = "out" => reader.on < reader.expires

\* Without a crash or a failed step, what the archive takes stays within the
\* largest quota in force; a crash between a context and its row lets the next
\* capture count the old size (repaired by Recover, which may then exceed it).
WithinQuota ==
    crashes = 0 /\ slips = {} =>
        MapThenSumSet(LAMBDA m : IF disk[m] = None THEN 0 ELSE Size(disk[m]),
                      {m \in Indexed : row[m].expires > now})
            <= Max({p.quota : p \in Settings})
=============================================================================
