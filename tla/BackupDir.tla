----------------------------- MODULE BackupDir -----------------------------
(***************************************************************************)
(* The backup directory (internal/admin/backup_run.go, backup_http.go,     *)
(* backup_verify.go and the upload half of backup_restore.go).  Scheduled  *)
(* backups, on-demand backups, uploads, retention passes, directory sweeps,*)
(* downloads and the operator's deletes share one directory.  A scheduled  *)
(* and an uploaded pool of files are pruned apart.  A name is a position   *)
(* in time order; a file's content is its fingerprint.  What was verified  *)
(* is remembered, so a file may be damaged and still count as good for a   *)
(* while.  The ledger of the space left on its volume, and its status file,*)
(* follow.                                                                 *)
(***************************************************************************)
EXTENDS Integers, FiniteSets, FiniteSetsExt

CONSTANTS Contents,    \* fingerprints the database, or an upload, may have
          Retention,   \* backups kept per pool; 0 disables pruning
          MaxFiles,    \* names given out in a behaviour
          MaxDisturbances,  \* pins, deletes and damaged files in a behaviour
          MaxCrashes

VARIABLES dirFiles,      \* the committed backups by name
          stamp,         \* names given out
          temps,         \* owners of the temporary files in the directory
          runMu, heavyMu,         \* holders of the two operation locks
          keeping,                \* s.housekeeping
          scheduled, uploading, manual, sweeper, prune, \* operations under way
          pins,                   \* names a download or a restore is reading
          disturbed, crashes,     \* bounds
          owed, spared            \* history: good backups retention must leave, and
                                  \* whether the last pass passed one over

bdVars == <<dirFiles, stamp, temps, runMu, heavyMu, keeping, scheduled,
            uploading, manual, sweeper, prune, pins, disturbed, crashes, owed, spared>>
opVars == <<scheduled, uploading, manual, sweeper, prune>>
lockVars == <<runMu, heavyMu, keeping>>

ASSUME BackupDirAssumption ==
  /\ Contents # {} /\ IsFiniteSet(Contents)
  /\ {Retention, MaxFiles, MaxDisturbances, MaxCrashes} \subseteq Nat

Pools  == {"sched", "upload"}
Names  == 1 .. MaxFiles
Owners == {"sched", "upload", "manual", "leftover"}
NoOne  == "none"
\* A file is good, or damaged; a damaged one may be trusted, as the memory of
\* verifications knows it as good and neither its size nor its time tells.
File(p, c) == [pool |-> p, content |-> c, good |-> TRUE, trusted |-> FALSE, version |-> 0]
AllFiles == [pool : Pools, content : Contents, good : BOOLEAN, trusted : BOOLEAN,
             version : 0 .. 1]
IdleOp   == [pc |-> "idle", content |-> CHOOSE c \in Contents : TRUE]
IdlePass == [pc |-> "idle", excess |-> {}, again |-> FALSE, asked |-> FALSE]

BackupDirTypeOK ==
  /\ DOMAIN dirFiles \subseteq Names /\ \A n \in DOMAIN dirFiles : dirFiles[n] \in AllFiles
  /\ stamp \in 0 .. MaxFiles /\ temps \subseteq Owners
  /\ runMu \in {NoOne, "sched", "manual", "sweep"}
  /\ heavyMu \in {NoOne, "upload", "sweep"} /\ keeping \in BOOLEAN
  /\ scheduled.pc \in {"idle", "write", "written", "commit", "prune", "pruning"}
  /\ uploading.pc \in {"idle", "receive", "received", "commit"}
  /\ manual \in {"idle", "build", "send"} /\ sweeper \in {"idle", "claimed", "sweep"}
  /\ \A p \in Pools : prune[p].pc \in {"idle", "list", "delete", "settle"}
  /\ pins \subseteq Names

BackupDirInit ==
  /\ dirFiles = <<>> /\ stamp = 0 /\ temps = {}
  /\ runMu = NoOne /\ heavyMu = NoOne /\ keeping = FALSE
  /\ scheduled = IdleOp /\ uploading = IdleOp /\ manual = "idle" /\ sweeper = "idle"
  /\ prune = [p \in Pools |-> IdlePass] /\ pins = {} /\ disturbed = 0 /\ crashes = 0
  /\ owed = [p \in Pools |-> 0] /\ spared = [p \in Pools |-> FALSE]

InPool(p) == {n \in DOMAIN dirFiles : dirFiles[n].pool = p}
Good(p) == {n \in InPool(p) : dirFiles[n].good}

\* What verifyBackupFile answers, if it can read the file: 24 hours long an answer
\* is repeated from memory.
Counts(f) == f.good \/ f.trusted
Counted(p) == {n \in InPool(p) : Counts(dirFiles[n])}
Least(a, b) == IF a < b THEN a ELSE b
Without(f, ns) == [n \in DOMAIN f \ ns |-> f[n]]

\* findDuplicateBackup: a candidate counts only once it has been verified, now or
\* not long ago; one that cannot be read is passed over.
Duplicate(pools, c) ==
  \E n \in DOMAIN dirFiles :
    dirFiles[n].pool \in pools /\ dirFiles[n].content = c /\ Counts(dirFiles[n])

\* commitBackupFile: link under the next free name, then drop the temporary name.
CommitBackupFile(p, c) ==
  /\ stamp < MaxFiles
  /\ stamp' = stamp + 1
  /\ dirFiles' = [n \in DOMAIN dirFiles \cup {stamp + 1} |->
                    IF n = stamp + 1 THEN File(p, c) ELSE dirFiles[n]]
  /\ owed' = [owed EXCEPT ![p] = Least(Retention, @ + 1)]

----------------------------------------------------------------------------
(* Retention (runPrune, pruneBackups, deleteExcess)                        *)

RequestPruneDropped(p) ==
  prune' = [prune EXCEPT ![p] =
              IF @.pc = "idle" THEN [@ EXCEPT !.pc = "list", !.asked = FALSE]
              ELSE [@ EXCEPT !.asked = FALSE]]

\* One pass runs per pool; a request that finds one running is remembered.
RequestPrune(p) ==
  prune' = [prune EXCEPT ![p] =
              IF @.pc = "idle" THEN [@ EXCEPT !.pc = "list", !.asked = FALSE]
              ELSE [@ EXCEPT !.again = TRUE, !.asked = FALSE]]

\* The files beyond the newest Retention that count as good; a damaged one, and
\* one that cannot be verified, never counts.
Excess(p, unread) ==
  LET read == Counted(p) \ unread
  IN {n \in read : Cardinality({m \in read : m > n}) >= Retention}

\* Without a listing of the directory nothing is deleted.  A pool within its limit
\* is not read; else each file is, and some may fail to be.
PruneBackups(p) ==
  /\ prune[p].pc = "list"
  /\ \/ /\ Retention > 0
        /\ prune' = [prune EXCEPT ![p].pc = "settle"]
        /\ spared' = [spared EXCEPT ![p] = TRUE]
     \/ \E unread \in SUBSET InPool(p) :
          /\ unread = {} \/ Cardinality(InPool(p)) > Retention
          /\ prune' = [prune EXCEPT ![p].pc = "delete",
                         ![p].excess = IF Retention = 0 THEN {} ELSE
                           {[name |-> n, version |-> dirFiles[n].version] : n \in Excess(p, unread)}]
          /\ spared' = [spared EXCEPT ![p] = unread # {}]
  /\ UNCHANGED <<dirFiles, stamp, temps, lockVars, scheduled, uploading, manual,
                 sweeper, pins, disturbed, crashes, owed>>

\* Under the directory lock: a file in use, or no longer the one verified, stays;
\* so does one whose removal fails.
DeleteExcess(p) ==
  /\ prune[p].pc = "delete"
  /\ LET todo == {d \in prune[p].excess : d.name \in DOMAIN dirFiles}
         dels == {d.name : d \in {x \in todo : x.name \notin pins
                                     /\ dirFiles[x.name].version = x.version}}
     IN \E gone \in SUBSET dels :
          /\ dirFiles' = Without(dirFiles, gone)
          /\ spared' = [spared EXCEPT ![p] = @ \/ {d.name : d \in todo} # gone]
  /\ prune' = [prune EXCEPT ![p].pc = "settle", ![p].excess = {}]
  /\ UNCHANGED <<stamp, temps, lockVars, scheduled, uploading, manual, sweeper,
                 pins, disturbed, crashes, owed>>

\* The end of a pass takes the remembered request with it.
SettlePrune(p) ==
  /\ prune[p].pc = "settle"
  /\ prune' = [prune EXCEPT ![p] =
                 [prune[p] EXCEPT !.pc = IF prune[p].again THEN "list" ELSE "idle",
                                  !.again = FALSE]]
  /\ scheduled' = IF p = "sched" THEN IdleOp ELSE scheduled
  /\ UNCHANGED <<dirFiles, stamp, temps, lockVars, uploading, manual,
                 sweeper, pins, disturbed, crashes, owed, spared>>

----------------------------------------------------------------------------
(* The scheduled backup holds runMu from its start to its commit.          *)

RunScheduledBackup ==
  /\ scheduled.pc = "idle" /\ ~keeping /\ heavyMu # "upload" /\ runMu = NoOne
  /\ runMu' = "sched"
  /\ \E c \in Contents :              \* VACUUM INTO: a snapshot of the database
       scheduled' = [pc |-> "write", content |-> c]
  /\ temps' = temps \cup {"sched"}
  /\ UNCHANGED <<dirFiles, stamp, heavyMu, keeping, uploading, manual, sweeper,
                 prune, pins, disturbed, crashes, owed, spared>>

\* The snapshot, the archive or a check of the room for it may fail; the file goes.
WriteBackupArchive ==
  /\ scheduled.pc = "write"
  /\ \/ scheduled' = [scheduled EXCEPT !.pc = "written"] /\ UNCHANGED <<temps, runMu>>
     \/ scheduled' = IdleOp /\ temps' = temps \ {"sched"} /\ runMu' = NoOne
  /\ UNCHANGED <<dirFiles, stamp, heavyMu, keeping, uploading, manual, sweeper,
                 prune, pins, disturbed, crashes, owed, spared>>

\* An unchanged database is not kept twice, if its copy could be verified; anything
\* else is read back in full, and discarded when it does not match.
DedupeAndVerify ==
  /\ scheduled.pc = "written"
  /\ \/ /\ Duplicate({"sched"}, scheduled.content)
        /\ scheduled' = [scheduled EXCEPT !.pc = "prune"]
        /\ temps' = temps \ {"sched"} /\ runMu' = NoOne
     \/ scheduled' = [scheduled EXCEPT !.pc = "commit"] /\ UNCHANGED <<temps, runMu>>
     \/ scheduled' = IdleOp /\ temps' = temps \ {"sched"} /\ runMu' = NoOne
  /\ UNCHANGED <<dirFiles, stamp, heavyMu, keeping, uploading, manual, sweeper,
                 prune, pins, disturbed, crashes, owed, spared>>

CommitScheduled ==
  /\ scheduled.pc = "commit" /\ "sched" \in temps
  /\ CommitBackupFile("sched", scheduled.content)
  /\ scheduled' = [scheduled EXCEPT !.pc = "prune"]
  /\ temps' = temps \ {"sched"} /\ runMu' = NoOne
  /\ UNCHANGED <<heavyMu, keeping, uploading, manual, sweeper, prune, pins,
                 disturbed, crashes, spared>>

\* A successful run prunes, itself, before the scheduler waits again.
PruneAfterScheduled ==
  /\ scheduled.pc = "prune"
  /\ RequestPrune("sched")
  /\ scheduled' = [IdleOp EXCEPT !.pc = "pruning"]
  /\ UNCHANGED <<dirFiles, stamp, temps, lockVars, uploading, manual, sweeper,
                 pins, disturbed, crashes, owed, spared>>

----------------------------------------------------------------------------
(* The on-demand backup, the upload and the download                       *)

HandleBackupNow ==
  /\ manual = "idle" /\ ~keeping /\ runMu = NoOne
  /\ runMu' = "manual" /\ manual' = "build" /\ temps' = temps \cup {"manual"}
  /\ UNCHANGED <<dirFiles, stamp, heavyMu, keeping, scheduled, uploading, sweeper,
                 prune, pins, disturbed, crashes, owed, spared>>

\* The finished file is opened before runMu is released, and sent without it.
BuildManualBackup ==
  /\ manual = "build"
  /\ runMu' = NoOne
  /\ \/ manual' = "send" /\ UNCHANGED temps
     \/ manual' = "idle" /\ temps' = temps \ {"manual"}
  /\ UNCHANGED <<dirFiles, stamp, heavyMu, keeping, scheduled, uploading, sweeper,
                 prune, pins, disturbed, crashes, owed, spared>>

SendManualBackup ==
  /\ manual = "send"
  /\ manual' = "idle" /\ temps' = temps \ {"manual"}
  /\ UNCHANGED <<dirFiles, stamp, lockVars, scheduled, uploading, sweeper, prune,
                 pins, disturbed, crashes, owed, spared>>

HandleUploadBackup ==
  /\ uploading.pc = "idle" /\ ~keeping /\ heavyMu = NoOne
  /\ heavyMu' = "upload" /\ temps' = temps \cup {"upload"}
  /\ \E c \in Contents : uploading' = [pc |-> "receive", content |-> c]
  /\ UNCHANGED <<dirFiles, stamp, runMu, keeping, scheduled, manual, sweeper,
                 prune, pins, disturbed, crashes, owed, spared>>

EndUpload ==
  /\ uploading' = IdleOp /\ temps' = temps \ {"upload"} /\ heavyMu' = NoOne

\* An interrupted or an invalid upload leaves nothing behind.
CheckUploadedBackup ==
  /\ uploading.pc = "receive"
  /\ \/ uploading' = [uploading EXCEPT !.pc = "received"] /\ UNCHANGED <<temps, heavyMu>>
     \/ EndUpload
  /\ UNCHANGED <<dirFiles, stamp, runMu, keeping, scheduled, manual, sweeper,
                 prune, pins, disturbed, crashes, owed, spared>>

\* A copy of a file that is already there, in either pool, is answered with its name.
CommitUpload ==
  /\ uploading.pc = "received" /\ "upload" \in temps
  /\ \/ /\ Duplicate(Pools, uploading.content)
        /\ UNCHANGED <<dirFiles, stamp, owed, prune>>
     \/ /\ CommitBackupFile("upload", uploading.content)
        /\ prune' = [prune EXCEPT !["upload"].asked = TRUE]  \* goBackground
  /\ EndUpload
  /\ UNCHANGED <<runMu, keeping, scheduled, manual, sweeper, pins, disturbed, crashes,
                 spared>>

StartUploadPrune ==
  /\ prune["upload"].asked
  /\ RequestPrune("upload")
  /\ UNCHANGED <<dirFiles, stamp, temps, lockVars, scheduled, uploading, manual,
                 sweeper, pins, disturbed, crashes, owed, spared>>

\* A download, or the staging of a restore, pins the name it reads.
PinBackup(n) ==
  /\ n \in DOMAIN dirFiles \ pins
  /\ pins' = pins \cup {n}
  /\ disturbed < MaxDisturbances /\ disturbed' = disturbed + 1
  /\ UNCHANGED <<dirFiles, stamp, temps, lockVars, opVars, crashes, owed, spared>>

UnpinBackup(n) ==
  /\ n \in pins
  /\ pins' = pins \ {n}
  /\ UNCHANGED <<dirFiles, stamp, temps, lockVars, opVars, disturbed, crashes, owed, spared>>

\* A file others take away was not retention's to keep, nor was its place in the
\* budget, when a pass has already chosen what it deletes.
Lose(n) ==
  LET p == dirFiles[n].pool
      doomed == {d.name : d \in prune[p].excess}
  IN owed' = [owed EXCEPT ![p] = Least(@, Cardinality(Counted(p) \ (doomed \cup {n})))]

\* deleteBackup: a file that a restore or a download is reading is refused.
Deletable(n) == n \in DOMAIN dirFiles \ pins

HandleDeleteBackup(n) ==
  /\ Deletable(n) /\ ~keeping
  /\ dirFiles' = Without(dirFiles, {n})
  /\ Lose(n)
  /\ disturbed < MaxDisturbances /\ disturbed' = disturbed + 1
  /\ UNCHANGED <<stamp, temps, lockVars, opVars, pins, crashes, spared>>

----------------------------------------------------------------------------
(* Sweeps.  trySweep raises the flag, then needs both locks at once.       *)

ClaimSweep ==
  /\ sweeper = "idle" /\ ~keeping
  /\ keeping' = TRUE /\ sweeper' = "claimed"
  /\ UNCHANGED <<dirFiles, stamp, temps, runMu, heavyMu, scheduled, uploading,
                 manual, prune, pins, disturbed, crashes, owed, spared>>

TryExclusive ==
  /\ sweeper = "claimed"
  /\ IF runMu = NoOne /\ heavyMu = NoOne
     THEN sweeper' = "sweep" /\ runMu' = "sweep" /\ heavyMu' = "sweep" /\ UNCHANGED keeping
     ELSE sweeper' = "idle" /\ keeping' = FALSE /\ UNCHANGED <<runMu, heavyMu>>
  /\ UNCHANGED <<dirFiles, stamp, temps, scheduled, uploading, manual, prune,
                 pins, disturbed, crashes, owed, spared>>

\* Every temporary name goes, the one an on-demand download still has open too.
CleanupBackupLeftovers ==
  /\ sweeper = "sweep"
  /\ temps' = {} /\ sweeper' = "idle"
  /\ runMu' = NoOne /\ heavyMu' = NoOne /\ keeping' = FALSE
  /\ UNCHANGED <<dirFiles, stamp, scheduled, uploading, manual, prune, pins,
                 disturbed, crashes, owed, spared>>

----------------------------------------------------------------------------
(* What happens around the directory                                       *)

\* A file is damaged, or replaced by another program, under its name, and the next
\* to verify it finds out.
DamageFile(n) ==
  /\ n \in DOMAIN dirFiles /\ Counts(dirFiles[n])
  /\ \E v \in dirFiles[n].version .. 1 :
       dirFiles' = [dirFiles EXCEPT ![n] = [@ EXCEPT !.good = FALSE, !.trusted = FALSE,
                                                     !.version = v]]
  /\ Lose(n)
  /\ disturbed < MaxDisturbances /\ disturbed' = disturbed + 1
  /\ UNCHANGED <<stamp, temps, lockVars, opVars, pins, crashes, spared>>

\* It rots under its size and its time, or was replaced before noteVerified looked:
\* the memory still calls it good.
RotSilently(n) ==
  /\ n \in DOMAIN dirFiles /\ dirFiles[n].good
  /\ dirFiles' = [dirFiles EXCEPT ![n] = [@ EXCEPT !.good = FALSE, !.trusted = TRUE]]
  /\ disturbed < MaxDisturbances /\ disturbed' = disturbed + 1
  /\ UNCHANGED <<stamp, temps, lockVars, opVars, pins, crashes, owed, spared>>

\* A remembered verification expires, or makes room for another.
ForgetVerified(n) ==
  /\ n \in DOMAIN dirFiles /\ dirFiles[n].trusted
  /\ dirFiles' = [dirFiles EXCEPT ![n] = [@ EXCEPT !.trusted = FALSE]]
  /\ Lose(n)
  /\ UNCHANGED <<stamp, temps, lockVars, opVars, pins, disturbed, crashes, spared>>

\* The process dies and starts again: temporary files stay, a sweep is due, and
\* every file will be read afresh.
CrashDuringBackup ==
  /\ crashes < MaxCrashes
  /\ crashes' = crashes + 1
  /\ temps' = IF temps = {} THEN {} ELSE {"leftover"}
  /\ runMu' = "sweep" /\ heavyMu' = "sweep" /\ keeping' = TRUE /\ sweeper' = "sweep"
  /\ scheduled' = IdleOp /\ uploading' = IdleOp /\ manual' = "idle" /\ pins' = {}
  /\ prune' = [p \in Pools |-> IdlePass]
  /\ spared' = [p \in Pools |-> TRUE]     \* a pass may have been lost
  /\ dirFiles' = [n \in DOMAIN dirFiles |-> [dirFiles[n] EXCEPT !.trusted = FALSE]]
  /\ owed' = [p \in Pools |-> Least(owed[p], Cardinality(Good(p)))]
  /\ UNCHANGED <<stamp, disturbed>>

Backups == RunScheduledBackup \/ WriteBackupArchive \/ DedupeAndVerify \/ CommitScheduled
             \/ PruneAfterScheduled
Manual  == HandleBackupNow \/ BuildManualBackup \/ SendManualBackup
Uploads == HandleUploadBackup \/ CheckUploadedBackup \/ CommitUpload \/ StartUploadPrune
Pruning == \E p \in Pools : PruneBackups(p) \/ DeleteExcess(p) \/ SettlePrune(p)
Readers == \E n \in Names : PinBackup(n) \/ UnpinBackup(n) \/ HandleDeleteBackup(n)
                              \/ DamageFile(n) \/ RotSilently(n) \/ ForgetVerified(n)
Sweeps  == ClaimSweep \/ TryExclusive \/ CleanupBackupLeftovers

BackupDirNext == Backups \/ Manual \/ Uploads \/ Pruning \/ Readers \/ Sweeps
                   \/ CrashDuringBackup
BackupDirSpec == BackupDirInit /\ [][BackupDirNext]_bdVars

----------------------------------------------------------------------------
\* Retention alone never takes a pool below its budget of backups that count as
\* good: whatever runs beside a pass and whatever of it fails, what is missing from
\* the last Retention of them was deleted by the operator or found damaged.
GoodBackupsKept ==
  \A p \in Pools : Cardinality(Counted(p)) >= owed[p]

\* The same of the files that are good: "a damaged file never takes the place of a
\* good one" does not hold while the damage is not noticed.
OnlyGoodKept ==
  \A p \in Pools : Cardinality(Good(p)) >= owed[p]

\* A sweep never takes the temporary file of a backup or an upload that is still
\* writing it: each finds its file at its commit.
LiveTempsKept ==
  /\ scheduled.pc \in {"write", "written", "commit"} => "sched" \in temps
  /\ uploading.pc \in {"receive", "received"} => "upload" \in temps
  /\ manual = "build" => "manual" \in temps

\* No file that was added escapes retention: once no pass runs and none is asked
\* for, no more backups that count as good than the budget are left, unless the last
\* pass spared one: it was in use or had changed, or could not be listed, verified
\* or removed.
RetentionEnforced ==
  \A p \in Pools :
    (/\ Retention > 0 /\ prune[p].pc = "idle" /\ ~prune[p].asked /\ ~spared[p]
     /\ p = "sched" => scheduled.pc # "prune")
       => Cardinality(Counted(p)) <= Retention

-----------------------------------------------------------------------------
(***************************************************************************)
(* The free-space ledger of internal/admin/backup_space.go, on one volume. *)
(* A backup reserves what its snapshot and archive may need before it      *)
(* writes; an upload or a restore reserves a first guess and asks for more *)
(* as its file grows.  Every check measures the volume before it takes the *)
(* ledger's lock and does only arithmetic under it.                        *)
(***************************************************************************)
CONSTANTS Runs, Streams,     \* writers: a backup at a time, an upload or restore at a time
          Volume, FloorSpace, \* free space at first, and the margin to be left
          DbSize, WalRoom,   \* size of a snapshot, and room for the log meanwhile
          FirstGuess, GrowBy, StreamLimit   \* of a growing hold

VARIABLES free,     \* what the volume has left
          writer,   \* per writer: where it is and what it last measured
          holds,    \* the ledger: bytes reserved per writer
          gambled   \* history: a reservation used a measurement older than a release

dsVars  == <<free, writer, holds, gambled>>
Writers == Runs \cup Streams

ASSUME DiskSpaceAssumption ==
  /\ IsFiniteSet(Writers) /\ Runs \cap Streams = {}
  /\ {Volume, FloorSpace, DbSize, WalRoom, FirstGuess, GrowBy, StreamLimit} \subseteq Nat

AtRest == [pc |-> "idle", seen |-> 0, size |-> 0, stale |-> FALSE]

DiskSpaceTypeOK ==
  /\ free \in Int /\ gambled \in BOOLEAN
  /\ writer \in [Writers -> [pc : {"idle", "preflight", "snapshot", "checked", "output",
                                   "archive", "reserve", "stream", "grow", "hung"},
                             seen : Int, size : Nat, stale : BOOLEAN]]
  /\ holds \in [Writers -> Nat]

DiskSpaceInit ==
  /\ free = Volume /\ gambled = FALSE
  /\ writer = [w \in Writers |-> AtRest] /\ holds = [w \in Writers |-> 0]

\* roomInfo.usable: never negative.
Usable(seen, reserved) ==
  IF seen <= FloorSpace + reserved THEN 0 ELSE seen - FloorSpace - reserved

\* reservedOnLocked: what the others hold; the writer's own may be left out.
ReservedOn(exclude) == SumFunctionOnSet(holds, Writers \ exclude)

\* roomOn: the measurement, before the lock.
Measure(w, from, to) ==
  /\ writer[w].pc = from
  /\ writer' = [writer EXCEPT ![w].pc = to, ![w].seen = free, ![w].stale = FALSE]
  /\ UNCHANGED <<free, holds, gambled>>

\* Giving space back ages every measurement that has not been used yet.
Release(w) ==
  /\ holds' = [holds EXCEPT ![w] = 0]
  /\ writer' = [v \in Writers |-> IF v = w THEN AtRest ELSE [writer[v] EXCEPT !.stale = TRUE]]
Granted(w) == gambled' = (gambled \/ writer[w].stale)

----------------------------------------------------------------------------
(* A backup: backupPreflight, the snapshot, checkOutputRoom, the archive    *)

BackupPreflight(w) ==
  /\ writer[w].pc = "preflight"
  /\ IF writer[w].seen < DbSize + WalRoom + FloorSpace + ReservedOn({})
     THEN /\ writer' = [writer EXCEPT ![w] = AtRest]       \* refused, or deferred
          /\ UNCHANGED <<holds, gambled>>
     ELSE /\ writer' = [writer EXCEPT ![w].pc = "snapshot"]
          /\ holds' = [holds EXCEPT ![w] = WalRoom + DbSize + DbSize]
          /\ Granted(w)
  /\ UNCHANGED free

TakeSnapshot(w) ==
  /\ writer[w].pc = "snapshot"
  /\ writer' = [writer EXCEPT ![w].pc = "checked", ![w].size = DbSize]
  /\ free' = free - DbSize
  /\ UNCHANGED <<holds, gambled>>

CheckOutputRoom(w) ==
  /\ writer[w].pc = "output"
  /\ IF Usable(writer[w].seen, ReservedOn({w})) < DbSize
     THEN /\ Release(w)                       \* the snapshot is removed
          /\ free' = free + DbSize
          /\ UNCHANGED gambled
     ELSE /\ writer' = [writer EXCEPT ![w].pc = "archive"]
          /\ Granted(w)
          /\ UNCHANGED <<free, holds>>

\* The archive may be as large as the snapshot, which goes once it is written.
WriteArchive(w) ==
  /\ writer[w].pc = "archive"
  /\ IF writer[w].size = DbSize
     THEN /\ writer' = [writer EXCEPT ![w].size = DbSize + DbSize]
          /\ free' = free - DbSize
          /\ UNCHANGED holds
     ELSE /\ \E saved \in BOOLEAN :
               free' = free + (IF saved THEN DbSize ELSE DbSize + DbSize)
          /\ Release(w)
  /\ UNCHANGED gambled

----------------------------------------------------------------------------
(* A stream: reserveRoom, then growingHold.ensure before every write       *)

ReserveRoom(w) ==
  /\ writer[w].pc = "reserve"
  /\ IF Usable(writer[w].seen, ReservedOn({})) < FirstGuess
     THEN writer' = [writer EXCEPT ![w] = AtRest] /\ UNCHANGED <<holds, gambled>>
     ELSE /\ writer' = [writer EXCEPT ![w].pc = "stream"]
          /\ holds' = [holds EXCEPT ![w] = FirstGuess]
          /\ Granted(w)
  /\ UNCHANGED free

\* Within the hold the next unit is written at once; beyond it the volume is
\* measured again.
EnsureHeld(w) ==
  /\ writer[w].pc = "stream" /\ writer[w].size < StreamLimit
  /\ IF writer[w].size + 1 <= holds[w]
     THEN /\ writer' = [writer EXCEPT ![w].size = @ + 1]
          /\ free' = free - 1
     ELSE /\ writer' = [writer EXCEPT ![w].pc = "grow", ![w].seen = free, ![w].stale = FALSE]
          /\ UNCHANGED free
  /\ UNCHANGED <<holds, gambled>>

GrowHold(w) ==
  /\ writer[w].pc = "grow"
  /\ LET need   == writer[w].size + 1
         want   == Min({StreamLimit, need + GrowBy})
         usable == Usable(writer[w].seen, ReservedOn({w}))
     IN IF usable < 1
        THEN /\ Release(w)                    \* the unfinished file is removed
             /\ free' = free + writer[w].size
             /\ UNCHANGED gambled
        ELSE /\ holds' = [holds EXCEPT ![w] =
                            Max({@, IF usable < (want - need) + 1 THEN need ELSE want})]
             /\ writer' = [writer EXCEPT ![w].pc = "stream", ![w].size = need]
             /\ free' = free - 1
             /\ Granted(w)

FinishStream(w) ==
  /\ writer[w].pc = "stream" /\ writer[w].size > 0
  /\ \E saved \in BOOLEAN : free' = IF saved THEN free ELSE free + writer[w].size
  /\ Release(w)
  /\ UNCHANGED gambled

\* A write that hangs for good keeps its bytes; its hold expires after holdTTL.
Hang(w) ==
  /\ writer[w].pc \in {"archive", "stream"}
  /\ writer' = [writer EXCEPT ![w].pc = "hung"]
  /\ UNCHANGED <<free, holds, gambled>>

ExpireHold(w) ==
  /\ writer[w].pc = "hung" /\ holds[w] > 0
  /\ holds' = [holds EXCEPT ![w] = 0]
  /\ writer' = [v \in Writers |-> [writer[v] EXCEPT !.stale = v # w]]
  /\ UNCHANGED <<free, gambled>>

DiskSpaceNext ==
  \/ \E w \in Runs : \/ Measure(w, "idle", "preflight") \/ BackupPreflight(w)
                     \/ TakeSnapshot(w) \/ Measure(w, "checked", "output")
                     \/ CheckOutputRoom(w) \/ WriteArchive(w)
  \/ \E w \in Streams : \/ Measure(w, "idle", "reserve") \/ ReserveRoom(w)
                        \/ EnsureHeld(w) \/ GrowHold(w) \/ FinishStream(w)
  \/ \E w \in Writers : Hang(w) \/ ExpireHold(w)
DiskSpaceSpec == DiskSpaceInit /\ [][DiskSpaceNext]_dsVars

----------------------------------------------------------------------------
\* However backups, uploads and restores overlap, together they never push the
\* volume below the margin, as long as no reservation was made from a measurement
\* taken before another writer gave its space back.
FloorKept == ~gambled => free >= FloorSpace

\* The same without the proviso: "the floor below which marbor.db and its
\* write-ahead log are never pushed by a backup, upload or restore".
FloorAlwaysKept == free >= FloorSpace

-----------------------------------------------------------------------------
(***************************************************************************)
(* The saved backup status (internal/admin/backup_status.go).  Outcomes of *)
(* backups, retention passes and sweeps are recorded in memory under       *)
(* backupMu and saved to a file of the backup directory outside it, so     *)
(* saves may be overtaken; a generation number keeps an older snapshot     *)
(* from replacing a newer one.  Changing the directory replaces the memory *)
(* by what the file of the new directory said when it was read, without    *)
(* the lock.  While a directory is missing, a copy next to the database    *)
(* stands in for its file.  An outcome is a number.                        *)
(***************************************************************************)
CONSTANTS Recorders,      \* operations that record or show outcomes, concurrently
          StatusDirs,     \* directories the setting may name
          MaxOutcomes,
          MaxDirChanges   \* settings changed, and directories that come or go

VARIABLES statusDir, noted,    \* backupStatusDir, and the outcomes in backupState
          stateGen, writtenGen,
          statusFile,          \* the outcomes each directory's file holds
          beside,              \* the copy next to the database
          gone,                \* directories that do not exist now
          recorder,            \* per recorder: where it is and what it carries
          target,              \* s.cfg.Backup.TargetDir
          outcomes, dirChanges,
          unsaved,             \* history: directories whose last save failed, or that
                               \* came or went since
          mixed                \* history: the memory was replaced under a save, or by
                               \* what was no longer saved

bsVars == <<statusDir, noted, stateGen, writtenGen, statusFile, beside, gone, recorder,
            target, outcomes, dirChanges, unsaved, mixed>>
genVars == <<stateGen, writtenGen>>
savedVars == <<statusFile, beside, gone>>
memoryVars == <<statusDir, noted, mixed>>

ASSUME BackupStatusAssumption ==
  /\ StatusDirs # {} /\ {MaxOutcomes, MaxDirChanges} \subseteq Nat

Outcomes == 1 .. MaxOutcomes
NoStatus == {0}           \* no file
NotRecording == [pc |-> "idle", dir |-> CHOOSE d \in StatusDirs : TRUE,
                 gen |-> 0, data |-> {}, read |-> NoStatus]

BackupStatusTypeOK ==
  /\ {statusDir, target} \subseteq StatusDirs /\ noted \subseteq Outcomes
  /\ stateGen \in Nat /\ writtenGen \in 0 .. stateGen
  /\ \A d \in StatusDirs : statusFile[d] \in (SUBSET Outcomes) \cup {NoStatus}
  /\ beside \in (SUBSET Outcomes) \cup {NoStatus} /\ gone \subseteq StatusDirs
  /\ \A r \in Recorders :
       recorder[r].pc \in {"idle", "prepare", "install", "ready", "snapshot", "write"}
  /\ outcomes \in 0 .. MaxOutcomes /\ unsaved \subseteq StatusDirs /\ mixed \in BOOLEAN

BackupStatusInit ==
  /\ target \in StatusDirs /\ statusDir = target /\ noted = {}
  /\ stateGen = 0 /\ writtenGen = 0
  /\ statusFile = [d \in StatusDirs |-> NoStatus] /\ beside = NoStatus /\ gone = {}
  /\ recorder = [r \in Recorders |-> NotRecording]
  /\ outcomes = 0 /\ dirChanges = 0 /\ unsaved = {} /\ mixed = FALSE

\* readStatusFor: the file of d, or else the copy next to the database.  A read that
\* fails finds nothing.
Saved(d) == IF d \notin gone /\ statusFile[d] # NoStatus THEN statusFile[d] ELSE beside
Reads(d) == {Saved(d), NoStatus}
Loaded(read) == IF read = NoStatus THEN {} ELSE read

\* installBackupStatus: another directory's history takes the place of the one in
\* memory.
Installed(d, read) == IF d = statusDir THEN noted ELSE Loaded(read)
Install(d, read) ==
  /\ statusDir' = d
  /\ mixed' = (mixed \/ (/\ d # statusDir
                         /\ \/ read # Saved(d)
                            \/ \E r \in Recorders : recorder[r].pc \in {"snapshot", "write"}))

\* An operation fixes the directory it reports to when it starts.
BeginOutcome(r) ==
  /\ recorder[r].pc = "idle"
  /\ recorder' = [recorder EXCEPT ![r] = [@ EXCEPT !.pc = "prepare", !.dir = target]]
  /\ UNCHANGED <<memoryVars, genVars, savedVars, target, outcomes, dirChanges, unsaved>>

\* prepareBackupStatus: unless its status is loaded, the files are read with no lock ...
PrepareBackupStatus(r) ==
  /\ recorder[r].pc = "prepare"
  /\ \/ /\ statusDir = recorder[r].dir
        /\ recorder' = [recorder EXCEPT ![r].pc = "ready"]
     \/ /\ statusDir # recorder[r].dir
        /\ \E read \in Reads(recorder[r].dir) :
             recorder' = [recorder EXCEPT ![r] = [@ EXCEPT !.pc = "install", !.read = read]]
  /\ UNCHANGED <<memoryVars, genVars, savedVars, target, outcomes, dirChanges, unsaved>>

\* ... and what they said is installed under backupMu, if that is still needed.
InstallBackupStatus(r) ==
  LET d == recorder[r].dir IN
  /\ recorder[r].pc = "install"
  /\ Install(d, recorder[r].read) /\ noted' = Installed(d, recorder[r].read)
  /\ recorder' = [recorder EXCEPT ![r] = [@ EXCEPT !.pc = "ready", !.read = NoStatus]]
  /\ UNCHANGED <<genVars, savedVars, target, outcomes, dirChanges, unsaved>>

\* recordBackupOutcomeWarn and its kin, under backupMu; the files are read under it
\* if the directory changed once more.
RecordOutcome(r) ==
  LET d == recorder[r].dir IN
  /\ recorder[r].pc = "ready" /\ outcomes < MaxOutcomes
  /\ outcomes' = outcomes + 1
  /\ \E read \in Reads(d) :
       Install(d, read) /\ noted' = Installed(d, read) \cup {outcomes + 1}
  /\ recorder' = [recorder EXCEPT ![r].pc = "snapshot"]
  /\ UNCHANGED <<genVars, savedVars, target, dirChanges, unsaved>>

\* The dashboard or the scheduler only looks; an outcome that changes nothing is not
\* saved either.
BackupStatusSnapshot(r) ==
  LET d == recorder[r].dir IN
  /\ recorder[r].pc = "ready"
  /\ \E read \in Reads(d) : Install(d, read) /\ noted' = Installed(d, read)
  /\ recorder' = [recorder EXCEPT ![r] = NotRecording]
  /\ UNCHANGED <<genVars, savedVars, target, outcomes, dirChanges, unsaved>>

\* persistBackupStatus takes backupMu again for its snapshot: the memory may by
\* then be another directory's.
SnapshotStatus(r) ==
  /\ recorder[r].pc = "snapshot"
  /\ stateGen' = stateGen + 1
  /\ recorder' = [recorder EXCEPT ![r] = [@ EXCEPT !.pc = "write", !.gen = stateGen + 1,
                                                   !.data = noted]]
  /\ UNCHANGED <<memoryVars, writtenGen, savedVars, target, outcomes, dirChanges, unsaved>>

\* writeStatusFile: next to the database while the directory is missing; else into
\* it, and the copy next to the database goes, if it can be removed.
WriteStatusFile(d, data) ==
  \/ /\ d \notin gone
     /\ statusFile' = [statusFile EXCEPT ![d] = data] /\ beside' \in {beside, NoStatus}
  \/ /\ d \in gone
     /\ beside' = data /\ UNCHANGED statusFile

\* Under backupWriteMu: an older snapshot is dropped; the write may fail.
PersistBackupStatus(r) ==
  LET d == recorder[r].dir IN
  /\ recorder[r].pc = "write"
  /\ recorder' = [recorder EXCEPT ![r] = NotRecording]
  /\ \/ /\ recorder[r].gen < writtenGen
        /\ UNCHANGED <<writtenGen, statusFile, beside, unsaved>>
     \/ /\ recorder[r].gen >= writtenGen /\ writtenGen' = recorder[r].gen
        /\ \/ WriteStatusFile(d, recorder[r].data) /\ unsaved' = unsaved \ {d}
           \/ unsaved' = unsaved \cup {d} /\ UNCHANGED <<statusFile, beside>>
  /\ UNCHANGED <<memoryVars, stateGen, gone, target, outcomes, dirChanges>>

\* The settings name another directory, or a directory comes or goes (a drive is
\* taken away and brought back).
ChangeTargetDir ==
  /\ dirChanges < MaxDirChanges /\ dirChanges' = dirChanges + 1
  /\ \E d \in StatusDirs :
       \/ d # target /\ target' = d /\ UNCHANGED <<gone, unsaved>>
       \/ /\ gone' = IF d \in gone THEN gone \ {d} ELSE gone \cup {d}
          /\ unsaved' = unsaved \cup {d} /\ UNCHANGED target
  /\ UNCHANGED <<memoryVars, genVars, statusFile, beside, recorder, outcomes>>

BackupStatusNext ==
  \/ \E r \in Recorders :
       \/ BeginOutcome(r) \/ PrepareBackupStatus(r) \/ InstallBackupStatus(r)
       \/ RecordOutcome(r) \/ BackupStatusSnapshot(r)
       \/ SnapshotStatus(r) \/ PersistBackupStatus(r)
  \/ ChangeTargetDir
BackupStatusSpec == BackupStatusInit /\ [][BackupStatusNext]_bsVars

----------------------------------------------------------------------------
\* However the saves of concurrent operations overtake each other, when none is under
\* way a restart would load the outcomes that the memory holds, so it shows what the
\* dashboard showed: unless the save failed or its directory came or went since, or
\* the directory was changed between an outcome and its save, or between a reading of
\* its file and the use of what was read.
StatusSaved ==
  (/\ \A r \in Recorders : recorder[r].pc \notin {"snapshot", "write"}
   /\ statusDir \notin unsaved /\ ~mixed)
     => Loaded(Saved(statusDir)) = noted

\* The same with no proviso about readings and changes: a reading that was overtaken
\* loses an outcome that was saved.
StatusAlwaysSaved ==
  (/\ \A r \in Recorders : recorder[r].pc \notin {"snapshot", "write"}
   /\ statusDir \notin unsaved)
     => Loaded(Saved(statusDir)) = noted
=============================================================================
