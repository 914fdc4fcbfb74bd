----------------------------- MODULE MCBackups -----------------------------
(* The parts of backup and restore, side by side: each behaviour exercises   *)
(* the one part `focus` names, with its concurrent operations, faults and    *)
(* crashes, while the others rest.  They share no state here, so one run     *)
(* explores them all.                                                        *)
EXTENDS Restore, BackupDir, BackupClient, BackupArchive

VARIABLE focus

backupVars == <<focus, restoreVars, bdVars, dsVars, bsVars, clientVars, archiveVars>>

-----------------------------------------------------------------------------
(* Archives: gzip members, each a sequence of <<byte, length>> runs with its *)
(* checksum right or wrong, and the SQLite tail a scan of the end may find.  *)

Member(data, ok) == [data |-> data, ok |-> ok]
MCArchives ==
    {[members |-> <<Member(<<<<0, 2>>, <<1, 1>>>>, TRUE)>>, tail |-> <<<<0, 2>>, <<1, 1>>>>],
     [members |-> <<Member(<<<<1, 2>>, <<1, 2>>>>, TRUE)>>, tail |-> <<<<0, 2>>, <<1, 1>>>>],
     [members |-> <<Member(<<<<1, 2>>>>, TRUE), Member(<<<<1, 1>>>>, TRUE)>>, tail |-> NoTail],
     [members |-> <<Member(<<<<0, 1>>>>, TRUE), Member(<<<<0, 1>>>>, FALSE), Member(<<>>, TRUE)>>,
      tail |-> NoTail]}

\* Room enough, room for a part, no room, and a small limit with room.
Plan(room, spare, size, limit) ==
    [free |-> room, margin |-> spare, compressed |-> 3, live |-> size, cap |-> limit]
MCPlans == {Plan(9, 1, 0, 20), Plan(3, 2, 0, 20), Plan(2, 2, 0, 20), Plan(99, 1, 7, 1)}

-----------------------------------------------------------------------------
(* One part at a time. *)

BackupsInit ==
    /\ focus \in {"restore", "dir", "space", "status", "client", "decompress", "verify"}
    /\ RestoreInit
    /\ BackupDirInit
    /\ DiskSpaceInit
    /\ BackupStatusInit /\ (focus # "status" => target = CHOOSE d \in StatusDirs : TRUE)
    /\ ClientInit
    /\ focus # "client" => /\ cmd = CHOOSE c \in Commands : c.kind # "download"
                           /\ server.result = NoRestoreResult
    /\ ArchiveInit

\* The parts other than p rest.
Only(p) ==
    /\ focus = p
    /\ UNCHANGED focus
    /\ IF p = "restore" THEN TRUE ELSE UNCHANGED restoreVars
    /\ IF p = "dir" THEN TRUE ELSE UNCHANGED bdVars
    /\ IF p = "space" THEN TRUE ELSE UNCHANGED dsVars
    /\ IF p = "status" THEN TRUE ELSE UNCHANGED bsVars
    /\ IF p = "client" THEN TRUE ELSE UNCHANGED clientVars
    /\ IF p \in {"decompress", "verify"} THEN TRUE ELSE UNCHANGED archiveVars

BackupsNext ==
    \/ Only("restore") /\ RestoreNext
    \/ Only("dir") /\ BackupDirNext
    \/ Only("space") /\ DiskSpaceNext
    \/ Only("status") /\ BackupStatusNext
    \/ Only("client") /\ ClientNext
    \/ Only("decompress") /\ DecompressNext
    \/ Only("verify") /\ VerifyNext

BackupsSpec == BackupsInit /\ [][BackupsNext]_backupVars

-----------------------------------------------------------------------------
\* Wherever the process dies, the restore it accepted is tried, can be found, and
\* is reported as what happened to it.
RestoreSound ==
    focus = "restore" =>
        /\ RestoreTypeOK /\ ReportsTruthful /\ AcceptedDiscoverable /\ AcceptedIsTried
        /\ SwapsWhatWasAccepted

\* Retention keeps the backups that count as good and enforces its budget, no sweep
\* takes a file that is being written, writers together leave the margin free, and the
\* status file holds what was noted last.
BackupsKept ==
    /\ focus = "dir" => BackupDirTypeOK /\ GoodBackupsKept /\ LiveTempsKept /\ RetentionEnforced
    /\ focus = "space" => DiskSpaceTypeOK /\ FloorKept
    /\ focus = "status" => BackupStatusTypeOK /\ StatusSaved

\* A decompressed file is the archive's content, and a file that the list calls good
\* is one that was read and found good, or noted right after it was written.
ArchivesSound ==
    /\ focus \in {"decompress", "verify"} => ArchiveTypeOK
    /\ focus = "decompress" => DecompressFaithful
    /\ focus = "verify" => VouchedIsGood

\* The command line overwrites no file of others, leaves no half of one, and tells
\* the operator what happened on the server.
ClientSound == focus = "client" => ClientTypeOK /\ DownloadSafe /\ ClientTellsTruth
=============================================================================
