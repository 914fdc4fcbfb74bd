---------------------------- MODULE BackupClient ----------------------------
(***************************************************************************)
(* The backup commands of the command line client                          *)
(* (internal/cli/backup_client.go, internal/cli/backup.go) against a       *)
(* server, a connection, a local directory and other processes that do as  *)
(* they please.  One command runs:                                         *)
(*   "download"  `backup now` and `backup download`: check the output      *)
(*               name, receive into a temporary file, judge the transfer,  *)
(*               place the file under the output name;                     *)
(*   "upload"    send a file and tell what became of it;                   *)
(*   "restore"   request a restore, wait for the restart, read the result; *)
(*   "ack"       read the last restore result and clear that one.          *)
(* A file is a number of chunks; `copy` is the content of the client's     *)
(* temporary file, which the output name shares once it is linked.         *)
(***************************************************************************)
EXTENDS Naturals, FiniteSets

CONSTANTS Chunks,          \* length of the backup
          OthersReplace,   \* another process may also replace a file it did not create
          MaxClientFaults, \* bound: operations of the file system that fail
          MaxPolls,        \* bound: polls before the wait for the restart is over
          MaxServerEvents  \* bound: restarts, outages, other operators' requests

ASSUME ClientAssumption ==
    /\ OthersReplace \in BOOLEAN
    /\ {Chunks, MaxClientFaults, MaxPolls, MaxServerEvents} \subseteq Nat

VARIABLES cmd,     \* the command and its flags
          at,      \* where the client is in it
          told,    \* what it has told its user, "" while it runs
          out,     \* what the output name holds: "none", "theirs", "hold", "ours"
          temp,    \* the temporary file still has its name
          copy,    \* content of the temporary file
          reply,   \* what the server answers
          flags,   \* what happened during the transfer
          lost,    \* a file of another process was replaced or removed
          warned,  \* the user was told of a file left behind
          upload,  \* the upload: chunks sent, server's side, timer
          server,  \* boot number, up, last result, restores applied
          wait,    \* the client's view while it waits
          fsLeft, eventsLeft

clientVars == <<cmd, at, told, out, temp, copy, reply, flags, lost, warned, upload,
                server, wait, fsLeft, eventsLeft>>

\* Results a server reports: 1 is this restore, 2 another operator's, 0 an
\* earlier one without a reference, 3 none.
NoRestoreResult == [ref |-> 3, ok |-> FALSE]
Earlier == [ref |-> 0, ok |-> TRUE]
Commands == [kind : {"download"}, force : BOOLEAN, named : BOOLEAN, links : BOOLEAN]
            \cup [kind : {"upload", "restore", "ack"}, force : {FALSE}, named : {FALSE},
                  links : {FALSE}]

ClientTypeOK ==
    /\ cmd \in Commands
    /\ told \in {"", "saved", "failed", "killed", "uploaded", "nothing", "unsure", "success",
                 "session", "unknown", "timeout", "cleared"}
    /\ out \in {"none", "theirs", "hold", "ours"}
    /\ temp \in BOOLEAN /\ lost \in BOOLEAN /\ warned \in BOOLEAN
    /\ copy \in [got : 0..Chunks, magic : BOOLEAN, synced : BOOLEAN]
    /\ reply \in {"none", "backup", "error", "page", "masked"}
    /\ flags \subseteq {"interrupted", "full", "stalled", "cut", "short", "unsynced", "unclosed"}
    /\ upload \in [sent : 0..Chunks, eof : BOOLEAN, saved : BOOLEAN,
                   answer : {"none", "ok", "refused", "redirect", "page"},
                   fired : {"none", "stalled", "noResponse"}, unread : BOOLEAN]
    /\ server \in [boot : Nat, up : BOOLEAN, result : [ref : 0..3, ok : BOOLEAN],
                   applied : SUBSET {1, 2}, pending : BOOLEAN, session : BOOLEAN]
    /\ wait \in [before : {0} \cup Nat, ref : {0, 1}, down : BOOLEAN, polls : 0..MaxPolls,
                 shown : [ref : 0..3, ok : BOOLEAN]]
    /\ fsLeft \in 0..MaxClientFaults /\ eventsLeft \in 0..MaxServerEvents

ClientInit ==
    /\ cmd \in Commands
    /\ at = "start" /\ told = "" /\ temp = FALSE /\ lost = FALSE /\ warned = FALSE
    /\ out \in IF cmd.kind = "download" THEN {"none", "theirs"} ELSE {"none"}
    /\ copy = [got |-> 0, magic |-> FALSE, synced |-> FALSE]
    /\ reply = "none" /\ flags = {}
    /\ upload = [sent |-> 0, eof |-> FALSE, saved |-> FALSE, answer |-> "none",
                 fired |-> "none", unread |-> FALSE]
    /\ server \in {[boot |-> 1, up |-> TRUE, result |-> r, applied |-> {}, pending |-> FALSE,
                    session |-> TRUE] : r \in {NoRestoreResult, Earlier}}
    /\ wait = [before |-> 0, ref |-> 0, down |-> FALSE, polls |-> 0, shown |-> NoRestoreResult]
    /\ fsLeft = MaxClientFaults /\ eventsLeft = MaxServerEvents

(***************************************************************************)
(* Helpers                                                                 *)
(***************************************************************************)
Local == <<out, temp, copy, reply, flags, lost, warned, fsLeft>>
Remote == <<upload, server, wait, eventsLeft>>
Client(kind, from) == told = "" /\ cmd.kind = kind /\ at = from

\* A file system operation fails, at most MaxClientFaults times in a run.
FsFails == fsLeft > 0 /\ fsLeft' = fsLeft - 1
FsWorks == UNCHANGED fsLeft

Tell(what) == told' = what /\ UNCHANGED at
Goto(there) == at' = there /\ UNCHANGED told

\* The deferred removal of the temporary file of a transfer that did not finish.
RemoveTemp ==
    \/ temp' = FALSE /\ UNCHANGED <<warned, fsLeft>>
    \/ FsFails /\ warned' = TRUE /\ UNCHANGED temp

Fail == Tell("failed") /\ RemoveTemp

(***************************************************************************)
(* Download                                                                *)
(***************************************************************************)
\* checkOutputFree: an existing output is refused before anything is asked of
\* the server, unless it may be replaced or has no name yet.
OutputFree == cmd.force \/ out = "none"

\* checkOutputDir creates and removes a probe file in the output's directory.
StartDownload ==
    /\ Client("download", "start")
    /\ UNCHANGED <<cmd, out, temp, copy, reply, flags, lost, warned, Remote>>
    /\ \/ cmd.named /\ ~OutputFree /\ Tell("failed") /\ FsWorks
       \/ (cmd.named => OutputFree) /\ FsFails /\ Tell("failed")
       \/ (cmd.named => OutputFree) /\ FsWorks /\ Goto("asked")

\* The answer: a backup, an error, a page of some proxy, or something that only
\* calls itself a backup; or no header in time.
Answer ==
    /\ Client("download", "asked")
    /\ UNCHANGED <<cmd, out, temp, copy, flags, lost, warned, fsLeft, Remote>>
    /\ \/ reply' \in {"backup", "error", "page", "masked"} /\ Goto("answered")
       \/ Tell("failed") /\ UNCHANGED reply

\* checkBackupResponse: the status and the content type.
LooksLikeBackup == reply \in {"backup", "masked"}

\* A name taken from the answer is only checked now.
CreateTemp ==
    /\ Client("download", "answered")
    /\ UNCHANGED <<cmd, out, copy, reply, flags, lost, warned, Remote>>
    /\ \/ ~LooksLikeBackup /\ Tell("failed") /\ FsWorks /\ UNCHANGED temp
       \/ LooksLikeBackup /\ ~cmd.named /\ ~OutputFree /\ Tell("failed") /\ FsWorks
          /\ UNCHANGED temp
       \/ /\ LooksLikeBackup /\ (~cmd.named => OutputFree)
          /\ \/ FsFails /\ Tell("failed") /\ UNCHANGED temp
             \/ FsWorks /\ Goto("copy") /\ temp' = TRUE

\* One read of the body and its write; the first bytes carry the magic.
Receive ==
    /\ Client("download", "copy") /\ copy.got < Chunks /\ flags = {}
    /\ copy' = [copy EXCEPT !.got = @ + 1, !.magic = (reply = "backup")]
    /\ UNCHANGED <<cmd, at, told, out, temp, reply, flags, lost, warned, fsLeft, Remote>>

\* The transfer ends: a write fails, the connection breaks with an error or
\* closes early, no data comes for downloadStallTimeout, or everything is here.
EndCopy ==
    /\ Client("download", "copy") /\ Goto("flush")
    /\ \/ copy.got < Chunks /\ FsFails /\ flags' = flags \cup {"full"}
       \/ FsWorks /\ \E why \in {"stalled", "cut"} : flags' = flags \cup {why}
       \/ FsWorks /\ copy.got < Chunks /\ flags = {} /\ flags' = {"short"}
       \/ FsWorks /\ copy.got < Chunks /\ "interrupted" \in flags /\ flags' = flags \cup {"cut"}
       \/ FsWorks /\ copy.got = Chunks /\ UNCHANGED flags
    /\ UNCHANGED <<cmd, out, temp, copy, reply, lost, warned, Remote>>

\* The first interrupt closes the body; it counts only until the transfer is judged.
Interrupt ==
    /\ told = "" /\ cmd.kind = "download" /\ at \in {"copy", "flush", "judge"}
    /\ "interrupted" \notin flags
    /\ flags' = flags \cup {"interrupted"}
    /\ UNCHANGED <<cmd, at, told, out, temp, copy, reply, lost, warned, fsLeft, Remote>>

\* The file is synced when the copy succeeded, and closed in any case.
Flush ==
    /\ Client("download", "flush") /\ Goto("judge")
    /\ \/ flags \cap {"full", "stalled", "cut"} # {} /\ FsWorks /\ UNCHANGED <<copy, flags>>
       \/ /\ flags \cap {"full", "stalled", "cut"} = {}
          /\ \/ FsWorks /\ copy' = [copy EXCEPT !.synced = TRUE] /\ UNCHANGED flags
             \/ FsFails /\ flags' = flags \cup {"unsynced"} /\ UNCHANGED copy
    /\ UNCHANGED <<cmd, out, temp, reply, lost, warned, Remote>>

\* The switch of saveBackupResponse, then checkBackupMagic.
TransferGood == flags = {} /\ copy.magic

JudgeTransfer ==
    /\ Client("download", "judge")
    /\ UNCHANGED <<cmd, out, copy, reply, flags, lost, Remote>>
    /\ \/ ~TransferGood /\ Fail
       \/ TransferGood /\ Goto("place") /\ UNCHANGED <<temp, warned, fsLeft>>

\* placeFile with --force: a rename over whatever is there.
PlaceForced ==
    /\ Client("download", "place") /\ cmd.force
    /\ UNCHANGED <<cmd, copy, reply, flags, lost, Remote>>
    /\ \/ out' = "ours" /\ temp' = FALSE /\ Goto("placed") /\ UNCHANGED <<warned, fsLeft>>
       \/ FsFails /\ Goto("undo") /\ UNCHANGED <<out, temp, warned>>

\* placeFile where the file system has hard links: the link fails on an existing
\* output, and the temporary name goes afterwards.
PlaceLinked ==
    /\ Client("download", "place") /\ ~cmd.force /\ cmd.links
    /\ UNCHANGED <<cmd, copy, reply, flags, lost, Remote>>
    /\ \/ out # "none" /\ Fail /\ UNCHANGED out
       \/ out = "none" /\ out' = "ours" /\ Goto("linked") /\ UNCHANGED <<temp, warned, fsLeft>>

RemoveLinkedTemp ==
    /\ Client("download", "linked") /\ RemoveTemp /\ Goto("placed")
    /\ UNCHANGED <<cmd, out, copy, reply, flags, lost, Remote>>

\* Without links: an exclusively created placeholder, which a rename replaces.
PlaceHolder ==
    /\ Client("download", "place") /\ ~cmd.force /\ ~cmd.links
    /\ UNCHANGED <<cmd, copy, reply, lost, Remote>>
    /\ \/ out # "none" /\ Fail /\ UNCHANGED <<out, flags>>
       \/ out = "none" /\ out' = "hold" /\ Goto("swap") /\ UNCHANGED <<temp, flags, warned, fsLeft>>
       \/ out = "none" /\ FsFails /\ Goto("undo") /\ UNCHANGED <<out, temp, flags, warned>>
       \/ /\ out = "none" /\ out' = "hold" /\ FsFails      \* it cannot be closed
          /\ flags' = {"unclosed"} /\ Goto("unhold") /\ UNCHANGED <<temp, warned>>

SwapHolder ==
    /\ Client("download", "swap")
    /\ UNCHANGED <<cmd, copy, reply, flags, warned, Remote>>
    /\ \/ FsWorks /\ out' = "ours" /\ temp' = FALSE /\ Goto("placed") /\ lost' = (lost \/ out = "theirs")
       \/ FsFails /\ Goto("unhold") /\ UNCHANGED <<out, temp, lost>>

\* The placeholder goes; that it stays is told when the rename failed, and not when
\* it could not be closed.
RemoveHolder ==
    /\ Client("download", "unhold") /\ Goto("undo")
    /\ UNCHANGED <<cmd, temp, copy, reply, flags, Remote>>
    /\ \/ out' = "none" /\ lost' = (lost \/ out = "theirs") /\ UNCHANGED <<warned, fsLeft>>
       \/ FsFails /\ warned' = (warned \/ flags = {}) /\ UNCHANGED <<out, lost>>

\* The deferred removal after a placement that failed.
UndoPlace ==
    /\ Client("download", "undo") /\ Fail
    /\ UNCHANGED <<cmd, out, copy, reply, flags, lost, Remote>>

\* syncParentDir, whose failure is only a warning.
SyncParentDir ==
    /\ Client("download", "placed") /\ Tell("saved")
    /\ UNCHANGED <<cmd, Local, Remote>>

\* The process is killed or the machine loses power: what was not synced may be gone.
Kill ==
    /\ told = "" /\ cmd.kind = "download" /\ Tell("killed")
    /\ \/ UNCHANGED copy
       \/ ~copy.synced /\ copy' = [copy EXCEPT !.got = 0]
    /\ UNCHANGED <<cmd, out, temp, reply, flags, lost, warned, fsLeft, Remote>>

\* Another process uses the output name: it creates a file, or puts one in the
\* place of the empty placeholder.
OtherProcess ==
    /\ cmd.kind = "download" /\ told = ""
    /\ out = "none" \/ (OthersReplace /\ out = "hold")
    /\ out' = "theirs"
    /\ UNCHANGED <<cmd, at, told, temp, copy, reply, flags, lost, warned, fsLeft, Remote>>

(***************************************************************************)
(* Upload                                                                  *)
(***************************************************************************)
UploadOnly == UNCHANGED <<cmd, Local, server, wait>>

\* The sending goroutine reads a chunk, which resets the idle timer; a read
\* error ends the request.
SendChunk ==
    /\ Client("upload", "start") /\ upload.sent < Chunks /\ ~upload.unread
    /\ \E bad \in BOOLEAN :
         upload' = [upload EXCEPT !.sent = IF bad THEN @ ELSE @ + 1, !.unread = bad]
    /\ UNCHANGED <<at, told, eventsLeft>> /\ UploadOnly

\* End of file: sent is set, and only then the closing boundary goes out.
SendEOF ==
    /\ Client("upload", "start") /\ upload.sent = Chunks /\ ~upload.eof
    /\ upload' = [upload EXCEPT !.eof = TRUE]
    /\ UNCHANGED <<at, told, eventsLeft>> /\ UploadOnly

\* The server answers once it has the whole form; a proxy may answer at any time,
\* with a redirect, an error or a page of its own.
ServeUpload ==
    /\ Client("upload", "start") /\ upload.answer = "none"
    /\ \/ upload.eof /\ upload' = [upload EXCEPT !.answer = "ok", !.saved = TRUE]
       \/ \E word \in {"refused", "redirect", "page"} : upload' = [upload EXCEPT !.answer = word]
    /\ UNCHANGED <<at, told, eventsLeft>> /\ UploadOnly

\* The server saves the file, and its answer never arrives.
LoseAnswer ==
    /\ Client("upload", "start") /\ upload.answer = "none" /\ upload.eof
    /\ eventsLeft > 0 /\ eventsLeft' = eventsLeft - 1
    /\ upload' = [upload EXCEPT !.saved = TRUE]
    /\ UNCHANGED <<at, told>> /\ UploadOnly

\* The timer's function asks whether everything was sent, and then cancels.
TimerFires ==
    /\ Client("upload", "start") /\ upload.fired = "none"
    /\ upload' = [upload EXCEPT !.fired = IF upload.eof THEN "noResponse" ELSE "stalled"]
    /\ UNCHANGED <<at, told, eventsLeft>> /\ UploadOnly

\* A redirect is not followed (CheckRedirect).
Redirected == UNCHANGED upload

\* UploadBackup's classification of an answer: with any 2xx the upload is accepted,
\* whatever the body is.
UploadAnswered ==
    /\ Client("upload", "start") /\ upload.answer # "none"
    /\ Redirected
    /\ told' = CASE upload'.answer \in {"ok", "page"} -> "uploaded"
                 [] upload'.answer = "redirect" -> "nothing"
                 [] OTHER -> "failed"
    /\ UNCHANGED <<at, eventsLeft>> /\ UploadOnly

\* And of a request that failed: the file could not be read, the timer, the network.
UploadFailed ==
    /\ Client("upload", "start")
    /\ \/ upload.unread /\ Tell("failed")
       \/ ~upload.unread /\ upload.fired # "none"
          /\ Tell(IF upload.fired = "stalled" THEN "nothing" ELSE "unsure")
       \/ ~upload.unread /\ upload.fired = "none" /\ upload.answer = "none" /\ Tell("failed")
    /\ UNCHANGED <<upload, eventsLeft>> /\ UploadOnly

(***************************************************************************)
(* Restore and wait, acknowledge                                           *)
(***************************************************************************)
ServerEvent == eventsLeft > 0 /\ eventsLeft' = eventsLeft - 1
WaitOnly == UNCHANGED <<cmd, Local, upload>>

\* runBackupRestore: the start time before the request when /health answers; the
\* request is accepted, and its reference arrives or the answer cannot be parsed.
RequestRestore ==
    /\ Client("restore", "start") /\ server.up /\ Goto("wait")
    /\ \E known, parsed \in BOOLEAN :
         wait' = [wait EXCEPT !.before = IF known THEN server.boot ELSE 0,
                              !.ref = IF parsed THEN 1 ELSE 0]
    /\ server' = [server EXCEPT !.pending = TRUE]
    /\ UNCHANGED eventsLeft /\ WaitOnly

\* The server comes back, having carried out the pending restore or not.
Restart ==
    /\ cmd.kind \in {"restore", "ack"} /\ told = "" /\ ServerEvent
    /\ \E carried, kept \in BOOLEAN :
         server' = [server EXCEPT
            !.boot = @ + 1, !.up = TRUE, !.pending = FALSE,
            !.result = IF server.pending THEN [ref |-> 1, ok |-> carried] ELSE @,
            !.applied = IF server.pending /\ carried THEN @ \cup {1} ELSE @,
            !.session = IF server.pending /\ carried THEN kept ELSE @]
    /\ UNCHANGED <<at, told, wait>> /\ WaitOnly

\* The server is stopped or unreachable for a while, another operator's restore
\* replaces the result, or another operator clears it, or ends the session.
Meanwhile ==
    /\ cmd.kind \in {"restore", "ack"} /\ told = "" /\ ServerEvent
    /\ \/ server' = [server EXCEPT !.up = ~@]
       \/ ~server.pending /\ \E ok \in BOOLEAN :
            server' = [server EXCEPT !.result = [ref |-> 2, ok |-> ok], !.boot = @ + 1,
                                     !.applied = IF ok THEN @ \cup {2} ELSE @]
       \/ server' = [server EXCEPT !.result = NoRestoreResult]
       \/ server' = [server EXCEPT !.session = FALSE]
    /\ UNCHANGED <<at, told, wait>> /\ WaitOnly

ReadAnyResult(r, ref) ==
    IF r.ref = 3 THEN "unknown" ELSE IF r.ok THEN "success" ELSE "failed"

\* The result of /admin/backup/list as waitForRestore reads it.
ReadResult(r, ref) ==
    IF r.ref = 3 \/ (ref # 0 /\ r.ref # ref) THEN "unknown"
    ELSE IF r.ok THEN "success" ELSE "failed"

\* One poll of waitForRestore, or the end of its patience.
PollRestore ==
    /\ Client("restore", "wait")
    /\ UNCHANGED <<server, eventsLeft>> /\ WaitOnly
    /\ \/ wait.polls = MaxPolls /\ Tell("timeout") /\ UNCHANGED wait
       \/ /\ wait.polls < MaxPolls
          /\ wait' = [wait EXCEPT !.polls = @ + 1, !.down = @ \/ ~server.up]
          /\ LET restarted == wait.before # 0 /\ server.boot # wait.before
                 back == server.up /\ (restarted \/ (wait.down /\ wait.before = 0))
             IN \/ ~back /\ UNCHANGED <<at, told>>
                \/ back /\ ~server.session /\ Tell("session")
                \/ back /\ server.session /\ Tell(ReadResult(server.result, wait.ref))
                \/ back /\ UNCHANGED <<at, told>>    \* the list could not be read

\* runBackupAck reads the result first ...
ShowResult ==
    /\ Client("ack", "start") /\ server.up
    /\ UNCHANGED <<server, eventsLeft>> /\ WaitOnly
    /\ wait' = [wait EXCEPT !.shown = server.result]
    /\ IF server.result = NoRestoreResult THEN Tell("nothing") ELSE Goto("shown")

\* ... and asks to clear the one with that reference.
Acknowledge ==
    /\ Client("ack", "shown") /\ server.up
    /\ IF server.result.ref = wait.shown.ref
       THEN server' = [server EXCEPT !.result = NoRestoreResult] /\ Tell("cleared")
       ELSE UNCHANGED server /\ Tell("failed")
    /\ UNCHANGED <<wait, eventsLeft>> /\ WaitOnly

Downloading ==
    \/ StartDownload \/ Answer \/ CreateTemp \/ Receive \/ EndCopy \/ Interrupt \/ Flush
    \/ JudgeTransfer \/ PlaceForced \/ PlaceLinked \/ RemoveLinkedTemp \/ PlaceHolder
    \/ SwapHolder \/ RemoveHolder \/ UndoPlace \/ SyncParentDir \/ Kill
    \/ (OtherProcess /\ UNCHANGED eventsLeft)

ClientNext ==
    \/ Downloading
    \/ SendChunk \/ SendEOF \/ ServeUpload \/ LoseAnswer \/ TimerFires \/ UploadAnswered
    \/ UploadFailed
    \/ RequestRestore \/ Restart \/ Meanwhile \/ PollRestore \/ ShowResult \/ Acknowledge

ClientSpec == ClientInit /\ [][ClientNext]_clientVars

(***************************************************************************)
(* Properties                                                              *)
(***************************************************************************)
\* The download commands (saveBackupResponse, placeFile): whatever carries the
\* output name and is not another's is the whole backup, also after a kill or a
\* power cut; without --force no file of another process is replaced or removed;
\* and a command that ended by itself leaves neither its temporary file nor its
\* placeholder without saying so, but for a placeholder it could not close.
DownloadSafe ==
    cmd.kind = "download" =>
      /\ out = "ours" => copy.got = Chunks /\ copy.magic
      /\ ~cmd.force => ~lost
      /\ told = "saved" => out = "ours" /\ copy.synced
      /\ told \in {"saved", "failed"} => 
           (temp => warned) /\ (out = "hold" => warned \/ flags = {"unclosed"})

\* No leftover goes untold.  Not so: of a placeholder that could not be closed, the
\* removal's error is dropped.
LeftoversTold == told \in {"saved", "failed"} => (temp \/ out = "hold" => warned)

\* What the client tells its user is what happened: an upload that the server, and
\* not a page of a proxy, calls accepted is on the server, and a wait that knows its
\* reference confirms a success or a failure only of that restore, whatever other
\* operators' restores, acknowledgements, outages and restarts happened meanwhile.
ClientTellsTruth ==
    /\ told = "uploaded" => upload.saved \/ upload.answer = "page"
    /\ (cmd.kind = "restore" /\ wait.ref = 1) =>
         /\ told = "success" => 1 \in server.applied
         /\ told = "failed" => 1 \notin server.applied

\* What is called accepted is on the server, and what is called not saved is not.
\* Neither is so: a page of a proxy passes for an acceptance; and the timer may find
\* the file unsent, which it is not any more when the request is cancelled.
AcceptedIsSaved == told = "uploaded" => upload.saved
NothingIsSaved == cmd.kind = "upload" /\ told = "nothing" => ~upload.saved

=============================================================================
