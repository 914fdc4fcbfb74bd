---------------------------- MODULE BackupArchive ----------------------------
(***************************************************************************)
(* Backup files (internal/store/backupfile.go) and the server's memory of  *)
(* the ones it has verified (internal/admin/backup_verify.go).             *)
(*                                                                         *)
(* A file is an inode: a sequence of gzip members, the fingerprint of the  *)
(* tail record (0: none), and a modification time.  A member is a sequence *)
(* of blocks and whether its checksum holds.  The fingerprint of a content *)
(* is the content itself, with the volatile part of the first block left   *)
(* out.  A verification or a decompression runs beside processes that      *)
(* replace files, edit them in place, or let a disk rot them silently.     *)
(***************************************************************************)
EXTENDS Integers, Sequences, SequencesExt, FiniteSets

CONSTANTS Paths,           \* final backup names
          MaxInodes,       \* bound: files that ever exist
          Archives,        \* contents a file may have: records [members, tail]
          VerifiedCacheMax,\* entries the memory of verifications holds
          VerifiedMaxAge,  \* time an entry counts
          MaxGzipMembers,
          Plans,           \* decompression plans: [free, margin, compressed, live, cap]
          Ratio,           \* MaxBackupExpansionRatio
          MaxDay,          \* bound: clock
          MaxOutside       \* bound: what outsiders do

VARIABLES inode,     \* the inodes in use, by number
          path,      \* Paths -> inode number
          verified,  \* the memory: Paths -> entry, for some of them
          clock,     \* counts uses of the memory
          noting,    \* files just written, which the memory is about to be told of
          verify,    \* the running verification
          now,
          job,       \* the running decompression
          output,    \* its destination: <<>> with no file, or what was written
          outside

archiveVars == <<inode, path, verified, clock, noting, verify, now, job, output, outside>>

NoTail == <<"none">>

\* A block is its volatile part and its page count; a member is its blocks and
\* whether its checksum holds.
Block == Nat \X Nat
GzipMember == [data : Seq(Block), ok : BOOLEAN]
TailRecord == {NoTail} \cup Seq(Block)

ASSUME ArchiveAssumption ==
    /\ \A a \in Archives : a \in [members : Seq(GzipMember), tail : TailRecord]
    /\ Plans \subseteq [free : Nat, margin : Nat, compressed : Nat, live : Nat, cap : Nat]
    /\ Ratio \in Nat \ {0} /\ VerifiedCacheMax \in Nat \ {0} /\ MaxGzipMembers > 1
    /\ {MaxInodes, VerifiedMaxAge, MaxGzipMembers, MaxDay, MaxOutside} \subseteq Nat

\* SHA-256 of the content without the volatile header ranges: the first block of
\* a database carries its change counter (0 or 1) in the first component.
Blank(block) == <<0, block[2]>>
Fingerprint(data) == [i \in DOMAIN data |-> IF i = 1 THEN Blank(data[i]) ELSE data[i]]

Data(members) == FlattenSeq([i \in DOMAIN members |-> members[i].data])
Size(f) == Len(Data(f.members)) + Len(f.members) + (IF f.tail = NoTail THEN 0 ELSE 1)

\* checkSQLiteHeader: a header that promises more pages than there are, or none
\* at all, is refused; the second component of the first block is the page count.
HeaderGood(data) == data # <<>> /\ data[1][2] <= Len(data)

NoVerify == [at |-> "idle", path |-> "", id |-> 0, size |-> 0, mod |-> 0, tail |-> NoTail,
             good |-> FALSE]
NoJob == [at |-> "idle", members |-> <<>>, total |-> 0, limit |-> 0, budget |-> 0, member |-> 0,
          taken |-> 0, done |-> "none"]

ArchiveInit ==
    /\ inode = <<>> /\ path = [p \in {} |-> 0]
    /\ verified = [p \in {} |-> 0] /\ clock = 0 /\ noting = {}
    /\ verify = NoVerify /\ now = 0
    /\ job = NoJob /\ output = <<>>
    /\ outside = MaxOutside

(***************************************************************************)
(* Writing                                                                 *)
(***************************************************************************)
\* A file appears under a name: CompressBackup writes one member and the tail
\* record of its fingerprint, and is verified before it gets its name; outsiders
\* put any archive there.
NewFile(p, members, tail, mod) ==
    /\ Len(inode) < MaxInodes
    /\ inode' = Append(inode, [members |-> members, tail |-> tail, mod |-> mod, rot |-> -1])
    /\ path' = [q \in DOMAIN path \cup {p} |-> IF q = p THEN Len(inode) + 1 ELSE path[q]]

CompressBackup(p, data) ==
    /\ p \notin DOMAIN path /\ HeaderGood(data)
    /\ NewFile(p, <<[data |-> data, ok |-> TRUE]>>, Fingerprint(data), now)
    /\ noting' = noting \cup {[path |-> p, id |-> Len(inode) + 1, mod |-> now]}
    /\ UNCHANGED <<verified, clock, verify, now, job, output, outside>>

Outside == outside > 0 /\ outside' = outside - 1

\* Another file takes the name, perhaps with the old one's time (cp -p).
ReplaceFile(p, a) ==
    /\ p \in DOMAIN path /\ Outside
    /\ \E mod \in {inode[path[p]].mod, now} : NewFile(p, a.members, a.tail, mod)
    /\ UNCHANGED <<verified, clock, noting, verify, now, job, output>>

\* The file is written in place, which gives it a new modification time.
EditFile(p, a) ==
    /\ p \in DOMAIN path /\ Outside
    /\ inode' = [inode EXCEPT ![path[p]] = [members |-> a.members, tail |-> a.tail,
                                            mod |-> @.mod + 10, rot |-> -1]]
    /\ UNCHANGED <<path, verified, clock, noting, verify, now, job, output>>

\* A block goes bad: nothing but the content changes.
Rot(p) ==
    /\ p \in DOMAIN path /\ Outside
    /\ inode[path[p]].members # <<>>
    /\ inode' = [inode EXCEPT ![path[p]].members[1].ok = FALSE, ![path[p]].rot = now]
    /\ UNCHANGED <<path, verified, clock, noting, verify, now, job, output>>

\* Time passes in large steps, in which no verification is under way and the
\* memory knows of every file written.
Tick ==
    /\ now < MaxDay /\ verify.at = "idle" /\ noting = {}
    /\ now' = now + 1
    /\ UNCHANGED <<inode, path, verified, clock, noting, verify, job, output, outside>>

(***************************************************************************)
(* Reading: streamGunzip                                                   *)
(***************************************************************************)
\* FingerprintGzipFile accepts: every member intact, not too many, a database
\* header, and a tail record, if there is one, that agrees with the content.
Intact(f) ==
    /\ \A i \in DOMAIN f.members : f.members[i].ok
    /\ Len(f.members) + (IF f.tail = NoTail THEN 0 ELSE 1) <= MaxGzipMembers
    /\ HeaderGood(Data(f.members))
    /\ f.tail # NoTail => f.tail = Fingerprint(Data(f.members))

\* DecompressLimit: the hard cap, the expansion ratio or the live database, and
\* the room on the disk, the smallest of them; 0 when there is no room at all.
SmallerOf(a, b) == IF a < b THEN a ELSE b
LargerOf(a, b) == IF a > b THEN a ELSE b
RatioCap(p) ==
    IF p.compressed = 0 THEN p.cap
    ELSE SmallerOf(p.cap, LargerOf(p.live, IF p.compressed > p.cap \div Ratio THEN p.cap
                                           ELSE p.compressed * Ratio))
DecompressLimit(p) ==
    IF p.free <= p.margin THEN 0 ELSE SmallerOf(RatioCap(p), p.free - p.margin)

\* DecompressStream clears the destination and opens it; `budget` is what ensure
\* can reserve while the stream grows.
StartDecompress(p) ==
    /\ job.at = "idle" /\ job.done = "none" /\ p \in DOMAIN path
    /\ \E plan \in Plans, budget \in {1, 4} :
         /\ DecompressLimit(plan) > 0
         /\ job' = [NoJob EXCEPT !.at = "member", !.members = inode[path[p]].members,
                                 !.limit = DecompressLimit(plan), !.budget = budget,
                                 !.member = 1]
    /\ output' = <<"file">>
    /\ UNCHANGED <<inode, path, verified, clock, noting, verify, now, outside>>

\* A decompression that failed removes what it wrote; when that fails too, the
\* error says so.
Settle(how) ==
    \/ /\ job' = [job EXCEPT !.at = "idle", !.done = how]
       /\ output' = IF how = "ok" THEN output ELSE <<>>
    \/ /\ how # "ok" /\ job' = [job EXCEPT !.at = "idle", !.done = "partial"]
       /\ UNCHANGED output

\* What the reader may still take: one block more than the limit leaves.
ReadCap == job.limit - job.total + 1
Current == job.members[job.member].data

TooMuch == job.total > job.limit
\* One block is decompressed and written, if the budget covers it first; the
\* context may be cancelled at any read.
DecompressBlock ==
    /\ job.at = "member" /\ job.member <= Len(job.members)
    /\ job.taken < Len(Current) /\ ReadCap > 0
    /\ \/ Settle("cancelled")
       \/ job.total + 1 > job.budget /\ Settle("noroom")
       \/ /\ job.total + 1 <= job.budget
          /\ job' = [job EXCEPT !.total = @ + 1, !.taken = @ + 1]
          /\ output' = Append(output, Current[job.taken + 1])
    /\ UNCHANGED <<inode, path, verified, clock, noting, verify, now, outside>>

\* The end of a member or of what may be read: the checksum is known once the
\* member was read to its end, then the limit is checked, then the next member
\* is looked for; at the end the file is synced and closed.
EndMember ==
    /\ job.at = "member" /\ job.member <= Len(job.members)
    /\ job.taken = Len(Current) \/ ReadCap = 0
    /\ LET ended == job.taken = Len(Current) /\ ReadCap > 0 IN
       IF ended /\ ~job.members[job.member].ok THEN Settle("corrupt")
       ELSE IF TooMuch THEN Settle("toolarge")
       ELSE IF job.taken < Len(Current) THEN Settle("corrupt")   \* Reset inside a member
       ELSE IF job.member = Len(job.members) THEN Settle("ok") \/ Settle("unsynced")
       ELSE IF job.member >= MaxGzipMembers THEN Settle("corrupt")
       ELSE job' = [job EXCEPT !.member = @ + 1, !.taken = 0] /\ UNCHANGED output
    /\ UNCHANGED <<inode, path, verified, clock, noting, verify, now, outside>>

(***************************************************************************)
(* The memory of verifications                                             *)
(***************************************************************************)
EntryByNumbers(p, id, size, mod, tail) ==
    /\ p \in DOMAIN verified
    /\ verified[p].size = size /\ verified[p].mod = mod /\ verified[p].tail = tail
    /\ now - verified[p].since < VerifiedMaxAge

Entry(p, id, size, mod, tail) ==
    /\ p \in DOMAIN verified
    /\ verified[p].size = size /\ verified[p].mod = mod /\ verified[p].tail = tail
    /\ verified[p].id = id
    /\ now - verified[p].since < VerifiedMaxAge

Remembered(p) ==
    LET f == inode[path[p]] IN Entry(p, path[p], Size(f), f.mod, f.tail)

\* integrityOf, the list's word on a file: "unverified" is no promise.
IntegrityOf(p) ==
    IF Remembered(p) THEN IF verified[p].good THEN "ok" ELSE "invalid" ELSE "unverified"

\* get counts the use.
UseRemembered(p) ==
    /\ p \in DOMAIN path /\ Remembered(p)
    /\ clock < MaxInodes /\ clock' = clock + 1
    /\ verified' = [verified EXCEPT ![p].used = clock + 1]
    /\ UNCHANGED <<inode, path, noting, verify, now, job, output, outside>>

\* verifyBackupFileOpts: open and stat, read, stat again, remember.
OpenToVerify(p) ==
    /\ verify.at = "idle" /\ p \in DOMAIN path /\ ~Remembered(p)
    /\ LET f == inode[path[p]] IN
       verify' = [NoVerify EXCEPT !.at = "read", !.path = p, !.id = path[p], !.size = Size(f),
                                  !.mod = f.mod, !.tail = f.tail]
    /\ UNCHANGED <<inode, path, verified, clock, noting, now, job, output, outside>>

ReadToVerify ==
    /\ verify.at = "read"
    /\ verify' = [verify EXCEPT !.at = "stat",
                                !.good = Intact([inode[verify.id] EXCEPT !.tail = verify.tail])]
    /\ UNCHANGED <<inode, path, verified, clock, noting, now, job, output, outside>>

\* put makes room by dropping the entry used longest ago.
Oldest == CHOOSE p \in DOMAIN verified : \A q \in DOMAIN verified :
             verified[p].used <= verified[q].used
Kept(p) == IF p \in DOMAIN verified \/ Cardinality(DOMAIN verified) < VerifiedCacheMax
           THEN DOMAIN verified ELSE DOMAIN verified \ {Oldest}

Put(p, e) ==
    verified' = [q \in Kept(p) \cup {p} |-> IF q = p THEN e ELSE verified[q]]

Unchanged(v) == Size(inode[v.id]) = v.size /\ inode[v.id].mod = v.mod

Remember ==
    /\ verify.at = "stat" /\ verify' = NoVerify
    /\ IF Unchanged(verify)
       THEN Put(verify.path,
                [size |-> verify.size, mod |-> verify.mod, tail |-> verify.tail, id |-> verify.id,
                 since |-> now, good |-> verify.good, used |-> clock, seen |-> TRUE])
       ELSE UNCHANGED verified
    /\ UNCHANGED <<inode, path, clock, noting, now, job, output, outside>>

\* noteVerified, after the file got its name: whatever carries the name by now is
\* remembered as good, unread.  `seen` says that it is the file that was verified.
NoteVerified(w) ==
    /\ noting' = noting \ {w}
    /\ \/ UNCHANGED verified    \* it could not be opened
       \/ /\ w.path \in DOMAIN path
          /\ LET f == inode[path[w.path]] IN
             Put(w.path, [size |-> Size(f), mod |-> f.mod, tail |-> f.tail, id |-> path[w.path],
                          since |-> now, good |-> TRUE, used |-> clock,
                          seen |-> path[w.path] = w.id /\ f.mod = w.mod])
    /\ UNCHANGED <<inode, path, clock, verify, now, job, output, outside>>

\* forget, when a backup is deleted.
DeleteFile(p) ==
    /\ p \in DOMAIN path
    /\ path' = [q \in DOMAIN path \ {p} |-> path[q]]
    /\ verified' = [q \in DOMAIN verified \ {p} |-> verified[q]]
    /\ UNCHANGED <<inode, clock, noting, verify, now, job, output, outside>>

\* Nothing connects a decompression with the memory of verifications, so the two
\* are explored one at a time, each beside everything that happens to the files.
Files(p) ==
    \/ \E a \in Archives : CompressBackup(p, Data(a.members)) \/ ReplaceFile(p, a) \/ EditFile(p, a)
    \/ Rot(p) \/ DeleteFile(p)

DecompressNext ==
    \/ \E p \in Paths : Files(p) \/ StartDecompress(p)
    \/ DecompressBlock \/ EndMember

VerifyNext ==
    \/ \E p \in Paths : Files(p) \/ UseRemembered(p) \/ OpenToVerify(p)
    \/ Tick \/ ReadToVerify \/ Remember
    \/ \E w \in noting : NoteVerified(w)

DecompressSpec == ArchiveInit /\ [][DecompressNext]_archiveVars
VerifySpec == ArchiveInit /\ [][VerifyNext]_archiveVars

(***************************************************************************)
(* Properties                                                              *)
(***************************************************************************)
ArchiveTypeOK ==
    /\ Len(inode) <= MaxInodes /\ DOMAIN path \subseteq Paths
    /\ \A p \in DOMAIN path : path[p] \in DOMAIN inode
    /\ DOMAIN verified \subseteq Paths /\ Cardinality(DOMAIN verified) <= VerifiedCacheMax
    /\ verify.at \in {"idle", "read", "stat"} /\ now \in 0..MaxDay
    /\ job.at \in {"idle", "member"}

\* DecompressStream: a decompression that reports success wrote the content of
\* every member, all of them intact, within its limit; one that fails leaves no
\* file, or says that it does; and never is more written than the disk budget that was ensured first.
DecompressFaithful ==
    /\ job.done = "ok" =>
         /\ output = <<"file">> \o Data(job.members)
         /\ \A i \in DOMAIN job.members : job.members[i].ok
         /\ job.total <= job.limit
    /\ job.done \notin {"ok", "none", "partial"} => output = <<>>
    /\ job.total <= job.budget

\* The list calls a backup good only if its content is: a file replaced or edited
\* since it was verified is not vouched for, one that rotted silently for less than
\* verifiedMaxAge at most, and else only one that took the name of a backup between
\* its commit and noteVerified; and it calls none damaged that is good.
VouchedIsGood ==
    \A p \in DOMAIN path :
      LET f == inode[path[p]] IN
      /\ IntegrityOf(p) = "ok" =>
           Intact(f) \/ (f.rot >= 0 /\ now - f.rot < VerifiedMaxAge) \/ ~verified[p].seen
      /\ IntegrityOf(p) = "invalid" => ~Intact(f)

\* The file noteVerified remembers is the one that was written and verified.  Not
\* so: another one may have taken its name or its place in between.
NotedIsWritten == \A p \in DOMAIN verified : verified[p].seen

=============================================================================
