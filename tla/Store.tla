------------------------------- MODULE Store -------------------------------
(***************************************************************************)
(* The store (internal/store/sqlite.go, secretbox.go): opening a database  *)
(* that an earlier release left behind, and paging through its audit log.  *)
(***************************************************************************)
EXTENDS Naturals, Sequences, FiniteSets, SequencesExt, TLC

-----------------------------------------------------------------------------
(* store.Open: the encryption key beside the database and the migrations of  *)
(* sqliteStore.migrate, one SQL statement (or transaction) per step, with a  *)
(* crash possible after any of them and another process (a --seed-node run)  *)
(* possibly opening the same file.                                           *)
CONSTANTS
    Openers,          \* processes; Server is one of them
    Server,
    SchemaNodes,      \* names in runtime_nodes
    SchemaHost,       \* their hosts
    SchemaColumns,    \* columns added by ALTER TABLE
    OldSchemas,       \* the databases earlier releases left behind
    MaxStoreCrashes   \* bound: processes killed

VARIABLES
    db,          \* the database file
    keyFile,     \* the key in <db>.key; 0 when there is none
    opening,     \* per process: where in Open it is, and its copy of the key
    found,       \* history: the database before the first migration
    plain,       \* history: the value of each secret
    madeKeys,    \* keys generated so far
    storeCrashes

storeVars == <<db, keyFile, opening, found, plain, madeKeys, storeCrashes>>

CurrentSchemaVersion == 1
Sealed(v, k) == [v |-> v, form |-> "v2", under |-> k]
Down == [pc |-> "down", key |-> 0]

\* decryptSecret: legacy plaintext is read as it is.
Readable(secret, k) == secret.form = "plain" \/ secret.under = k

\* The check a backup passes before it may be restored.
ValidateBackupFile(d) == d.stamped /\ d.version <= CurrentSchemaVersion

SchemaHosts == {SchemaHost[n] : n \in SchemaNodes}

\* Rows still keyed by a node name, to be moved to the node's host.
ToRekey(agents) == (DOMAIN agents \cap SchemaNodes) \ SchemaHosts

StoreInit ==
    /\ db \in OldSchemas
    /\ found = db
    /\ plain = [s \in DOMAIN db.secrets |-> db.secrets[s].v]
    /\ keyFile \in {s.under : s \in {db.secrets[x] : x \in DOMAIN db.secrets}
                                     \cup {db.agents[x] : x \in DOMAIN db.agents}}
                    \cup {IF \E x \in DOMAIN db.secrets : db.secrets[x].under # 0 THEN 1 ELSE 0}
    /\ madeKeys = keyFile
    /\ opening = [o \in Openers |-> Down]
    /\ storeCrashes = 0

Now(o, pc) == opening[o].pc = pc
OpenGoes(o, pc) == opening' = [opening EXCEPT ![o].pc = pc]
Fixed == UNCHANGED <<found, plain, storeCrashes>>

----------------------------------------------------------------------------
(* loadOrCreateSecretKey: a missing key is written to a temporary file and    *)
(* renamed into place.                                                        *)

LoadSecretKey(o) ==
    /\ Now(o, "down")
    /\ \/ /\ keyFile # 0
          /\ opening' = [opening EXCEPT ![o] = [pc |-> "check", key |-> keyFile]]
          /\ UNCHANGED madeKeys
       \/ /\ keyFile = 0
          /\ madeKeys' = madeKeys + 1
          /\ opening' = [opening EXCEPT ![o] = [pc |-> "key", key |-> madeKeys + 1]]
    /\ UNCHANGED <<db, keyFile>> /\ Fixed

CreateSecretKey(o) ==
    /\ Now(o, "key")
    /\ keyFile' = opening[o].key
    /\ OpenGoes(o, "check")
    /\ UNCHANGED <<db, madeKeys>> /\ Fixed

----------------------------------------------------------------------------
(* migrate                                                                    *)

\* Mutant: a database of the current version counts as one of a newer program.
CheckSchemaVersionStrict(o) ==
    /\ Now(o, "check")
    /\ OpenGoes(o, IF db.version >= CurrentSchemaVersion THEN "refused" ELSE "tables")
    /\ UNCHANGED <<db, keyFile, madeKeys>> /\ Fixed

CheckSchemaVersion(o) ==
    /\ Now(o, "check")
    /\ OpenGoes(o, IF db.version > CurrentSchemaVersion THEN "refused" ELSE "tables")
    /\ UNCHANGED <<db, keyFile, madeKeys>> /\ Fixed

CreateTables(o) ==
    /\ Now(o, "tables")
    /\ db' = [db EXCEPT !.tables = TRUE]
    /\ OpenGoes(o, "profiles")
    /\ UNCHANGED <<keyFile, madeKeys>> /\ Fixed

\* Every model-only profile fans out to every known node, in one transaction.
FanOut(profiles) ==
    IF profiles.byNode THEN profiles
    ELSE [byNode |-> TRUE, rows |-> profiles.rows \X SchemaNodes]

MigrateModelConfigsToNodeKeyed(o) ==
    /\ Now(o, "profiles")
    /\ db' = [db EXCEPT !.profiles = FanOut(@)]
    /\ OpenGoes(o, "columns")
    /\ UNCHANGED <<keyFile, madeKeys>> /\ Fixed

\* A column that is already there is not an error.
AddColumns(o) ==
    /\ Now(o, "columns")
    /\ \/ \E c \in SchemaColumns \ db.columns :
            db' = [db EXCEPT !.columns = @ \cup {c}] /\ UNCHANGED opening
       \/ SchemaColumns \subseteq db.columns /\ OpenGoes(o, "copy") /\ UNCHANGED db
    /\ UNCHANGED <<keyFile, madeKeys>> /\ Fixed

\* INSERT OR IGNORE: rows of marbor_agent win.
CopyLegacyAgents(o) ==
    /\ Now(o, "copy")
    /\ db' = [db EXCEPT !.agents = @ @@ db.legacy.rows]
    /\ OpenGoes(o, IF db.legacy.exists THEN "drop" ELSE "encrypt")
    /\ UNCHANGED <<keyFile, madeKeys>> /\ Fixed

DropLegacyAgents(o) ==
    /\ Now(o, "drop")
    /\ db' = [db EXCEPT !.legacy = [exists |-> FALSE, rows |-> <<>>]]
    /\ OpenGoes(o, "encrypt")
    /\ UNCHANGED <<keyFile, madeKeys>> /\ Fixed

ReencryptIfNeeded(secret, k) == Sealed(secret.v, k)

Pending(f) == {x \in DOMAIN f : f[x].form # "v2"}

\* One UPDATE per secret: providers and keys first, then agent tokens, then
\* settings; an old-format secret sealed with another key is an error.
EncryptOne(o, part, x) ==
    LET secret == db[part][x]
    IN  IF Readable(secret, opening[o].key)
            THEN db' = [db EXCEPT ![part][x] = ReencryptIfNeeded(secret, opening[o].key)] /\ UNCHANGED opening
            ELSE UNCHANGED db /\ OpenGoes(o, "refused")

MigrateEncryptSecrets(o) ==
    /\ Now(o, "encrypt")
    /\ \/ \E x \in Pending(db.secrets) \ {"setting"} : EncryptOne(o, "secrets", x)
       \/ /\ Pending(db.secrets) \subseteq {"setting"}
          /\ \E x \in Pending(db.agents) : EncryptOne(o, "agents", x)
       \/ /\ Pending(db.secrets) = {"setting"} /\ Pending(db.agents) = {}
          /\ EncryptOne(o, "secrets", "setting")
       \/ /\ Pending(db.secrets) = {} /\ Pending(db.agents) = {}
          /\ OpenGoes(o, "rekey") /\ UNCHANGED db
    /\ UNCHANGED <<keyFile, madeKeys>> /\ Fixed

\* A row keyed by a node name is copied to the node's host, unless the host has
\* a row, and deleted by a second statement.
RekeyByHost(o) ==
    /\ Now(o, "rekey")
    /\ \/ \E n \in ToRekey(db.agents) :
            /\ db' = [db EXCEPT !.agents = @ @@ (SchemaHost[n] :> db.agents[n])]
            /\ opening' = [opening EXCEPT ![o] = [pc |-> "delete", key |-> @.key, row |-> n]]
       \/ ToRekey(db.agents) = {} /\ OpenGoes(o, "stamp") /\ UNCHANGED db
    /\ UNCHANGED <<keyFile, madeKeys>> /\ Fixed

DeleteRekeyed(o) ==
    /\ Now(o, "delete")
    /\ db' = [db EXCEPT !.agents = [x \in DOMAIN @ \ {opening[o].row} |-> @[x]]]
    /\ opening' = [opening EXCEPT ![o] = [pc |-> "rekey", key |-> @.key]]
    /\ UNCHANGED <<keyFile, madeKeys>> /\ Fixed

StampSchemaVersion(o) ==
    /\ Now(o, "stamp")
    /\ db' = [db EXCEPT !.version = CurrentSchemaVersion, !.stamped = TRUE]
    /\ OpenGoes(o, "open")
    /\ UNCHANGED <<keyFile, madeKeys>> /\ Fixed

----------------------------------------------------------------------------
\* An operator saves a secret while the server runs (encryptSecret).
SaveSecret ==
    /\ Now(Server, "open")
    /\ db' = [db EXCEPT !.secrets = ("provider" :> Sealed("new", opening[Server].key)) @@ @]
    /\ plain' = ("provider" :> "new") @@ plain
    /\ UNCHANGED <<keyFile, opening, found, madeKeys, storeCrashes>>

\* A process dies or exits at any point.
Kill(o) ==
    /\ storeCrashes < MaxStoreCrashes
    /\ opening[o] # Down
    /\ opening' = [opening EXCEPT ![o] = Down]
    /\ storeCrashes' = storeCrashes + 1
    /\ UNCHANGED <<db, keyFile, found, plain, madeKeys>>

StoreOpenNext ==
    \/ \E o \in Openers :
         \/ LoadSecretKey(o) \/ CreateSecretKey(o)
         \/ CheckSchemaVersion(o) \/ CreateTables(o)
         \/ MigrateModelConfigsToNodeKeyed(o) \/ AddColumns(o)
         \/ CopyLegacyAgents(o) \/ DropLegacyAgents(o)
         \/ MigrateEncryptSecrets(o)
         \/ RekeyByHost(o) \/ DeleteRekeyed(o)
         \/ StampSchemaVersion(o)
         \/ Kill(o)
    \/ SaveSecret

StoreOpenSpec == StoreInit /\ [][StoreOpenNext]_storeVars

----------------------------------------------------------------------------
StoreOpenTypeOK ==
    /\ db.version \in 0 .. CurrentSchemaVersion + 1
    /\ db.columns \subseteq SchemaColumns
    /\ keyFile \in 0 .. madeKeys
    /\ storeCrashes \in 0 .. MaxStoreCrashes

AllAgents == found.agents @@ found.legacy.rows
Home(k) == IF k \in ToRekey(AllAgents) THEN SchemaHost[k] ELSE k

(* However often opening was cut short, an open database is what one          *)
(* undisturbed migration makes of the database found: the tables and columns  *)
(* are there, every profile exists for every node, every agent row is under   *)
(* its host with a token the host had, every secret is sealed with its value  *)
(* unchanged; and a file that passes ValidateBackupFile, with secrets this key *)
(* reads, is never refused (migrate, migrateRenameNodeAgentTable,             *)
(* migrateEncryptSecrets, migrateMarborAgentRekeyByHost,                      *)
(* migrateModelConfigsToNodeKeyed).                                           *)
MigratedAsIfOnce ==
    \A o \in Openers :
    /\ Now(o, "open") =>
         /\ db.tables /\ db.columns = SchemaColumns /\ ~db.legacy.exists /\ db.stamped
         /\ db.profiles = FanOut(found.profiles)
         /\ DOMAIN db.agents = {Home(k) : k \in DOMAIN AllAgents}
         /\ \A h \in DOMAIN db.agents :
              /\ db.agents[h].form = "v2"
              /\ db.agents[h].v \in IF h \in DOMAIN AllAgents THEN {AllAgents[h].v}
                                    ELSE {AllAgents[k].v : k \in {x \in DOMAIN AllAgents : Home(x) = h}}
         /\ \A s \in DOMAIN db.secrets : db.secrets[s].form = "v2" /\ db.secrets[s].v = plain[s]
    /\ Now(o, "refused") => ~ValidateBackupFile(found)

(* What the server stores can be read with the key the next start will load   *)
(* (loadOrCreateSecretKey).                                                   *)
SecretsReadable ==
    Now(Server, "open") =>
        \A s \in DOMAIN db.secrets : db.secrets[s].form = "v2" => db.secrets[s].under = keyFile

-----------------------------------------------------------------------------
(***************************************************************************)
(* Paging through the audit_log table (QueryPage, internal/audit/audit.go, *)
(* over QueryAuditLog of internal/store/sqlite.go) while entries are       *)
(* inserted and old ones are pruned.                                       *)
(***************************************************************************)

CONSTANTS
    Times,       \* the times entries may carry; the caller of Log chose them
    MaxRows,     \* bound on the rows inserted in a behaviour
    PageLimit    \* opts.Limit of the reader

ASSUME PagesAssumption == Times \subseteq Nat /\ MaxRows \in Nat /\ PageLimit \in Nat \ {0}

VARIABLES
    rowsEver,  \* every row ever inserted: its time, and whether the filter matches it;
               \* the index is the id (AUTOINCREMENT never reuses one)
    kept,      \* the ids that have not been pruned
    reader     \* a page walk of the Requests page

pageVars == <<rowsEver, kept, reader>>

NoPage == [at |-> "idle", back |-> FALSE, cursor |-> 0, rows |-> <<>>, more |-> FALSE,
           next |-> 0, prev |-> 0, seen |-> <<>>, from |-> {}]

PagesInit == rowsEver = <<>> /\ kept = {} /\ reader = NoPage

\* The rows the reader's filter selects.
Matching == {i \in kept : rowsEver[i].matches}

-----------------------------------------------------------------------------
AppendAuditLog(t, m) ==
    /\ Len(rowsEver) < MaxRows
    /\ rowsEver' = Append(rowsEver, [time |-> t, matches |-> m])
    /\ kept' = kept \cup {Len(rowsEver) + 1}
    /\ UNCHANGED reader

\* Deletes by the time of the entry, not by id.
PruneAuditLog(cutoff) ==
    /\ \E i \in kept : rowsEver[i].time < cutoff
    /\ kept' = {i \in kept : rowsEver[i].time >= cutoff}
    /\ UNCHANGED <<rowsEver, reader>>

\* The n members of S that come first when walking up, or down; newest first.
Nearest(S, n, up) ==
    LET taken == {i \in S : Cardinality({j \in S : IF up THEN j < i ELSE j > i}) < n}
    IN  SetToSortSeq(taken, LAMBDA a, b : a > b)

\* LIMIT keeps the rows closest to the cursor; the result is newest first.
QueryAuditLog(limit, before, after) ==
    Nearest({i \in Matching : (before > 0 => i < before) /\ (after > 0 => i > after)}, limit, after > 0)

\* The page without the extra row, which is the one farthest from the cursor.
WithoutExtra(rows, more, up) ==
    IF ~more THEN rows ELSE IF up THEN Tail(rows) ELSE SubSeq(rows, 1, PageLimit)

\* The read of QueryPage, with one row more than the page shows.
FetchPage(before, after) ==
    LET rows == QueryAuditLog(PageLimit + 1, before, after)
        more == Len(rows) > PageLimit
        page == WithoutExtra(rows, more, after > 0)
    IN  /\ reader' = [at |-> "fetched", back |-> after > 0, cursor |-> before + after,
                      rows |-> page, more |-> more, next |-> 0, prev |-> 0,
                      seen |-> IF before > 0 THEN reader.seen \o page ELSE page,
                      from |-> IF before > 0 THEN reader.from
                               ELSE {i \in Matching : page = <<>> \/ i <= page[1]}]
        /\ UNCHANGED <<rowsEver, kept>>

OpenPage  == reader.at \in {"idle", "page"} /\ FetchPage(0, 0)
OlderPage == reader.at = "page" /\ reader.next > 0 /\ FetchPage(reader.next, 0)
NewerPage == reader.at = "page" /\ reader.prev > 0 /\ FetchPage(0, reader.prev)

\* rowExists, a second read, and the cursors of the page.
SettleCursors ==
    LET rows   == reader.rows
        top    == rows[1]
        bottom == rows[Len(rows)]
        older  == IF reader.back THEN QueryAuditLog(1, bottom, 0) # <<>> ELSE reader.more
        newer  == IF reader.back THEN reader.more
                  ELSE reader.cursor > 0 /\ QueryAuditLog(1, 0, top) # <<>>
    IN  /\ reader.at = "fetched"
        /\ reader' = IF rows = <<>> THEN [reader EXCEPT !.at = "page"]
                     ELSE [reader EXCEPT !.at = "page",
                                         !.next = IF older THEN bottom ELSE 0,
                                         !.prev = IF newer THEN top ELSE 0]
        /\ UNCHANGED <<rowsEver, kept>>

PagesNext ==
    \/ \E t \in Times, m \in BOOLEAN : AppendAuditLog(t, m)
    \/ \E t \in Times : PruneAuditLog(t)
    \/ OpenPage \/ OlderPage \/ NewerPage \/ SettleCursors

PagesSpec == PagesInit /\ [][PagesNext]_pageVars

-----------------------------------------------------------------------------
(* Properties.                                                             *)

\* Following the cursor to older pages shows every row that was there when the walk
\* began and is still there, none twice, although rows are inserted and pruned
\* between the pages (QueryPage).
WalkComplete ==
    /\ \A i, j \in DOMAIN reader.seen : i < j => reader.seen[i] > reader.seen[j]
    /\ (reader.at = "page" /\ ~reader.back /\ reader.next = 0)
         => reader.from \cap kept \subseteq Range(reader.seen)

\* A page is contiguous with the cursor it was asked for: no row between the two is
\* left out, and the cursor to the older page is present whenever an older row is.
PageContiguous ==
    LET shown == Range(reader.rows)
    IN  /\ Len(reader.rows) <= PageLimit
        /\ \A i \in Matching \ shown :
             /\ (shown # {} /\ reader.back) => ~(i > reader.cursor /\ i < Max(shown))
             /\ (shown # {} /\ ~reader.back /\ reader.cursor > 0)
                  => ~(i < reader.cursor /\ i > Min(shown))
             /\ (reader.at = "page" /\ shown # {} /\ i < Min(shown)) => reader.next > 0
=============================================================================
