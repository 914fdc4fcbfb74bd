------------------------------ MODULE Accounts ------------------------------
(***************************************************************************)
(* Users, sessions and API keys behind the admin API: the handlers of      *)
(* internal/admin/admin.go over the users, user_sessions and runtime_keys  *)
(* tables (internal/store/sqlite.go) and the live keys of internal/auth.   *)
(*                                                                         *)
(* Every statement of the store is one step; between two of them another   *)
(* handler may run.  User handlers read a row, decide, and write the row   *)
(* back whole (UpdateUser); only a password change and a skip are          *)
(* conditional statements.  Key handlers hold keysMu across the store      *)
(* write and the change of the live keys, and so does a config reload.     *)
(* The probes of pulls and benchmarks do not: each stores a key of its     *)
(* own, makes it live, revokes and deletes it, whoever holds the mutex.    *)
(***************************************************************************)
EXTENDS Naturals, FiniteSets

CONSTANTS
    Handlers,       \* admin requests being served concurrently
    Accounts,       \* usernames; rows are never reused (a delete is soft)
    FirstAdmins,    \* the accounts that are active admins at the start
    KeyNames,       \* API key names
    ProbeNames,     \* those with a prefix reserved for probes
    MaxSkips,       \* maxSkipPasswordChanges
    MaxHandled,     \* bound on the requests served
    MaxStoreFaults, \* bound on failing store writes
    MaxAccountBoots \* bound on restarts

ASSUME AccountsAssumption ==
    /\ MaxSkips \in Nat /\ FirstAdmins \subseteq Accounts /\ ProbeNames \subseteq KeyNames
    /\ "free" \notin Handlers

NoKey == "nokey"
NoRow == [role |-> "user", status |-> "none", gone |-> FALSE, pass |-> 0, must |-> FALSE,
          skips |-> 0, key |-> NoKey]

VARIABLES
    users,      \* the users table; pass counts the passwords an account had
    sessions,   \* user_sessions: account, role and forced flag as of its creation
    storedKey,  \* runtime_keys: "absent", "active", "revoked", and the version
    liveKey,    \* the keys the proxy accepts: 0, or the version accepted
    keysMu,     \* the handler that holds keysMu, or "free"
    probing,    \* per probe key: how far its probe is
    handling,       \* per handler: where it is and what it has read
    revokeAcked,\* key versions whose revocation was acknowledged
    used        \* requests, faults and restarts used up

accountVars ==
    <<users, sessions, storedKey, liveKey, keysMu, probing, handling, revokeAcked, used>>

OperatorKeys == KeyNames \ ProbeNames

IdleCall == [pc |-> "idle", op |-> "none", u |-> CHOOSE a \in Accounts : TRUE,
             by |-> CHOOSE a \in Accounts : TRUE, row |-> NoRow, k |-> NoKey, forced |-> FALSE,
             read |-> [k \in KeyNames |-> 0]]

AccountsInit ==
    /\ users = [a \in Accounts |-> IF a \in FirstAdmins
                                   THEN [NoRow EXCEPT !.role = "admin", !.status = "active",
                                                      !.pass = 1]
                                   ELSE NoRow]
    /\ sessions = {[user |-> a, role |-> "admin", must |-> FALSE] : a \in FirstAdmins}
    /\ storedKey = [k \in KeyNames |-> [state |-> "absent", version |-> 0]]
    /\ liveKey = [k \in KeyNames |-> 0]
    /\ keysMu = "free"
    /\ probing = [k \in ProbeNames |-> "none"]
    /\ handling = [h \in Handlers |-> IdleCall]
    /\ revokeAcked = {}
    /\ used = [requests |-> 0, faults |-> 0, boots |-> 0]

-----------------------------------------------------------------------------
\* What a statement of the store does.

CountAdminUsers == Cardinality({a \in Accounts : users[a].role = "admin" /\ ~users[a].gone
                                                 /\ users[a].status # "none"})
\* UpdateUser writes every column but the deletion mark.
UpdateUser(u, row) == users' = [users EXCEPT ![u] = [row EXCEPT !.gone = users[u].gone]]
DropSessions(u) == sessions' = {s \in sessions : s.user # u}
OpenSession(u, role, must) ==
    sessions' = sessions \cup {[user |-> u, role |-> role, must |-> must]}

Goes(h, to) == handling' = [handling EXCEPT ![h].pc = to]
Ends(h) == handling' = [handling EXCEPT ![h] = IdleCall]
\* A store write may fail; the handler then answers an error.
StoreFault == /\ used.faults < MaxStoreFaults
              /\ used' = [used EXCEPT !.faults = @ + 1]

\* A request enters: adminAuth wants an admin session with no forced change.
Enters(h, operation, u, b, row, key, f) ==
    /\ handling[h].pc = "idle" /\ used.requests < MaxHandled
    /\ used' = [used EXCEPT !.requests = @ + 1]
    /\ handling' = [handling EXCEPT ![h] = [IdleCall EXCEPT !.pc = "read", !.op = operation, !.u = u,
                                      !.by = b, !.row = row, !.k = key, !.forced = f]]
AdminAuth(b) == [user |-> b, role |-> "admin", must |-> FALSE] \in sessions

-----------------------------------------------------------------------------
\* Users.

userRest == <<storedKey, liveKey, keysMu, probing, revokeAcked>>

\* The handlers that read the row first: every admin handler reads it by id, a
\* login, a password change and a skip by name (deleted rows included).
ReadUser(h, op, u) ==
    /\ users[u].status # "none"
    /\ CASE op \in {"suspend", "delete", "promote", "demote", "reset", "approve"} ->
              \E b \in Accounts : AdminAuth(b) /\ Enters(h, op, u, b, users[u], NoKey, FALSE)
         [] op = "login" ->
              /\ users[u].status = "active"
              /\ Enters(h, op, u, u, users[u], NoKey, FALSE)
         [] op \in {"change", "skip"} ->
              \E s \in sessions : s.user = u /\ Enters(h, op, u, u, users[u], NoKey, s.must)
    /\ UNCHANGED <<users, sessions, userRest>>

\* handleLoginForRole creates the session from the row it read.
LoginSession(h) ==
    /\ handling[h].pc = "read" /\ handling[h].op = "login"
    /\ OpenSession(handling[h].u, handling[h].row.role, handling[h].row.must)
    /\ Ends(h)
    /\ UNCHANGED <<users, used, userRest>>

Logout ==
    /\ \E s \in sessions : sessions' = sessions \ {s}
    /\ UNCHANGED <<users, handling, used, userRest>>

\* ChangeUserPassword is conditional on the hash that was read, anything else is
\* the 409.  Unless a forced change is pending, for the session and still for the
\* account, the current password must be proved, which may fail.
ChangePassword(h) ==
    /\ handling[h].pc = "read" /\ handling[h].op = "change"
    /\ LET u == handling[h].u
           new == users[u].pass + 1 IN
       \/ /\ users[u].pass = handling[h].row.pass
          /\ users' = [users EXCEPT ![u] = [users[u] EXCEPT !.pass = new, !.must = FALSE,
                                                           !.skips = 0]]
          /\ Goes(h, "drop")
       \/ /\ \/ users[u].pass # handling[h].row.pass
             \/ ~(handling[h].forced /\ handling[h].row.must)
          /\ Ends(h)
          /\ UNCHANGED users
    /\ UNCHANGED <<sessions, used, userRest>>

\* IncrementSkipCount is conditional on the flag and the limit.
SkipPasswordChange(h) ==
    /\ handling[h].pc = "read" /\ handling[h].op = "skip"
    /\ LET u == handling[h].u IN
       \/ /\ handling[h].row.must /\ handling[h].row.skips < MaxSkips
          /\ users[u].must /\ users[u].skips < MaxSkips
          /\ users' = [users EXCEPT ![u].skips = @ + 1]
          /\ Goes(h, "drop")
       \/ /\ ~(handling[h].row.must /\ handling[h].row.skips < MaxSkips /\ users[u].must
                 /\ users[u].skips < MaxSkips)
          /\ Ends(h)
          /\ UNCHANGED users
    /\ UNCHANGED <<sessions, used, userRest>>

\* Both then end every session of the account and issue a fresh one; a failing
\* statement leaves the answer "please sign in again".
DropThenIssue(h) ==
    /\ handling[h].op \in {"change", "skip"}
    /\ \/ /\ handling[h].pc = "drop" /\ DropSessions(handling[h].u) /\ Goes(h, "issue") /\ UNCHANGED used
       \/ /\ handling[h].pc = "issue" /\ OpenSession(handling[h].u, handling[h].row.role, FALSE)
          /\ Ends(h) /\ UNCHANGED used
       \/ /\ handling[h].pc \in {"drop", "issue"} /\ StoreFault /\ Ends(h) /\ UNCHANGED sessions
    /\ UNCHANGED <<users, userRest>>

\* handleCreateUser: an admin is active at once, a user waits for approval.
CreateUser(h, u, role) ==
    /\ users[u].status = "none" /\ handling[h].pc = "idle" /\ used.requests < MaxHandled
    /\ \E b \in Accounts : AdminAuth(b)
    /\ users' = [users EXCEPT ![u] = [NoRow EXCEPT !.role = role, !.must = TRUE, !.pass = 1,
                   !.status = IF role = "admin" THEN "active" ELSE "pending"]]
    /\ used' = [used EXCEPT !.requests = @ + 1]
    /\ UNCHANGED <<sessions, handling, userRest>>

\* handlePatchUser writes the row back with the new role.
PatchUser(h) ==
    /\ \/ handling[h].op = "promote" /\ handling[h].pc = "read"
       \/ handling[h].op = "demote" /\ handling[h].pc = "patch"
    /\ UpdateUser(handling[h].u, [handling[h].row EXCEPT
                     !.role = IF handling[h].op = "promote" THEN "admin" ELSE "user"])
    /\ Ends(h)
    /\ UNCHANGED <<sessions, used, userRest>>

\* handleResetUserPassword: the row is written back with a new password.
ResetUserPassword(h) ==
    /\ handling[h].pc = "read" /\ handling[h].op = "reset"
    /\ LET c == handling[h]
       IN UpdateUser(c.u, [c.row EXCEPT !.pass = @ + 1, !.must = TRUE, !.skips = 0])
    /\ Goes(h, "end")
    /\ UNCHANGED <<sessions, used, userRest>>

\* handleSuspendUser and handleDeleteUser, up to the sessions.
SuspendUser(h) ==
    /\ handling[h].pc = "read" /\ handling[h].op = "suspend"
    /\ IF handling[h].u = handling[h].by THEN Ends(h) /\ UNCHANGED users
       ELSE UpdateUser(handling[h].u, [handling[h].row EXCEPT !.status = "suspended"]) /\ Goes(h, "end")
    /\ UNCHANGED <<sessions, used, userRest>>

\* CountAdminUsers, in a statement of its own, guards the last admin; nobody
\* deletes themselves.
CheckLastAdmin(h) ==
    /\ handling[h].pc = "read" /\ handling[h].op \in {"delete", "demote"}
    /\ LET last == handling[h].row.role = "admin" /\ CountAdminUsers <= 1
           self == handling[h].op = "delete" /\ handling[h].u = handling[h].by IN
       IF last \/ self THEN Ends(h)
       ELSE Goes(h, IF handling[h].op = "delete" THEN "end" ELSE "patch")
    /\ UNCHANGED <<users, sessions, used, userRest>>

SoftDeleteUser(h) ==
    /\ handling[h].pc = "gone"
    /\ LET u == handling[h].u
       IN users' = [users EXCEPT ![u] = [users[u] EXCEPT !.gone = TRUE, !.status = "suspended"]]
    /\ IF handling[h].row.key = NoKey THEN Ends(h) ELSE Goes(h, "lock")
    /\ UNCHANGED <<sessions, used, userRest>>

\* DeleteUserSessionsByUserID, whose error is ignored; then the account's key.
EndSessions(h) ==
    /\ handling[h].pc = "end"
    /\ \/ DropSessions(handling[h].u) /\ UNCHANGED used
       \/ StoreFault /\ UNCHANGED sessions
    /\ CASE handling[h].op = "delete" -> Goes(h, "gone")
         [] handling[h].op = "suspend" /\ handling[h].row.key # NoKey -> Goes(h, "lock")
         [] OTHER -> Ends(h)
    /\ UNCHANGED <<users, userRest>>

-----------------------------------------------------------------------------
\* Keys, under keysMu.

keyRest == <<users, sessions, probing>>
KeyOf(h) == IF handling[h].op \in {"suspend", "delete"} THEN handling[h].row.key ELSE handling[h].k
Active(k) == storedKey[k].state = "active"

\* A key request of an admin: handleAddKey refuses a reserved name.
EnterKeyOp(h, op, k) ==
    /\ op = "add" => k \in OperatorKeys
    /\ \E b \in Accounts : AdminAuth(b) /\ Enters(h, op, b, b, NoRow, k, FALSE)
    /\ UNCHANGED <<users, sessions, userRest>>

\* An approval refuses a reserved name too.
LockKeys(h) ==
    /\ keysMu = "free"
    /\ \/ handling[h].pc = "lock"
       \/ handling[h].pc = "read" /\ handling[h].op \in {"add", "rotate", "revoke", "patch", "reload"}
       \/ handling[h].pc = "read" /\ handling[h].op = "approve" /\ handling[h].row.status = "pending"
    /\ keysMu' = h
    /\ IF handling[h].op = "approve"
       THEN \E k \in OperatorKeys :
              handling' = [handling EXCEPT ![h] = [handling[h] EXCEPT !.pc = "key", !.k = k]]
       ELSE Goes(h, "key")
    /\ UNCHANGED <<storedKey, liveKey, revokeAcked, used, keyRest>>

\* An approval of an account that is no longer pending is refused.
RefuseApproval(h) ==
    /\ handling[h].pc = "read" /\ handling[h].op = "approve" /\ handling[h].row.status # "pending"
    /\ Ends(h)
    /\ UNCHANGED <<users, sessions, used, userRest>>

Unlocks == keysMu' = "free"

\* persistKey writes the store, and the live keys only when that succeeded: for
\* a new key, a rotation and an approval.
PersistKeyLiveFirst(h) ==
    LET k == KeyOf(h)
        v == storedKey[k].version + 1 IN
    /\ handling[h].pc = "key" /\ handling[h].op \in {"add", "rotate", "approve"}
    /\ liveKey' = [liveKey EXCEPT ![k] = v]
    /\ \/ storedKey' = [storedKey EXCEPT ![k] = [state |-> "active", version |-> v]] /\ UNCHANGED used
       \/ StoreFault /\ UNCHANGED storedKey
    /\ IF handling[h].op = "approve" THEN Goes(h, "approve") /\ UNCHANGED keysMu
       ELSE Ends(h) /\ Unlocks
    /\ UNCHANGED <<revokeAcked, keyRest>>
PersistKey(h) ==
    LET k == KeyOf(h)
        v == storedKey[k].version + 1
        wanted == IF handling[h].op = "rotate" THEN Active(k) ELSE storedKey[k].state = "absent" IN
    /\ handling[h].pc = "key" /\ handling[h].op \in {"add", "rotate", "approve"}
    /\ \/ /\ wanted
          /\ storedKey' = [storedKey EXCEPT ![k] = [state |-> "active", version |-> v]]
          /\ liveKey' = [liveKey EXCEPT ![k] = v]
          /\ IF handling[h].op = "approve" THEN Goes(h, "approve") /\ UNCHANGED keysMu
             ELSE Ends(h) /\ Unlocks
          /\ UNCHANGED used
       \/ /\ ~wanted /\ Ends(h) /\ Unlocks
          /\ UNCHANGED <<storedKey, liveKey, used>>
       \/ /\ wanted /\ StoreFault /\ Ends(h) /\ Unlocks
          /\ UNCHANGED <<storedKey, liveKey>>
    /\ UNCHANGED <<revokeAcked, keyRest>>

\* handleApproveUser: the account becomes active with the key; when that write
\* fails, the key is revoked and deleted again, or left revoked when its
\* deletion fails too.
ApproveUser(h) ==
    /\ handling[h].pc = "approve"
    /\ LET c == handling[h] IN
       \/ /\ UpdateUser(c.u, [c.row EXCEPT !.status = "active", !.key = c.k])
          /\ UNCHANGED <<storedKey, liveKey, used>>
       \/ /\ StoreFault
          /\ liveKey' = [liveKey EXCEPT ![c.k] = 0]
          /\ \E left \in {"absent", "revoked"} : storedKey' = [storedKey EXCEPT ![c.k].state = left]
          /\ UNCHANGED users
    /\ Ends(h) /\ Unlocks
    /\ UNCHANGED <<sessions, probing, revokeAcked>>

\* revokeKeyLiveFirst: the proxy stops accepting the key before the store is
\* written; a failing write is answered "the key may return after a restart".
RevokeKeyLiveFirst(h) ==
    LET k == KeyOf(h) IN
    /\ handling[h].pc = "key" /\ handling[h].op \in {"revoke", "suspend", "delete"}
    /\ liveKey' = [liveKey EXCEPT ![k] = 0]
    /\ \/ /\ storedKey' = [storedKey EXCEPT ![k].state = IF @ = "absent" THEN @ ELSE "revoked"]
          /\ revokeAcked' = IF storedKey[k].state = "absent" THEN revokeAcked
                            ELSE revokeAcked \cup {<<k, storedKey[k].version>>}
          /\ UNCHANGED used
       \/ StoreFault /\ UNCHANGED <<storedKey, revokeAcked>>
    /\ Ends(h) /\ Unlocks
    /\ UNCHANGED keyRest

\* handlePatchKey: the limits of a live key, the store first; the key's value
\* and its revoked mark stay as they are.
PatchKey(h) ==
    /\ handling[h].pc = "key" /\ handling[h].op = "patch"
    /\ Ends(h) /\ Unlocks
    /\ UNCHANGED <<storedKey, liveKey, revokeAcked, used, keyRest>>

\* ReloadFromStore: the stored keys are read, then applied to the live ones.
ReloadKeys(h) ==
    /\ handling[h].op = "reload"
    /\ \/ /\ handling[h].pc = "key"
          /\ LET versions == [k \in KeyNames |-> IF Active(k) THEN storedKey[k].version ELSE 0]
             IN handling' = [handling EXCEPT ![h] = [handling[h] EXCEPT !.pc = "apply",
                                                                        !.read = versions]]
          /\ UNCHANGED <<liveKey, keysMu>>
       \/ handling[h].pc = "apply" /\ liveKey' = handling[h].read /\ Ends(h) /\ Unlocks
    /\ UNCHANGED <<storedKey, revokeAcked, used, keyRest>>

\* A probe's key, without keysMu: persistKey stores its row (which may fail) and
\* then makes it live; after the probe it is revoked, then deleted (which may fail).
ProbeSteps == {"none", "stored", "live", "revoked", "over"}
ProbeKey(k) ==
    LET to(s) == probing' = [probing EXCEPT ![k] = s] IN
    /\ \/ /\ probing[k] = "none" /\ used.requests < MaxHandled
          /\ used' = [used EXCEPT !.requests = @ + 1]
          /\ storedKey' = [storedKey EXCEPT ![k] = [state |-> "active", version |-> @.version + 1]]
          /\ to("stored") /\ UNCHANGED liveKey
       \/ /\ probing[k] = "none" /\ StoreFault
          /\ to("over") /\ UNCHANGED <<storedKey, liveKey>>
       \/ /\ probing[k] = "stored"
          /\ liveKey' = [liveKey EXCEPT ![k] = 1]
          /\ to("live") /\ UNCHANGED <<storedKey, used>>
       \/ /\ probing[k] = "live"
          /\ liveKey' = [liveKey EXCEPT ![k] = 0]
          /\ to("revoked") /\ UNCHANGED <<storedKey, used>>
       \/ /\ probing[k] = "revoked"
          /\ storedKey' = [storedKey EXCEPT ![k].state = "absent"]
          /\ to("over") /\ UNCHANGED <<liveKey, used>>
       \/ /\ probing[k] = "revoked" /\ StoreFault
          /\ to("over") /\ UNCHANGED <<storedKey, liveKey>>
    /\ UNCHANGED <<users, sessions, keysMu, handling, revokeAcked>>

-----------------------------------------------------------------------------
\* loadStoredKeys: the rows it takes for left-over probe keys (all but those an
\* administrator has revoked or patched) are deleted, or left when that fails, and
\* not made live; the other unrevoked rows are.
LoadStoredKeys ==
    \E probes \in SUBSET {k \in ProbeNames : Active(k)}, left \in SUBSET ProbeNames :
        /\ storedKey' = [k \in KeyNames |-> IF k \in probes \ left
                                            THEN [storedKey[k] EXCEPT !.state = "absent"]
                                            ELSE storedKey[k]]
        /\ liveKey' = [k \in KeyNames |-> IF Active(k) /\ k \notin probes
                                          THEN storedKey[k].version ELSE 0]

\* A restart: handlers and probes die, the live keys come from the store, and
\* ensureAdminUser creates the default account when no admin is left and its
\* name is free.
AccountsRestart ==
    /\ used.boots < MaxAccountBoots
    /\ used' = [used EXCEPT !.boots = @ + 1]
    /\ handling' = [h \in Handlers |-> IdleCall]
    /\ keysMu' = "free"
    /\ probing' = [k \in ProbeNames |-> IF probing[k] = "none" THEN "none" ELSE "over"]
    /\ LoadStoredKeys
    /\ LET free == {a \in Accounts : users[a].status = "none"} IN
       users' = IF CountAdminUsers = 0 /\ free # {}
                THEN [users EXCEPT ![CHOOSE a \in free : TRUE] =
                        [NoRow EXCEPT !.role = "admin", !.status = "active", !.must = TRUE,
                                      !.skips = MaxSkips]]
                ELSE users
    /\ UNCHANGED <<sessions, revokeAcked>>

UserOps == {"login", "change", "skip", "suspend", "delete", "promote", "demote", "reset", "approve"}
KeyOps == {"add", "rotate", "revoke", "patch", "reload"}

AccountsNext ==
    \/ \E h \in Handlers :
         \/ \E u \in Accounts : \/ \E op \in UserOps : ReadUser(h, op, u)
                                \/ \E role \in {"admin", "user"} : CreateUser(h, u, role)
         \/ \E op \in KeyOps, k \in KeyNames : EnterKeyOp(h, op, k)
         \/ LoginSession(h) \/ ChangePassword(h) \/ SkipPasswordChange(h) \/ DropThenIssue(h)
         \/ PatchUser(h) \/ ResetUserPassword(h) \/ SuspendUser(h) \/ CheckLastAdmin(h)
         \/ SoftDeleteUser(h) \/ EndSessions(h) \/ RefuseApproval(h) \/ LockKeys(h)
         \/ PersistKey(h) \/ ApproveUser(h) \/ RevokeKeyLiveFirst(h) \/ PatchKey(h)
         \/ ReloadKeys(h)
    \/ \E k \in ProbeNames : ProbeKey(k)
    \/ Logout \/ AccountsRestart

AccountsSpec == AccountsInit /\ [][AccountsNext]_accountVars

-----------------------------------------------------------------------------
\* Every variable has its shape.
AccountsTypeOK ==
    /\ \A a \in Accounts : /\ users[a].role \in {"admin", "user"}
                           /\ users[a].status \in {"none", "pending", "active", "suspended"}
                           /\ users[a].key \in KeyNames \cup {NoKey}
                           /\ users[a].skips \in 0 .. MaxSkips
    /\ \A s \in sessions : s.user \in Accounts /\ s.role \in {"admin", "user"}
    /\ \A k \in KeyNames : storedKey[k].state \in {"absent", "active", "revoked"}
    /\ keysMu \in Handlers \cup {"free"} /\ probing \in [ProbeNames -> ProbeSteps]

\* While no key handler is inside its critical section, the proxy accepts no
\* operator's key that the store would not bring back: every live one is stored,
\* unrevoked and with the same value, whatever failed, whoever was approved or
\* suspended and whichever probes stored and removed keys of their own in between.
\* (A probe's key, changed outside keysMu, may be made live again by a reload.)
LiveKeysStored ==
    keysMu = "free" =>
        \A k \in OperatorKeys : liveKey[k] # 0 => Active(k) /\ storedKey[k].version = liveKey[k]

\* A revocation of an operator's key that was acknowledged is final: neither a
\* reload that had read the keys before it, nor a rotation, patch, approval or
\* restart makes the proxy accept that key again.
RevokedStaysRevoked == \A k \in OperatorKeys : <<k, liveKey[k]>> \notin revokeAcked

\* handleDeleteUser and handlePatchUser refuse to delete or demote the last
\* admin, so one always remains.
AnAdminRemains == CountAdminUsers > 0
=============================================================================
