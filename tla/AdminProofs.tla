---------------------------- MODULE AdminProofs ----------------------------
(***************************************************************************)
(* Proofs about the admin API, for any number of requests, accounts, keys, *)
(* nodes and models, whatever store writes fail and however often the      *)
(* process starts again:                                                   *)
(*                                                                         *)
(*   - the proxy accepts only operators' keys the store would bring back,  *)
(*     and a revocation that was acknowledged is final.  Between a         *)
(*     reload's read of the stored keys and its change of the live ones no *)
(*     other handler writes either (Held), and a key's version never       *)
(*     returns once it was revoked (RevokedBehind);                        *)
(*   - an operator's start, stop and restart of a runtime never leaves two *)
(*     of them alive: who is alive is the process in the PID file or the   *)
(*     one the holder of the lock has just launched (AliveTracked);        *)
(*   - a drain or a restart that nobody forced finds another server for    *)
(*     every model of its node: once a restart may have taken a runtime    *)
(*     down its marker stays until a poll that began later has said how it *)
(*     came back, or no answer from before is believed, so a node without  *)
(*     one is as the router sees it (MarkedSince), unless it went down by  *)
(*     itself or for a caller that had gone (surprised);                   *)
(*   - a confirmed replica group replaces no declaration unseen: what was  *)
(*     checked holds as long as its operator has the mutex (Checked).      *)
(***************************************************************************)
EXTENDS MCAdmin, FiniteSetTheorems, TLAPS

-----------------------------------------------------------------------------
(* The keys: the invariant. *)

Roles    == {"admin", "user"}
Someone  == CHOOSE a \in Accounts : TRUE
KeyState == [state : {"absent", "active", "revoked"}, version : Nat]
UserRow  == [role : Roles, status : {"none", "pending", "active", "suspended"},
             gone : BOOLEAN, pass : Nat, must : BOOLEAN, skips : 0 .. MaxSkips,
             key : KeyNames \cup {NoKey}]
Call == [pc : {"idle", "read", "drop", "issue", "patch", "end", "gone", "lock", "key",
               "approve", "apply"},
         op : UserOps \cup KeyOps \cup {"none"}, u : Accounts \cup {Someone},
         by : Accounts \cup {Someone}, row : UserRow, k : KeyNames \cup {NoKey},
         forced : BOOLEAN, read : [KeyNames -> Nat]]

UsersTyped ==
    /\ users \in [Accounts -> UserRow]
    /\ sessions \subseteq [user : Accounts, role : Roles, must : BOOLEAN]
KeysTyped == storedKey \in [KeyNames -> KeyState] /\ liveKey \in [KeyNames -> Nat]

\* A handler at work serves an account that exists; the key it is to change is one
\* of the keys; and what it does next fits what it was asked.
CallFits(c) ==
    /\ c.pc # "idle" => c.u \in Accounts
    /\ c.pc # "idle" /\ c.op \in KeyOps => c.k \in KeyNames
    /\ c.pc = "gone" => c.op = "delete"
    /\ c.pc = "lock" => c.op \in {"suspend", "delete"} /\ c.row.key \in KeyNames
    /\ c.pc = "key" => IF c.op \in {"suspend", "delete"} THEN c.row.key \in KeyNames
                                                         ELSE c.k \in KeyNames
    /\ c.pc = "approve" => c.k \in KeyNames
CallsTyped == handling \in [Handlers -> Call]
CallsFit   == \A h \in Handlers : CallFits(handling[h])

\* Keys are changed under keysMu.
Held ==
    /\ keysMu \in Handlers \cup {"free"}
    /\ \A h \in Handlers : handling[h].pc \in {"key", "approve", "apply"} => keysMu = h

\* v is what a start would make of key k, if it is live at all.
Stored(k, v) == v # 0 => Active(k) /\ storedKey[k].version = v

LiveStored == \A k \in OperatorKeys : Stored(k, liveKey[k])
ReadStored == \A h \in Handlers : handling[h].pc = "apply" =>
                  \A k \in OperatorKeys : Stored(k, handling[h].read[k])

\* A key that was ever stored has a version, and so has the one being approved.
Versioned == \A k \in KeyNames : storedKey[k].state # "absent" => storedKey[k].version > 0
Approving == \A h \in Handlers :
                 handling[h].pc = "approve" => storedKey[handling[h].k].version > 0

\* An acknowledged revocation lies behind the key's version, or is of the key as
\* it is, inactive.
RevokedBehind ==
    \A k \in KeyNames, v \in Nat : <<k, v>> \in revokeAcked =>
        v > 0 /\ v <= storedKey[k].version /\ (v = storedKey[k].version => ~Active(k))

Typed    == UsersTyped /\ KeysTyped /\ CallsTyped
InCall   == CallsFit /\ Held /\ ReadStored /\ Approving
KeysOK   == LiveStored /\ Versioned /\ RevokedBehind
ProbesTyped == probing \in [ProbeNames -> ProbeSteps]
KeysSafe == Typed /\ ProbesTyped /\ InCall /\ KeysOK

-----------------------------------------------------------------------------
(* What happens to the handlers. *)

Labels == {"idle", "read", "drop", "issue", "patch", "end", "gone", "lock", "key",
           "approve", "apply"}

OthersStay(h) == \A g \in Handlers \ {h} : handling'[g] = handling[g]
SameBut(h, pc) ==
    /\ handling'[h].pc = pc /\ handling'[h].op = handling[h].op
    /\ handling'[h].u = handling[h].u /\ handling'[h].row = handling[h].row
    /\ handling'[h].k = handling[h].k /\ handling'[h].read = handling[h].read

\* A blank row is a row, and a handler at rest carries one.
LEMMA BlankRow == NoRow \in UserRow
  BY AccountsAssumption DEF NoRow, UserRow, Roles

\* So is the call of a handler at rest a call.
LEMMA AtRest == IdleCall \in Call /\ IdleCall.pc = "idle"
  BY BlankRow DEF IdleCall, Call, Someone

\* One request moves, the others stay.
LEMMA OneMoves ==
  ASSUME CallsTyped, NEW h \in Handlers, NEW c \in Call,
         handling' = [handling EXCEPT ![h] = c]
  PROVE  CallsTyped' /\ OthersStay(h) /\ handling'[h] = c
  BY DEF CallsTyped, OthersStay

\* A request takes its next step.
LEMMA Going ==
  ASSUME CallsTyped, NEW h \in Handlers, NEW to \in Labels, Goes(h, to)
  PROVE  CallsTyped' /\ OthersStay(h) /\ SameBut(h, to)
<1> DEFINE c == [handling[h] EXCEPT !.pc = to]
<1>1. handling[h] \in Call
  BY DEF CallsTyped
<1>2. c \in Call
  BY <1>1 DEF Call, Labels
<1>3. /\ c.pc = to /\ c.op = handling[h].op /\ c.u = handling[h].u
      /\ c.row = handling[h].row /\ c.k = handling[h].k /\ c.read = handling[h].read
  BY <1>1 DEF Call
<1>4. handling' = [handling EXCEPT ![h] = c]
  BY <1>1 DEF Goes, CallsTyped
<1> HIDE DEF c
<1> QED BY <1>2, <1>3, <1>4, OneMoves DEF SameBut

\* It ends.
LEMMA Ending ==
  ASSUME CallsTyped, NEW h \in Handlers, Ends(h)
  PROVE  CallsTyped' /\ OthersStay(h) /\ handling'[h].pc = "idle"
  BY AtRest, OneMoves DEF Ends

\* It enters.
LEMMA Entering ==
  ASSUME CallsTyped, NEW h \in Handlers, NEW what \in UserOps \cup KeyOps, NEW u \in Accounts,
         NEW b \in Accounts, NEW row \in UserRow, NEW key \in KeyNames \cup {NoKey},
         NEW f \in BOOLEAN, Enters(h, what, u, b, row, key, f)
  PROVE  /\ CallsTyped' /\ OthersStay(h)
         /\ handling'[h].pc = "read" /\ handling'[h].op = what /\ handling'[h].u = u
         /\ handling'[h].k = key
<1> DEFINE c == [IdleCall EXCEPT !.pc = "read", !.op = what, !.u = u, !.by = b, !.row = row,
                                 !.k = key, !.forced = f]
<1>1. c \in Call
  BY AtRest DEF Call
<1>2. c.pc = "read" /\ c.op = what /\ c.u = u /\ c.k = key
  BY AtRest DEF Call
<1>3. handling' = [handling EXCEPT ![h] = c]
  BY DEF Enters
<1> HIDE DEF c
<1> QED BY <1>1, <1>2, <1>3, OneMoves

-----------------------------------------------------------------------------
(* What a request does leaves it fit for its next step. *)

Moved(h) == CallsTyped' /\ OthersStay(h) /\ CallFits(handling'[h])

\* The handlers of users: they never touch the keys.
UserAction(h) ==
    \/ \E u \in Accounts : \/ \E what \in UserOps : ReadUser(h, what, u)
                           \/ \E role \in {"admin", "user"} : CreateUser(h, u, role)
    \/ \E what \in KeyOps, k \in KeyNames : EnterKeyOp(h, what, k)
    \/ LoginSession(h) \/ ChangePassword(h) \/ SkipPasswordChange(h) \/ DropThenIssue(h)
    \/ PatchUser(h) \/ ResetUserPassword(h) \/ SuspendUser(h) \/ CheckLastAdmin(h)
    \/ SoftDeleteUser(h) \/ EndSessions(h) \/ RefuseApproval(h)
KeyAction(h) == LockKeys(h) \/ PersistKey(h) \/ ApproveUser(h) \/ RevokeKeyLiveFirst(h)
                  \/ PatchKey(h) \/ ReloadKeys(h)

\* Every step is of one of five kinds.
LEMMA StepKinds ==
  ASSUME AccountsNext
  PROVE  \/ \E h \in Handlers : UserAction(h) \/ KeyAction(h)
         \/ \E k \in ProbeNames : ProbeKey(k)
         \/ Logout \/ AccountsRestart
  BY DEF AccountsNext, UserAction, KeyAction

LeavesKeys(h) ==
    /\ Moved(h) /\ UNCHANGED userRest
    /\ handling'[h].pc \notin {"key", "approve", "apply"}

\* They leave the request fit for its next step, outside the keys' lock.
LEMMA UserActionLeaves ==
  ASSUME Typed, CallsFit, NEW h \in Handlers, UserAction(h)
  PROVE  LeavesKeys(h)
<1> USE DEF LeavesKeys, Moved, Labels, Typed
<1>1. CallFits(handling[h])
  BY DEF CallsFit
<1>2. handling[h].row.key # NoKey => handling[h].row.key \in KeyNames
  BY DEF CallsTyped, Call, UserRow
<1>3. ASSUME NEW u \in Accounts, NEW what \in UserOps, ReadUser(h, what, u)
      PROVE  LeavesKeys(h)
  <2>1. PICK b \in Accounts, f \in BOOLEAN : Enters(h, what, u, b, users[u], NoKey, f)
    BY <1>3 DEF ReadUser, UserOps, UsersTyped
  <2>2. users[u] \in UserRow
    BY DEF UsersTyped
  <2>3. what \notin KeyOps
    BY DEF UserOps, KeyOps
  <2>4. UNCHANGED userRest
    BY <1>3 DEF ReadUser, userRest
  <2> QED BY <2>1, <2>2, <2>3, <2>4, Entering DEF CallFits
<1>4. ASSUME NEW u \in Accounts, NEW role \in {"admin", "user"}, CreateUser(h, u, role)
      PROVE  LeavesKeys(h)
  <2>1. handling' = handling /\ UNCHANGED userRest /\ handling[h].pc = "idle"
    BY <1>4 DEF CreateUser
  <2> QED BY <1>1, <2>1 DEF OthersStay, CallsTyped
<1>5. ASSUME NEW what \in KeyOps, NEW k \in KeyNames, EnterKeyOp(h, what, k)
      PROVE  LeavesKeys(h)
  <2>1. PICK b \in Accounts : Enters(h, what, b, b, NoRow, k, FALSE)
    BY <1>5 DEF EnterKeyOp
  <2>2. UNCHANGED userRest
    BY <1>5 DEF EnterKeyOp, userRest
  <2> QED BY <2>1, <2>2, BlankRow, Entering DEF CallFits
<1>6. CASE LoginSession(h)
  BY <1>6, Ending DEF LoginSession, CallFits
<1>7. CASE ChangePassword(h)
  BY <1>1, <1>7, Ending, Going DEF ChangePassword, CallFits, SameBut
<1>8. CASE SkipPasswordChange(h)
  BY <1>1, <1>8, Ending, Going DEF SkipPasswordChange, CallFits, SameBut
<1>9. CASE DropThenIssue(h)
  BY <1>1, <1>9, Ending, Going DEF DropThenIssue, CallFits, SameBut
<1>10. CASE PatchUser(h)
  BY <1>10, Ending DEF PatchUser, CallFits
<1>11. CASE ResetUserPassword(h)
  BY <1>1, <1>11, Going DEF ResetUserPassword, CallFits, SameBut
<1>12. CASE SuspendUser(h)
  BY <1>1, <1>12, Ending, Going DEF SuspendUser, CallFits, SameBut
<1>13. CASE CheckLastAdmin(h)
  BY <1>1, <1>13, Ending, Going DEF CheckLastAdmin, CallFits, SameBut
<1>14. CASE SoftDeleteUser(h)
  BY <1>1, <1>14, <1>2, Ending, Going DEF SoftDeleteUser, CallFits, SameBut
<1>15. CASE EndSessions(h)
  BY <1>1, <1>15, <1>2, Ending, Going DEF EndSessions, CallFits, SameBut
<1>16. CASE RefuseApproval(h)
  BY <1>16, Ending DEF RefuseApproval, CallFits
<1> QED BY <1>3, <1>4, <1>5, <1>6, <1>7, <1>8, <1>9, <1>10, <1>11, <1>12, <1>13, <1>14, <1>15,
     <1>16 DEF UserAction

-----------------------------------------------------------------------------
(* Users and sessions keep their shape. *)

RowsTyped == users \in [Accounts -> UserRow]

\* One row changes.
LEMMA RowChanges ==
  ASSUME RowsTyped, NEW u, NEW r \in UserRow, users' = [users EXCEPT ![u] = r]
  PROVE  RowsTyped'
  BY DEF RowsTyped

\* A row is written back whole.
LEMMA RowWritten ==
  ASSUME RowsTyped, NEW u \in Accounts, NEW r \in UserRow, UpdateUser(u, r)
  PROVE  RowsTyped'
<1>1. users[u].gone \in BOOLEAN
  BY DEF RowsTyped, UserRow
<1>2. [r EXCEPT !.gone = users[u].gone] \in UserRow
  BY <1>1 DEF UserRow
<1> DEFINE q == [r EXCEPT !.gone = users[u].gone]
<1>3. users' = [users EXCEPT ![u] = q]
  BY DEF UpdateUser
<1> HIDE DEF q
<1> QED BY <1>2, <1>3, RowChanges DEF q

\* The rows.
LEMMA RowsTypedStep == ASSUME Typed, CallsFit, AccountsNext PROVE RowsTyped'
<1> USE DEF Typed
<1>1. RowsTyped
  BY DEF UsersTyped, RowsTyped
<1>2. ASSUME NEW h \in Handlers
      PROVE  /\ handling[h].row \in UserRow /\ handling[h].k \in KeyNames \cup {NoKey}
             /\ handling[h].pc # "idle" => handling[h].u \in Accounts
             /\ handling[h].row.pass \in Nat
  BY DEF CallsTyped, Call, CallsFit, CallFits, UserRow
<1>3. 0 \in 0 .. MaxSkips /\ MaxSkips \in 0 .. MaxSkips /\ 1 \in Nat
  BY AccountsAssumption
<1>4. ASSUME NEW h \in Handlers, NEW u \in Accounts, NEW role \in Roles, CreateUser(h, u, role)
      PROVE  RowsTyped'
  <2> DEFINE st == IF role = "admin" THEN "active" ELSE "pending"
             r  == [NoRow EXCEPT !.role = role, !.must = TRUE, !.pass = 1, !.status = st]
  <2>1. st \in {"none", "pending", "active", "suspended"}
    OBVIOUS
  <2>2. users' = [users EXCEPT ![u] = r]
    BY <1>4 DEF CreateUser
  <2> HIDE DEF st
  <2>3. r \in UserRow
    BY <2>1, <1>3, BlankRow DEF UserRow
  <2> HIDE DEF r
  <2> QED BY <1>1, <2>2, <2>3, RowChanges
<1>5. ASSUME NEW h \in Handlers, ChangePassword(h)
      PROVE  RowsTyped'
  <2> DEFINE u == handling[h].u
             r == [users[u] EXCEPT !.pass = users[u].pass + 1, !.must = FALSE, !.skips = 0]
  <2>1. u \in Accounts
    BY <1>2, <1>5 DEF ChangePassword
  <2>2. users' = users \/ users' = [users EXCEPT ![u] = r]
    BY <1>5 DEF ChangePassword
  <2> HIDE DEF u
  <2>3. users[u] \in UserRow /\ users[u].pass + 1 \in Nat /\ 0 \in 0 .. MaxSkips
    BY <1>1, <2>1, AccountsAssumption DEF RowsTyped, UserRow
  <2>4. r \in UserRow
    BY <2>3 DEF UserRow
  <2> HIDE DEF r
  <2> QED BY <1>1, <2>2, <2>4, RowChanges DEF RowsTyped
<1>6. ASSUME NEW h \in Handlers, SkipPasswordChange(h)
      PROVE  RowsTyped'
  <2> DEFINE u == handling[h].u
             r == [users[u] EXCEPT !.skips = @ + 1]
  <2>1. u \in Accounts
    BY <1>2, <1>6 DEF SkipPasswordChange
  <2>2. \/ users' = users
        \/ users[u].skips < MaxSkips /\ users' = [users EXCEPT ![u].skips = @ + 1]
    BY <1>6 DEF SkipPasswordChange
  <2> HIDE DEF u
  <2>3. CASE users' = users
    BY <1>1, <2>3 DEF RowsTyped
  <2>4. CASE users[u].skips < MaxSkips /\ users' = [users EXCEPT ![u].skips = @ + 1]
    <3>1. users[u] \in UserRow
      BY <1>1, <2>1 DEF RowsTyped
    <3>2. users[u].skips + 1 \in 0 .. MaxSkips
      BY <2>4, <3>1, AccountsAssumption DEF UserRow
    <3>3. r \in UserRow
      BY <3>1, <3>2 DEF UserRow
    <3>4. users' = [users EXCEPT ![u] = r]
      BY <2>4, <3>1
    <3> HIDE DEF r
    <3> QED BY <1>1, <3>3, <3>4, RowChanges
  <2> QED BY <2>2, <2>3, <2>4
<1>7. ASSUME NEW h \in Handlers, PatchUser(h)
      PROVE  RowsTyped'
  <2> DEFINE role == IF handling[h].op = "promote" THEN "admin" ELSE "user"
  <2>1. role \in Roles
    BY DEF Roles
  <2>2. UpdateUser(handling[h].u, [handling[h].row EXCEPT !.role = role])
        /\ handling[h].pc # "idle"
    BY <1>7 DEF PatchUser
  <2> HIDE DEF role
  <2>3. [handling[h].row EXCEPT !.role = role] \in UserRow
    BY <1>2, <2>1 DEF UserRow
  <2> QED BY <1>1, <1>2, <2>2, <2>3, RowWritten
<1>8. ASSUME NEW h \in Handlers, ResetUserPassword(h)
      PROVE  RowsTyped'
  <2> DEFINE r == [handling[h].row EXCEPT !.pass = @ + 1, !.must = TRUE, !.skips = 0]
  <2>3. handling[h].row.pass + 1 \in Nat
    BY <1>2
  <2>1. r \in UserRow
    BY <1>2, <1>3, <2>3 DEF UserRow
  <2>2. UpdateUser(handling[h].u, r) /\ handling[h].pc # "idle"
    BY <1>8 DEF ResetUserPassword
  <2> HIDE DEF r
  <2> QED BY <1>1, <1>2, <2>1, <2>2, RowWritten
<1>9. ASSUME NEW h \in Handlers, SuspendUser(h)
      PROVE  RowsTyped'
  <2> DEFINE r == [handling[h].row EXCEPT !.status = "suspended"]
  <2>1. r \in UserRow
    BY <1>2 DEF UserRow
  <2>2. users' = users \/ (UpdateUser(handling[h].u, r) /\ handling[h].pc # "idle")
    BY <1>9 DEF SuspendUser
  <2> HIDE DEF r
  <2> QED BY <1>1, <1>2, <2>1, <2>2, RowWritten DEF RowsTyped
<1>10. ASSUME NEW h \in Handlers, SoftDeleteUser(h)
      PROVE  RowsTyped'
  <2> DEFINE u == handling[h].u
             r == [users[u] EXCEPT !.gone = TRUE, !.status = "suspended"]
  <2>1. u \in Accounts /\ users' = [users EXCEPT ![u] = r]
    BY <1>2, <1>10 DEF SoftDeleteUser
  <2> HIDE DEF u
  <2>2. r \in UserRow
    BY <1>1, <2>1 DEF RowsTyped, UserRow
  <2> HIDE DEF r
  <2> QED BY <1>1, <2>1, <2>2, RowChanges
<1>11. ASSUME NEW h \in Handlers, ApproveUser(h)
       PROVE  RowsTyped'
  <2> DEFINE r == [handling[h].row EXCEPT !.status = "active", !.key = handling[h].k]
  <2>1. r \in UserRow
    BY <1>2 DEF UserRow
  <2>2. users' = users \/ (UpdateUser(handling[h].u, r) /\ handling[h].pc # "idle")
    BY <1>11 DEF ApproveUser
  <2> HIDE DEF r
  <2> QED BY <1>1, <1>2, <2>1, <2>2, RowWritten DEF RowsTyped
<1>12. CASE AccountsRestart
  <2> DEFINE free == {a \in Accounts : users[a].status = "none"}
             u == CHOOSE a \in free : TRUE
             r == [NoRow EXCEPT !.role = "admin", !.status = "active", !.must = TRUE,
                                !.skips = MaxSkips]
  <2>1. users' = users \/ users' = [users EXCEPT ![u] = r]
    BY <1>12 DEF AccountsRestart
  <2>2. r \in UserRow
    BY <1>3, BlankRow DEF UserRow, Roles
  <2> HIDE DEF u, r
  <2> QED BY <1>1, <2>1, <2>2, RowChanges DEF RowsTyped
<1>13. ASSUME NEW h \in Handlers, NEW u, NEW what, NEW k,
              \/ ReadUser(h, what, u) \/ EnterKeyOp(h, what, k) \/ LoginSession(h)
              \/ DropThenIssue(h) \/ CheckLastAdmin(h) \/ EndSessions(h) \/ RefuseApproval(h)
              \/ LockKeys(h) \/ PersistKey(h) \/ RevokeKeyLiveFirst(h) \/ PatchKey(h)
              \/ ReloadKeys(h)
       PROVE  users' = users
  BY <1>13 DEF ReadUser, EnterKeyOp, LoginSession, DropThenIssue, CheckLastAdmin, EndSessions,
     RefuseApproval, LockKeys, PersistKey, RevokeKeyLiveFirst, PatchKey, ReloadKeys, keyRest
<1>14. Logout \/ (\E k \in ProbeNames : ProbeKey(k)) => users' = users
  BY DEF Logout, ProbeKey
<1>15. users' = users => RowsTyped'
  BY <1>1 DEF RowsTyped
<1> QED BY <1>4, <1>5, <1>6, <1>7, <1>8, <1>9, <1>10, <1>11, <1>12, <1>13, <1>14, <1>15
        DEF AccountsNext, Roles

SessionSet == [user : Accounts, role : Roles, must : BOOLEAN]

\* A session is opened.
LEMMA SessionOpened ==
  ASSUME sessions \subseteq SessionSet, NEW u \in Accounts, NEW role \in Roles,
         NEW must \in BOOLEAN, OpenSession(u, role, must)
  PROVE  sessions' \subseteq SessionSet
  BY DEF OpenSession, SessionSet

\* The sessions: a login and a password change open one for the account's handler.
LEMMA SessionsTypedStep ==
  ASSUME Typed, CallsFit, AccountsNext
  PROVE  sessions' \subseteq SessionSet
<1> USE DEF Typed
<1>1. sessions \subseteq SessionSet
  BY DEF UsersTyped, SessionSet
<1>2. ASSUME NEW h \in Handlers
      PROVE  /\ handling[h].row.role \in Roles /\ handling[h].row.must \in BOOLEAN
             /\ handling[h].pc # "idle" => handling[h].u \in Accounts
  BY DEF CallsTyped, Call, CallsFit, CallFits, UserRow
<1>3. ASSUME NEW h \in Handlers, LoginSession(h)
      PROVE  sessions' \subseteq SessionSet
  BY <1>1, <1>2, <1>3, SessionOpened DEF LoginSession
<1>4. ASSUME NEW h \in Handlers, DropThenIssue(h)
      PROVE  sessions' \subseteq SessionSet
  <2>1. \/ sessions' \subseteq sessions
        \/ handling[h].pc = "issue" /\ OpenSession(handling[h].u, handling[h].row.role, FALSE)
    BY <1>4 DEF DropThenIssue, DropSessions
  <2> QED BY <1>1, <1>2, <2>1, SessionOpened
<1>5. ASSUME NEW h \in Handlers, EndSessions(h)
      PROVE  sessions' \subseteq SessionSet
  BY <1>1, <1>5 DEF EndSessions, DropSessions
<1>6. CASE Logout
  BY <1>1, <1>6 DEF Logout
<1>7. ASSUME NEW h \in Handlers, NEW u, NEW what, NEW k, NEW role,
             \/ ReadUser(h, what, u) \/ CreateUser(h, u, role) \/ EnterKeyOp(h, what, k)
             \/ ChangePassword(h) \/ SkipPasswordChange(h) \/ PatchUser(h)
             \/ ResetUserPassword(h) \/ SuspendUser(h) \/ CheckLastAdmin(h)
             \/ SoftDeleteUser(h) \/ RefuseApproval(h) \/ LockKeys(h) \/ PersistKey(h)
             \/ ApproveUser(h) \/ RevokeKeyLiveFirst(h) \/ PatchKey(h) \/ ReloadKeys(h)
      PROVE  sessions' = sessions
  BY <1>7 DEF ReadUser, CreateUser, EnterKeyOp, ChangePassword, SkipPasswordChange, PatchUser,
     ResetUserPassword, SuspendUser, CheckLastAdmin, SoftDeleteUser, RefuseApproval, LockKeys,
     PersistKey, ApproveUser, RevokeKeyLiveFirst, PatchKey, ReloadKeys, keyRest
<1>8. AccountsRestart \/ (\E k \in ProbeNames : ProbeKey(k)) => sessions' = sessions
  BY DEF AccountsRestart, ProbeKey
<1> QED BY <1>1, <1>3, <1>4, <1>5, <1>6, <1>7, <1>8 DEF AccountsNext

-----------------------------------------------------------------------------
(* The keys' lock: who holds it is alone among the keys. *)

KeySteps == {"key", "approve", "apply"}
NoOther(h) == \A g \in Handlers \ {h} : handling[g].pc \notin KeySteps

\* Whoever holds the lock, or finds it free, is alone.
LEMMA HolderIsAlone ==
  ASSUME Held, NEW h \in Handlers, keysMu = "free" \/ handling[h].pc \in KeySteps
  PROVE  NoOther(h)
  BY AccountsAssumption DEF Held, NoOther, KeySteps

\* So the lock and what requests hold depend on the one that moves.
LEMMA InCallAfter ==
  ASSUME NEW h \in Handlers, CallsFit, Moved(h), NoOther(h),
         keysMu' \in Handlers \cup {"free"},
         handling'[h].pc \in KeySteps => keysMu' = h,
         handling'[h].pc = "apply" =>
             \A k \in OperatorKeys : handling'[h].read[k] # 0 =>
                 storedKey'[k].state = "active" /\ storedKey'[k].version = handling'[h].read[k],
         handling'[h].pc = "approve" => storedKey'[handling'[h].k].version > 0
  PROVE  InCall'
<1>1. \A g \in Handlers \ {h} : handling'[g] = handling[g] /\ handling'[g].pc \notin KeySteps
  BY DEF Moved, OthersStay, NoOther
<1>2. CallsFit'
  BY <1>1 DEF CallsFit, Moved
<1>3. Held'
  BY <1>1 DEF Held, KeySteps
<1>4. ReadStored'
  BY <1>1 DEF ReadStored, Stored, Active, KeySteps
<1>5. Approving'
  BY <1>1 DEF Approving, KeySteps
<1> QED BY <1>2, <1>3, <1>4, <1>5 DEF InCall

\* One key of the store is written, and the live one with it.
LEMMA KeyWritten ==
  ASSUME KeysTyped, KeysOK, NEW k \in KeyNames, NEW s \in KeyState, NEW v \in Nat,
         storedKey' = [storedKey EXCEPT ![k] = s], liveKey' = [liveKey EXCEPT ![k] = v],
         k \in OperatorKeys /\ v # 0 => s.state = "active" /\ s.version = v,
         s.state # "absent" => s.version > 0,
         \/ s.version > storedKey[k].version
         \/ s.version = storedKey[k].version
              /\ (s.state = "active" => storedKey[k].state = "active"),
         \/ revokeAcked' = revokeAcked
         \/ /\ revokeAcked' = revokeAcked \cup {<<k, s.version>>}
            /\ s.version > 0 /\ s.state # "active"
  PROVE  KeysTyped' /\ KeysOK'
<1>1. KeysTyped'
  BY DEF KeysTyped
<1>2. /\ storedKey'[k] = s /\ liveKey'[k] = v
      /\ \A j \in KeyNames \ {k} : storedKey'[j] = storedKey[j] /\ liveKey'[j] = liveKey[j]
  BY DEF KeysTyped
<1>3. \A j \in KeyNames : storedKey[j].version \in Nat /\ storedKey'[j].version \in Nat
  BY <1>1 DEF KeysTyped, KeyState
<1>4. LiveStored'
  BY <1>2 DEF KeysOK, LiveStored, Stored, Active
<1>5. Versioned'
  BY <1>2 DEF KeysOK, Versioned
<1>6. RevokedBehind'
  <2> SUFFICES ASSUME NEW j \in KeyNames, NEW w \in Nat, <<j, w>> \in revokeAcked'
               PROVE  /\ w > 0 /\ w <= storedKey'[j].version
                      /\ w = storedKey'[j].version => storedKey'[j].state # "active"
    BY DEF RevokedBehind, Active
  <2>1. CASE <<j, w>> \in revokeAcked
    <3>1. /\ w > 0 /\ w <= storedKey[j].version
          /\ w = storedKey[j].version => storedKey[j].state # "active"
      BY <2>1 DEF KeysOK, RevokedBehind, Active
    <3>2. CASE j = k
      BY <1>2, <1>3, <3>1, <3>2
    <3>3. CASE j # k
      BY <1>2, <3>1, <3>3
    <3> QED BY <3>2, <3>3
  <2>2. CASE <<j, w>> \notin revokeAcked
    BY <1>2, <1>3, <2>2
  <2> QED BY <2>1, <2>2
<1> QED BY <1>1, <1>4, <1>5, <1>6 DEF KeysOK

-----------------------------------------------------------------------------
(* The steps. *)

KeyPart == KeysTyped /\ InCall /\ KeysOK

\* A handler of users takes no part in it.
LEMMA UserActionKeeps ==
  ASSUME Typed, InCall, KeysOK, NEW h \in Handlers, UserAction(h)
  PROVE  CallsTyped' /\ KeyPart'
<1>1. Moved(h) /\ handling'[h].pc \notin KeySteps
  BY UserActionLeaves DEF InCall, LeavesKeys, KeySteps
<1>2. storedKey' = storedKey /\ liveKey' = liveKey /\ keysMu' = keysMu
      /\ revokeAcked' = revokeAcked
  BY UserActionLeaves DEF InCall, LeavesKeys, userRest
<1>3. KeysTyped' /\ KeysOK'
  BY <1>2 DEF Typed, KeysTyped, KeysOK, LiveStored, Stored, Active, Versioned, RevokedBehind
<1>4. \A g \in Handlers \ {h} : handling'[g] = handling[g]
  BY <1>1 DEF Moved, OthersStay
<1>5. CallsFit'
  BY <1>1, <1>4 DEF InCall, CallsFit, Moved
<1>6. Held'
  BY <1>1, <1>2, <1>4 DEF InCall, Held, KeySteps
<1>7. ReadStored'
  BY <1>1, <1>2, <1>4 DEF InCall, ReadStored, Stored, Active, KeySteps
<1>8. Approving'
  BY <1>1, <1>2, <1>4 DEF InCall, Approving, KeySteps
<1> QED BY <1>1, <1>3, <1>5, <1>6, <1>7, <1>8 DEF KeyPart, InCall, Moved

\* The key a handler is about to change is one of the keys.
LEMMA KeyInHand ==
  ASSUME CallsFit, NEW h \in Handlers, handling[h].pc = "key"
  PROVE  KeyOf(h) \in KeyNames
  BY DEF CallsFit, CallFits, KeyOf

\* What a reload reads.
Versions == [k \in KeyNames |-> IF Active(k) THEN storedKey[k].version ELSE 0]

\* A reload reads them.
LEMMA Reading ==
  ASSUME KeysTyped, CallsTyped, NEW h \in Handlers, ReloadKeys(h), handling[h].pc = "key"
  PROVE  /\ CallsTyped' /\ OthersStay(h)
         /\ handling'[h].pc = "apply" /\ handling'[h].read = Versions
         /\ handling'[h].u = handling[h].u /\ handling'[h].k = handling[h].k
         /\ handling'[h].op = "reload"
<1> DEFINE c == [handling[h] EXCEPT !.pc = "apply", !.read = Versions]
<1>1. Versions \in [KeyNames -> Nat]
  BY DEF KeysTyped, KeyState, Versions
<1>2. handling[h] \in Call /\ handling[h].op = "reload"
  BY DEF CallsTyped, ReloadKeys
<1>3. handling' = [handling EXCEPT ![h] = c]
  BY DEF ReloadKeys, Versions
<1> HIDE DEF Versions
<1>4. /\ c \in Call /\ c.pc = "apply" /\ c.read = Versions /\ c.u = handling[h].u
      /\ c.k = handling[h].k /\ c.op = "reload"
  BY <1>1, <1>2 DEF Call
<1> HIDE DEF c
<1> QED BY <1>3, <1>4, OneMoves

\* What a handler under the lock does leaves it fit for its next step.
LEMMA KeyActionMoves ==
  ASSUME KeysTyped, CallsTyped, CallsFit, NEW h \in Handlers, KeyAction(h)
  PROVE  Moved(h)
<1> USE DEF Moved, Labels
<1>1. CallFits(handling[h]) /\ handling[h] \in Call
  BY DEF CallsFit, CallsTyped
<1>2. CASE LockKeys(h) /\ handling[h].op = "approve"
  <2>1. PICK k \in KeyNames :
            handling' = [handling EXCEPT ![h] = [handling[h] EXCEPT !.pc = "key", !.k = k]]
    BY <1>2 DEF LockKeys, OperatorKeys
  <2> DEFINE c == [handling[h] EXCEPT !.pc = "key", !.k = k]
  <2>2. c \in Call /\ c.pc = "key" /\ c.op = "approve" /\ c.k = k /\ c.u = handling[h].u
    BY <1>1, <1>2 DEF Call
  <2>3. handling' = [handling EXCEPT ![h] = c]
    BY <2>1
  <2> HIDE DEF c
  <2>4. CallsTyped' /\ OthersStay(h) /\ handling'[h] = c
    BY <2>2, <2>3, OneMoves
  <2>5. c.u \in Accounts
    BY <1>1, <1>2, <2>2 DEF CallFits, LockKeys
  <2> QED BY <2>2, <2>4, <2>5 DEF CallFits
<1>3. CASE LockKeys(h) /\ handling[h].op # "approve"
  BY <1>1, <1>3, Going DEF LockKeys, CallFits, SameBut, KeyOps
<1>4. CASE PersistKey(h)
  BY <1>1, <1>4, Going, Ending DEF PersistKey, CallFits, SameBut
<1>5. CASE ApproveUser(h)
  BY <1>5, Ending DEF ApproveUser, CallFits
<1>6. CASE RevokeKeyLiveFirst(h)
  BY <1>6, Ending DEF RevokeKeyLiveFirst, CallFits
<1>7. CASE PatchKey(h)
  BY <1>7, Ending DEF PatchKey, CallFits
<1>8. CASE ReloadKeys(h) /\ handling[h].pc = "key"
  BY <1>1, <1>8, Reading DEF ReloadKeys, CallFits, KeyOps
<1>9. CASE ReloadKeys(h) /\ handling[h].pc # "key"
  BY <1>9, Ending DEF ReloadKeys, CallFits
<1> QED BY <1>2, <1>3, <1>4, <1>5, <1>6, <1>7, <1>8, <1>9 DEF KeyAction

\* Taking the lock.
LEMMA LockKeysKeeps ==
  ASSUME Typed, InCall, KeysOK, NEW h \in Handlers, LockKeys(h)
  PROVE  CallsTyped' /\ KeyPart'
<1>1. Moved(h)
  BY KeyActionMoves DEF Typed, InCall, KeyAction
<1>2. NoOther(h)
  BY HolderIsAlone DEF LockKeys, InCall
<1>3. storedKey' = storedKey /\ liveKey' = liveKey /\ revokeAcked' = revokeAcked /\ keysMu' = h
  BY DEF LockKeys
<1>4. handling'[h].pc = "key"
  <2>1. handling[h] \in Call /\ CallsTyped
    BY DEF Typed, CallsTyped
  <2>2. CASE handling[h].op = "approve"
    <3>1. PICK k \in KeyNames :
            handling' = [handling EXCEPT ![h] = [handling[h] EXCEPT !.pc = "key", !.k = k]]
      BY <2>2 DEF LockKeys, OperatorKeys
    <3>2. handling'[h] = [handling[h] EXCEPT !.pc = "key", !.k = k]
      BY <2>1, <3>1 DEF CallsTyped
    <3> QED BY <2>1, <3>2 DEF Call
  <2>3. CASE handling[h].op # "approve"
    BY <2>1, <2>3, Going DEF LockKeys, SameBut, Labels
  <2> QED BY <2>2, <2>3
<1>5. InCall'
  BY <1>1, <1>2, <1>3, <1>4, InCallAfter DEF InCall
<1>6. KeysTyped' /\ KeysOK'
  BY <1>3 DEF Typed, KeysTyped, KeysOK, LiveStored, Stored, Active, Versioned, RevokedBehind
<1> QED BY <1>1, <1>5, <1>6 DEF KeyPart, Moved

\* A key is added, rotated, or given to an account.
LEMMA PersistKeyKeeps ==
  ASSUME Typed, InCall, KeysOK, NEW h \in Handlers, PersistKey(h)
  PROVE  CallsTyped' /\ KeyPart'
<1> DEFINE k == KeyOf(h)
           v == storedKey[k].version + 1
           s == [state |-> "active", version |-> v]
<1>1. Moved(h) /\ CallsTyped
  BY KeyActionMoves DEF Typed, InCall, KeyAction
<1>2. NoOther(h) /\ handling[h].pc = "key" /\ keysMu = h
  BY HolderIsAlone DEF PersistKey, InCall, KeySteps, Held
<1>3. k \in KeyNames
  BY <1>2, KeyInHand DEF InCall
<1>4. storedKey[k].version \in Nat /\ v \in Nat /\ v > storedKey[k].version /\ s \in KeyState
  BY <1>3 DEF Typed, KeysTyped, KeyState
<1>5. revokeAcked' = revokeAcked
  BY DEF PersistKey
<1>6. \/ /\ storedKey' = [storedKey EXCEPT ![k] = s] /\ liveKey' = [liveKey EXCEPT ![k] = v]
         /\ \/ handling[h].op = "approve" /\ Goes(h, "approve") /\ keysMu' = keysMu
            \/ Ends(h) /\ keysMu' = "free"
      \/ storedKey' = storedKey /\ liveKey' = liveKey /\ Ends(h) /\ keysMu' = "free"
  BY DEF PersistKey, Unlocks
<1>7. handling[h].op = "approve" => handling[h].k = k
  BY DEF KeyOf
<1> HIDE DEF k, v
<1>8. CASE storedKey' = storedKey /\ liveKey' = liveKey /\ Ends(h) /\ keysMu' = "free"
  <2>1. handling'[h].pc = "idle"
    BY <1>1, <1>8, Ending
  <2>2. InCall'
    BY <1>1, <1>2, <1>8, <2>1, InCallAfter DEF InCall, KeySteps
  <2>3. KeysTyped' /\ KeysOK'
    BY <1>5, <1>8 DEF Typed, KeysTyped, KeysOK, LiveStored, Stored, Active, Versioned,
       RevokedBehind
  <2> QED BY <1>1, <2>2, <2>3 DEF KeyPart, Moved
<1>9. ASSUME storedKey' = [storedKey EXCEPT ![k] = s], liveKey' = [liveKey EXCEPT ![k] = v]
      PROVE  KeysTyped' /\ KeysOK' /\ storedKey'[k].version > 0
  <2>1. s.state = "active" /\ s.version = v /\ v > 0
    BY <1>4
  <2>2. KeysTyped /\ storedKey'[k] = s
    BY <1>3, <1>9 DEF Typed, KeysTyped
  <2> HIDE DEF s
  <2> QED BY <1>3, <1>4, <1>5, <1>9, <2>1, <2>2, KeyWritten
<1>10. CASE storedKey' = [storedKey EXCEPT ![k] = s] /\ liveKey' = [liveKey EXCEPT ![k] = v]
             /\ handling[h].op = "approve" /\ Goes(h, "approve") /\ keysMu' = keysMu
  <2>1. handling'[h].pc = "approve" /\ handling'[h].k = k
    BY <1>1, <1>7, <1>10, Going DEF SameBut, Labels
  <2>2. InCall'
    BY <1>1, <1>2, <1>9, <1>10, <2>1, InCallAfter DEF InCall
  <2> QED BY <1>1, <1>9, <1>10, <2>2 DEF KeyPart, Moved
<1>11. CASE storedKey' = [storedKey EXCEPT ![k] = s] /\ liveKey' = [liveKey EXCEPT ![k] = v]
             /\ Ends(h) /\ keysMu' = "free"
  <2>1. handling'[h].pc = "idle"
    BY <1>1, <1>11, Ending
  <2>2. InCall'
    BY <1>1, <1>2, <1>11, <2>1, InCallAfter DEF InCall, KeySteps
  <2> QED BY <1>1, <1>9, <1>11, <2>2 DEF KeyPart, Moved
<1> QED BY <1>6, <1>8, <1>10, <1>11

\* An account is approved, or its key is taken back.
LEMMA ApproveUserKeeps ==
  ASSUME Typed, InCall, KeysOK, NEW h \in Handlers, ApproveUser(h)
  PROVE  CallsTyped' /\ KeyPart'
<1> DEFINE k == handling[h].k
<1>1. Moved(h) /\ CallsTyped /\ handling'[h].pc = "idle"
  BY KeyActionMoves, Ending DEF Typed, InCall, KeyAction, ApproveUser
<1>2. NoOther(h) /\ keysMu' = "free"
  BY HolderIsAlone DEF ApproveUser, InCall, KeySteps, Unlocks
<1>3. InCall'
  BY <1>1, <1>2, InCallAfter DEF InCall, KeySteps
<1>4. k \in KeyNames /\ storedKey[k].version > 0 /\ storedKey[k] \in KeyState /\ KeysTyped
  BY DEF ApproveUser, InCall, CallsFit, CallFits, Approving, Typed, KeysTyped
<1>5. revokeAcked' = revokeAcked
  BY DEF ApproveUser
<1>6. \/ storedKey' = storedKey /\ liveKey' = liveKey
      \/ /\ liveKey' = [liveKey EXCEPT ![k] = 0]
         /\ \E final \in {"absent", "revoked"} :
            storedKey' = [storedKey EXCEPT ![k].state = final]
  BY DEF ApproveUser
<1> HIDE DEF k
<1>7. CASE storedKey' = storedKey /\ liveKey' = liveKey
  BY <1>1, <1>3, <1>5, <1>7 DEF KeyPart, Moved, Typed, KeysTyped, KeysOK, LiveStored, Stored,
     Active, Versioned, RevokedBehind
<1>8. ASSUME liveKey' = [liveKey EXCEPT ![k] = 0], NEW final \in {"absent", "revoked"},
             storedKey' = [storedKey EXCEPT ![k].state = final]
      PROVE  KeysTyped' /\ KeysOK'
  <2> DEFINE s == [storedKey[k] EXCEPT !.state = final]
  <2>1. s \in KeyState /\ s.state = final /\ s.version = storedKey[k].version
    BY <1>4 DEF KeyState
  <2>2. storedKey' = [storedKey EXCEPT ![k] = s]
    BY <1>4, <1>8
  <2> HIDE DEF s
  <2> QED BY <1>4, <1>5, <1>8, <2>1, <2>2, KeyWritten
<1> QED BY <1>1, <1>3, <1>6, <1>7, <1>8 DEF KeyPart, Moved

\* A key is revoked.
LEMMA RevokeKeyKeeps ==
  ASSUME Typed, InCall, KeysOK, NEW h \in Handlers, RevokeKeyLiveFirst(h)
  PROVE  CallsTyped' /\ KeyPart'
<1> DEFINE k == KeyOf(h)
           s == [storedKey[k] EXCEPT !.state = IF @ = "absent" THEN @ ELSE "revoked"]
<1>1. Moved(h) /\ CallsTyped /\ handling'[h].pc = "idle"
  BY KeyActionMoves, Ending DEF Typed, InCall, KeyAction, RevokeKeyLiveFirst
<1>2. NoOther(h) /\ keysMu' = "free" /\ handling[h].pc = "key"
  BY HolderIsAlone DEF RevokeKeyLiveFirst, InCall, KeySteps, Unlocks
<1>3. InCall'
  BY <1>1, <1>2, InCallAfter DEF InCall, KeySteps
<1>4. k \in KeyNames
  BY <1>2, KeyInHand DEF InCall
<1>5. liveKey' = [liveKey EXCEPT ![k] = 0]
  BY DEF RevokeKeyLiveFirst
<1>6. \/ /\ storedKey' = [storedKey EXCEPT ![k].state = IF @ = "absent" THEN @ ELSE "revoked"]
         /\ revokeAcked' = IF storedKey[k].state = "absent" THEN revokeAcked
                           ELSE revokeAcked \cup {<<k, storedKey[k].version>>}
      \/ storedKey' = storedKey /\ revokeAcked' = revokeAcked
  BY DEF RevokeKeyLiveFirst
<1> HIDE DEF k
<1>7. /\ storedKey[k] \in KeyState /\ KeysTyped
      /\ storedKey[k].state # "absent" => storedKey[k].version > 0
  BY <1>4 DEF Typed, KeysTyped, KeysOK, Versioned
<1>8. CASE /\ storedKey' = [storedKey EXCEPT ![k].state = IF @ = "absent" THEN @ ELSE "revoked"]
           /\ revokeAcked' = IF storedKey[k].state = "absent" THEN revokeAcked
                             ELSE revokeAcked \cup {<<k, storedKey[k].version>>}
  <2>1. /\ s \in KeyState /\ s.version = storedKey[k].version /\ s.state # "active"
        /\ s.state = "absent" <=> storedKey[k].state = "absent"
    BY <1>7 DEF KeyState
  <2>2. storedKey' = [storedKey EXCEPT ![k] = s]
    BY <1>7, <1>8
  <2> HIDE DEF s
  <2>3. KeysTyped' /\ KeysOK'
    BY <1>4, <1>5, <1>7, <1>8, <2>1, <2>2, KeyWritten
  <2> QED BY <1>1, <1>3, <2>3 DEF KeyPart, Moved
<1>9. CASE storedKey' = storedKey /\ revokeAcked' = revokeAcked
  <2> DEFINE t == storedKey[k]
  <2>1. storedKey' = [storedKey EXCEPT ![k] = t]
    BY <1>7, <1>9 DEF KeysTyped
  <2>2. t \in KeyState /\ (t.state # "absent" => t.version > 0) /\ t = storedKey[k]
    BY <1>7
  <2> HIDE DEF t
  <2>3. KeysTyped' /\ KeysOK'
    BY <1>4, <1>5, <1>7, <1>9, <2>1, <2>2, KeyWritten
  <2> QED BY <1>1, <1>3, <2>3 DEF KeyPart, Moved
<1> QED BY <1>6, <1>8, <1>9

\* A key's limits change.
LEMMA PatchKeyKeeps ==
  ASSUME Typed, InCall, KeysOK, NEW h \in Handlers, PatchKey(h)
  PROVE  CallsTyped' /\ KeyPart'
<1>1. Moved(h) /\ handling'[h].pc = "idle"
  BY KeyActionMoves, Ending DEF Typed, InCall, KeyAction, PatchKey
<1>2. NoOther(h) /\ keysMu' = "free"
  BY HolderIsAlone DEF PatchKey, InCall, KeySteps, Unlocks
<1>3. InCall'
  BY <1>1, <1>2, InCallAfter DEF InCall, KeySteps
<1>4. storedKey' = storedKey /\ liveKey' = liveKey /\ revokeAcked' = revokeAcked
  BY DEF PatchKey
<1>5. KeysTyped' /\ KeysOK'
  BY <1>4 DEF Typed, KeysTyped, KeysOK, LiveStored, Stored, Active, Versioned, RevokedBehind
<1> QED BY <1>1, <1>3, <1>5 DEF KeyPart, Moved

\* A reload reads, then applies what it read; the store is as it was.
LEMMA ReloadKeysKeeps ==
  ASSUME Typed, InCall, KeysOK, NEW h \in Handlers, ReloadKeys(h)
  PROVE  CallsTyped' /\ KeyPart'
<1>1. Moved(h) /\ CallsTyped /\ KeysTyped
  BY KeyActionMoves DEF Typed, InCall, KeyAction
<1>2. NoOther(h) /\ keysMu = h /\ handling[h].pc \in {"key", "apply"}
  BY HolderIsAlone DEF ReloadKeys, InCall, KeySteps, Held
<1>3. storedKey' = storedKey /\ revokeAcked' = revokeAcked
  BY DEF ReloadKeys
<1>4. CASE handling[h].pc = "key"
  <2>1. liveKey' = liveKey /\ keysMu' = keysMu
    BY <1>4 DEF ReloadKeys
  <2>2. handling'[h].pc = "apply" /\ handling'[h].read = Versions
    BY <1>1, <1>4, Reading
  <2>3. \A k \in OperatorKeys : Versions[k] # 0 =>
            storedKey'[k].state = "active" /\ storedKey'[k].version = Versions[k]
    BY <1>3 DEF Versions, Active, OperatorKeys
  <2>4. InCall'
    BY <1>1, <1>2, <2>1, <2>2, <2>3, InCallAfter DEF InCall
  <2>5. KeysTyped' /\ KeysOK'
    BY <1>3, <2>1 DEF Typed, KeysTyped, KeysOK, LiveStored, Stored, Active, Versioned,
       RevokedBehind
  <2> QED BY <1>1, <2>4, <2>5 DEF KeyPart, Moved
<1>5. CASE handling[h].pc = "apply"
  <2>1. liveKey' = handling[h].read /\ Ends(h) /\ keysMu' = "free"
    BY <1>5 DEF ReloadKeys, Unlocks
  <2>2. handling'[h].pc = "idle"
    BY <1>1, <2>1, Ending
  <2>3. InCall'
    BY <1>1, <1>2, <2>1, <2>2, InCallAfter DEF InCall, KeySteps
  <2>4. KeysTyped'
    BY <1>1, <1>3, <2>1 DEF KeysTyped, CallsTyped, Call
  <2>5. KeysOK'
    BY <1>3, <1>5, <2>1 DEF InCall, ReadStored, KeysOK, LiveStored, Stored, Active, Versioned,
       RevokedBehind
  <2> QED BY <1>1, <2>3, <2>4, <2>5 DEF KeyPart, Moved
<1> QED BY <1>2, <1>4, <1>5

\* A probe stores, uses and removes a key of its own, whoever holds the lock.
LEMMA ProbeKeyKeeps ==
  ASSUME Typed, InCall, KeysOK, NEW k \in ProbeNames, ProbeKey(k)
  PROVE  CallsTyped' /\ KeyPart'
<1>1. k \in KeyNames /\ k \notin OperatorKeys
  BY AccountsAssumption DEF OperatorKeys
<1>2. storedKey[k] \in KeyState /\ liveKey[k] \in Nat /\ KeysTyped
  BY <1>1 DEF Typed, KeysTyped
<1>3. /\ handling' = handling /\ keysMu' = keysMu /\ revokeAcked' = revokeAcked
      /\ \/ storedKey' = storedKey
         \/ storedKey' = [storedKey EXCEPT ![k] =
                             [state |-> "active", version |-> storedKey[k].version + 1]]
         \/ storedKey' = [storedKey EXCEPT ![k].state = "absent"]
      /\ \/ liveKey' = liveKey
         \/ liveKey' = [liveKey EXCEPT ![k] = 0]
         \/ liveKey' = [liveKey EXCEPT ![k] = 1]
  BY DEF ProbeKey
<1>4. \E s \in KeyState : /\ storedKey' = [storedKey EXCEPT ![k] = s]
                          /\ s.state # "absent" => s.version > 0
                          /\ \/ s.version > storedKey[k].version
                             \/ s.version = storedKey[k].version
                                  /\ (s.state = "active" => storedKey[k].state = "active")
  <2>1. CASE storedKey' = storedKey
    <3>1. storedKey' = [storedKey EXCEPT ![k] = storedKey[k]]
      BY <1>1, <1>2, <2>1 DEF KeysTyped
    <3>2. storedKey[k].state # "absent" => storedKey[k].version > 0
      BY <1>1 DEF KeysOK, Versioned
    <3> QED BY <1>2, <3>1, <3>2
  <2>2. CASE storedKey' = [storedKey EXCEPT ![k] =
                             [state |-> "active", version |-> storedKey[k].version + 1]]
    <3> DEFINE s == [state |-> "active", version |-> storedKey[k].version + 1]
    <3>1. /\ s \in KeyState /\ s.state = "active" /\ s.version > 0
          /\ s.version > storedKey[k].version
      BY <1>2 DEF KeyState
    <3>2. storedKey' = [storedKey EXCEPT ![k] = s]
      BY <2>2
    <3> HIDE DEF s
    <3> QED BY <3>1, <3>2
  <2>3. CASE storedKey' = [storedKey EXCEPT ![k].state = "absent"]
    <3> DEFINE s == [storedKey[k] EXCEPT !.state = "absent"]
    <3>1. s \in KeyState /\ s.state = "absent" /\ s.version = storedKey[k].version
      BY <1>2 DEF KeyState
    <3>2. storedKey' = [storedKey EXCEPT ![k] = s]
      BY <1>1, <1>2, <2>3 DEF KeysTyped
    <3> HIDE DEF s
    <3> QED BY <3>1, <3>2
  <2> QED BY <1>3, <2>1, <2>2, <2>3
<1>5. \E v \in Nat : liveKey' = [liveKey EXCEPT ![k] = v]
  <2>1. liveKey = [liveKey EXCEPT ![k] = liveKey[k]]
    BY <1>1, <1>2 DEF KeysTyped
  <2> QED BY <1>2, <1>3, <2>1
<1>6. KeysTyped' /\ KeysOK'
  BY <1>1, <1>2, <1>3, <1>4, <1>5, KeyWritten
<1>7. /\ \A j \in OperatorKeys : storedKey'[j] = storedKey[j]
      /\ \A j \in KeyNames : storedKey[j].version > 0 => storedKey'[j].version > 0
  <2>1. \A j \in KeyNames \ {k} : storedKey'[j] = storedKey[j]
    BY <1>2, <1>4 DEF KeysTyped
  <2>2. storedKey[k].version > 0 => storedKey'[k].version > 0
    <3>1. PICK s \in KeyState :
            /\ storedKey' = [storedKey EXCEPT ![k] = s]
            /\ s.version > storedKey[k].version \/ s.version = storedKey[k].version
      BY <1>4
    <3>2. storedKey'[k] = s
      BY <1>1, <1>2, <3>1 DEF KeysTyped
    <3> QED BY <1>2, <3>1, <3>2 DEF KeyState
  <2> QED BY <1>1, <2>1, <2>2 DEF OperatorKeys
<1>8. InCall'
  <2>1. CallsFit' /\ Held'
    BY <1>3 DEF InCall, CallsFit, Held
  <2>2. ReadStored'
    BY <1>3, <1>7 DEF InCall, ReadStored, Stored, Active
  <2>3. Approving'
    BY <1>3, <1>7 DEF InCall, Approving, CallsFit, CallFits
  <2> QED BY <2>1, <2>2, <2>3 DEF InCall
<1> QED BY <1>3, <1>6, <1>8 DEF KeyPart, Typed, CallsTyped

\* A restart: what is live is what the store says, probe keys aside.
LEMMA RestartKeeps ==
  ASSUME Typed, InCall, KeysOK, AccountsRestart
  PROVE  CallsTyped' /\ KeyPart'
<1>1. /\ handling' = [h \in Handlers |-> IdleCall] /\ keysMu' = "free"
      /\ revokeAcked' = revokeAcked
  BY DEF AccountsRestart
<1>2. CallsTyped' /\ \A h \in Handlers : handling'[h].pc = "idle"
  BY <1>1, AtRest DEF CallsTyped
<1>3. InCall'
  BY <1>1, <1>2 DEF InCall, CallsFit, CallFits, Held, ReadStored, Approving
<1>4. PICK probes \in SUBSET ProbeNames, remains \in SUBSET ProbeNames :
        /\ storedKey' = [k \in KeyNames |-> IF k \in probes \ remains
                                            THEN [storedKey[k] EXCEPT !.state = "absent"]
                                            ELSE storedKey[k]]
        /\ liveKey' = [k \in KeyNames |-> IF Active(k) /\ k \notin probes
                                          THEN storedKey[k].version ELSE 0]
  BY DEF AccountsRestart, LoadStoredKeys
<1>5. \A k \in KeyNames :
        /\ storedKey[k] \in KeyState
        /\ storedKey'[k] \in KeyState /\ storedKey'[k].version = storedKey[k].version
        /\ storedKey'[k] = storedKey[k] \/ (storedKey'[k].state = "absent" /\ k \in probes)
        /\ liveKey'[k] = IF Active(k) /\ k \notin probes THEN storedKey[k].version ELSE 0
  <2> TAKE k \in KeyNames
  <2>1. storedKey[k] \in KeyState
    BY DEF Typed, KeysTyped
  <2>2. liveKey'[k] = IF Active(k) /\ k \notin probes THEN storedKey[k].version ELSE 0
    BY <1>4
  <2>3. storedKey'[k] = IF k \in probes \ remains THEN [storedKey[k] EXCEPT !.state = "absent"]
                        ELSE storedKey[k]
    BY <1>4
  <2> QED BY <2>1, <2>2, <2>3 DEF KeyState
<1>6. KeysTyped'
  <2>1. /\ storedKey' = [k \in KeyNames |-> storedKey'[k]]
        /\ liveKey' = [k \in KeyNames |-> liveKey'[k]]
    BY <1>4
  <2>2. \A k \in KeyNames : liveKey'[k] \in Nat
    BY <1>5 DEF KeyState
  <2> QED BY <1>5, <2>1, <2>2 DEF KeysTyped
<1>7. LiveStored'
  BY <1>5 DEF LiveStored, Stored, Active, OperatorKeys
<1>8. Versioned' /\ RevokedBehind'
  BY <1>1, <1>5 DEF KeysOK, Versioned, RevokedBehind, Active
<1> QED BY <1>2, <1>3, <1>6, <1>7, <1>8 DEF KeyPart, KeysOK

-----------------------------------------------------------------------------
(* Theorems. *)

\* The first start has its admins and no keys.
LEMMA KeysSafeFirst == ASSUME AccountsInit PROVE KeysSafe
<1>1. UsersTyped
  <2>1. \A a \in Accounts :
            users[a] \in {NoRow, [NoRow EXCEPT !.role = "admin", !.status = "active",
              !.pass = 1]}
    BY DEF AccountsInit
  <2>2. [NoRow EXCEPT !.role = "admin", !.status = "active", !.pass = 1] \in UserRow
    BY BlankRow DEF UserRow, Roles
  <2>3. users \in [Accounts -> UserRow]
    BY <2>1, <2>2, BlankRow DEF AccountsInit
  <2>4. sessions \subseteq SessionSet
    <3>1. \A a \in Accounts : [user |-> a, role |-> "admin", must |-> FALSE] \in SessionSet
      BY DEF SessionSet, Roles
    <3>2. FirstAdmins \subseteq Accounts
      BY AccountsAssumption
    <3> QED BY <3>1, <3>2 DEF AccountsInit
  <2> QED BY <2>3, <2>4 DEF UsersTyped, SessionSet
<1>2. KeysTyped
  BY DEF AccountsInit, KeysTyped, KeyState
<1>3. CallsTyped /\ \A h \in Handlers : handling[h].pc = "idle"
  BY AtRest DEF AccountsInit, CallsTyped
<1>4. InCall
  BY <1>3 DEF AccountsInit, InCall, CallsFit, CallFits, Held, ReadStored, Approving
<1>5. KeysOK
  BY DEF AccountsInit, KeysOK, LiveStored, Stored, Versioned, RevokedBehind, OperatorKeys
<1>6. ProbesTyped
  BY DEF AccountsInit, ProbesTyped, ProbeSteps
<1> QED BY <1>1, <1>2, <1>3, <1>4, <1>5, <1>6 DEF KeysSafe, Typed

\* How far the probes are.
LEMMA ProbesTypedStep == ASSUME ProbesTyped, AccountsNext PROVE ProbesTyped'
<1>1. ASSUME NEW k \in ProbeNames, ProbeKey(k) PROVE ProbesTyped'
  <2>1. \E s \in ProbeSteps : probing' = [probing EXCEPT ![k] = s]
    BY <1>1 DEF ProbeKey, ProbeSteps
  <2> QED BY <2>1 DEF ProbesTyped
<1>2. CASE AccountsRestart
  BY <1>2 DEF AccountsRestart, ProbesTyped, ProbeSteps
<1>3. ASSUME NEW h \in Handlers, UserAction(h) PROVE probing' = probing
  BY <1>3 DEF UserAction, ReadUser, CreateUser, EnterKeyOp, LoginSession, ChangePassword,
     SkipPasswordChange, DropThenIssue, PatchUser, ResetUserPassword, SuspendUser,
     CheckLastAdmin, SoftDeleteUser, EndSessions, RefuseApproval, userRest
<1>4. ASSUME NEW h \in Handlers, KeyAction(h) PROVE probing' = probing
  BY <1>4 DEF KeyAction, LockKeys, PersistKey, ApproveUser, RevokeKeyLiveFirst, PatchKey,
     ReloadKeys, keyRest
<1>5. CASE Logout
  BY <1>5 DEF Logout, userRest, ProbesTyped
<1> QED BY <1>1, <1>2, <1>3, <1>4, <1>5, StepKinds DEF ProbesTyped

\* No step takes it away.
LEMMA KeysSafeKept == ASSUME KeysSafe, [AccountsNext]_accountVars PROVE KeysSafe'
<1>1. CASE AccountsNext
  <2>1. Typed /\ InCall /\ KeysOK /\ CallsFit
    BY DEF KeysSafe, InCall
  <2>2. UsersTyped'
    BY <1>1, <2>1, RowsTypedStep, SessionsTypedStep DEF UsersTyped, RowsTyped, SessionSet
  <2>3. CallsTyped' /\ KeyPart'
    <3>1. ASSUME NEW h \in Handlers, UserAction(h) PROVE CallsTyped' /\ KeyPart'
      BY <2>1, <3>1, UserActionKeeps
    <3>2. ASSUME NEW h \in Handlers, KeyAction(h) PROVE CallsTyped' /\ KeyPart'
      BY <2>1, <3>2, LockKeysKeeps, PersistKeyKeeps, ApproveUserKeeps, RevokeKeyKeeps,
         PatchKeyKeeps, ReloadKeysKeeps DEF KeyAction
    <3>3. CASE Logout
      BY <2>1, <3>3 DEF Logout, userRest, Typed, CallsTyped, KeyPart, KeysTyped, InCall,
         CallsFit,
         Held, ReadStored, Approving, KeysOK, LiveStored, Stored, Active, Versioned,
         RevokedBehind
    <3>4. CASE AccountsRestart
      BY <2>1, <3>4, RestartKeeps
    <3>5. ASSUME NEW k \in ProbeNames, ProbeKey(k) PROVE CallsTyped' /\ KeyPart'
      BY <2>1, <3>5, ProbeKeyKeeps
    <3> QED BY <1>1, <3>1, <3>2, <3>3, <3>4, <3>5, StepKinds
  <2>4. ProbesTyped'
    BY <1>1, ProbesTypedStep DEF KeysSafe
  <2> QED BY <2>2, <2>3, <2>4 DEF KeysSafe, Typed, KeyPart
<1>2. CASE UNCHANGED accountVars
  BY <1>2 DEF accountVars, KeysSafe, ProbesTyped, Typed, UsersTyped, KeysTyped, CallsTyped, InCall, CallsFit,
     Held, ReadStored, Approving, KeysOK, LiveStored, Stored, Active, Versioned, RevokedBehind
<1> QED BY <1>1, <1>2

\* A live key is stored, even while its handler holds the lock, and no revoked version
\* is live.
LEMMA KeysSafeMeans ==
  ASSUME KeysSafe
  PROVE  AccountsTypeOK /\ LiveKeysStored /\ RevokedStaysRevoked
<1>1. AccountsTypeOK
  <2>1. \A a \in Accounts : users[a] \in UserRow
    BY DEF KeysSafe, Typed, UsersTyped
  <2>2. \A k \in KeyNames : storedKey[k] \in KeyState
    BY DEF KeysSafe, Typed, KeysTyped
  <2>3. sessions \subseteq SessionSet /\ keysMu \in Handlers \cup {"free"}
    BY DEF KeysSafe, Typed, UsersTyped, InCall, Held, SessionSet
  <2>4. probing \in [ProbeNames -> ProbeSteps]
    BY DEF KeysSafe, ProbesTyped
  <2> QED BY <2>1, <2>2, <2>3, <2>4 DEF AccountsTypeOK, UserRow, KeyState, SessionSet, Roles
<1>2. LiveKeysStored
  BY DEF KeysSafe, KeysOK, LiveStored, Stored, LiveKeysStored
<1>3. RevokedStaysRevoked
  <2> SUFFICES ASSUME NEW k \in OperatorKeys, <<k, liveKey[k]>> \in revokeAcked
               PROVE  FALSE
    BY DEF RevokedStaysRevoked
  <2> k \in KeyNames
    BY DEF OperatorKeys
  <2>1. liveKey[k] \in Nat
    BY DEF KeysSafe, Typed, KeysTyped
  <2>2. liveKey[k] > 0 /\ (liveKey[k] = storedKey[k].version => ~Active(k))
    BY <2>1 DEF KeysSafe, KeysOK, RevokedBehind
  <2>3. Active(k) /\ storedKey[k].version = liveKey[k]
    BY <2>1, <2>2 DEF KeysSafe, KeysOK, LiveStored, Stored
  <2> QED BY <2>2, <2>3
<1> QED BY <1>1, <1>2, <1>3

-----------------------------------------------------------------------------
(* The processes of a host. *)

Holding == {"stop", "reap", "start", "file"}
Request == [kind : {"none", "start", "stop", "restart"},
            pc : {"idle", "arrived", "ok", "error", "stoppedOnly"} \cup Holding,
            pid : Pids \cup {NoPid}, command : BOOLEAN]

ProcTyped ==
    /\ ProcessTypeOK
    /\ act \in [Actions -> Request]
    /\ launched # 0
    /\ \A p \in Pids : p > launched => proc[p] = "none"

\* Only the request that holds the lock is past "arrived".
LockHeld == \A a \in Actions : act[a].pc \in Holding => lock = a

\* A command travels with a start only, and what stops is no start.
Kinded ==
    \A a \in Actions :
        /\ act[a].command => act[a].kind = "start"
        /\ act[a].pc \in Holding \cup {"arrived"} => act[a].kind # "none"
        /\ act[a].pc \in {"stop", "reap"} => act[a].kind # "start"
        /\ act[a].pc \in {"start", "file"} => act[a].kind # "stop"
        /\ act[a].pc = "file" => act[a].pid \in Pids
        /\ act[a].pc = "reap" => act[a].pid = pidFile

\* The process in the file is dead: killed, or found dead before a launch.
Replacing(a) ==
    act[a].pc \in {"reap", "file"} \/ (act[a].pc = "start" /\ act[a].kind = "restart")

\* Who is alive, and was not given up, is the process in the file or the one just launched.
AliveTracked ==
    \A p \in Pids \ orphans : proc[p] = "alive" =>
        \/ p = pidFile /\ \A a \in Actions : ~Replacing(a)
        \/ \E a \in Actions : act[a].pc = "file" /\ act[a].pid = p
ProcInv == ProcTyped /\ LockHeld /\ Kinded /\ AliveTracked

LEMMA ProcInit == ProcessInit => ProcInv
  BY ProcessAssumption DEF ProcessInit, ProcInv, ProcTyped, ProcessTypeOK, LockHeld, Kinded,
     AliveTracked, Replacing, NoAct, Request, Holding, Pids, NoPid

\* One runtime at most, and the file names it, is what the invariant says of a moment.
LEMMA OneIsTracked == ProcInv => OneRuntime
<1> SUFFICES ASSUME ProcInv PROVE OneRuntime
  OBVIOUS
<1> DEFINE alive == {p \in Pids \ orphans : proc[p] = "alive"}
<1>1. \A p, q \in alive : p = q
  BY ProcessAssumption DEF ProcInv, ProcTyped, LockHeld, AliveTracked, Replacing, Holding
<1>2. Cardinality(alive) <= 1
  <2>1. CASE alive = {}
    BY <2>1, FS_EmptySet
  <2>2. CASE alive # {}
    <3>1. PICK p \in alive : alive = {p}
      BY <1>1, <2>2
    <3>2. Cardinality({p}) = 1
      BY FS_Singleton
    <3> QED BY <3>1, <3>2
  <2> QED BY <2>1, <2>2
<1>3. lock = 0 => alive \subseteq {pidFile}
  BY ProcessAssumption DEF ProcInv, ProcTyped, LockHeld, AliveTracked, Replacing, Holding
<1> QED BY <1>2, <1>3 DEF OneRuntime

\* One request moves.
LEMMA RequestMoves ==
  ASSUME ProcInv, NEW a \in Actions, NEW c \in Request, act' = [act EXCEPT ![a] = c]
  PROVE  /\ act' \in [Actions -> Request] /\ act'[a] = c
         /\ \A b \in Actions \ {a} : act'[b] = act[b]
  BY DEF ProcInv, ProcTyped

\* Where nobody's process dies or is born, and the file stays, the moves of one request
\* keep the invariant when they fit the lock and what is alive.
Coherent(a) ==
    /\ act'[a].pc \in Holding => lock' = a
    /\ act'[a].command => act'[a].kind = "start"
    /\ act'[a].pc \in Holding \cup {"arrived"} => act'[a].kind # "none"
    /\ act'[a].pc \in {"stop", "reap"} => act'[a].kind # "start"
    /\ act'[a].pc \in {"start", "file"} => act'[a].kind # "stop"
    /\ act'[a].pc = "file" => act'[a].pid \in Pids
    /\ act'[a].pc = "reap" => act'[a].pid = pidFile'
TakesLock(a) == lock' = lock \/ (lock \in {0, a} /\ lock' \in {0, a})

LEMMA LockAndKinds ==
  ASSUME ProcInv, NEW a \in Actions, Coherent(a), TakesLock(a),
         pidFile' = pidFile \/ lock = a,
         \A b \in Actions \ {a} : act'[b] = act[b]
  PROVE  LockHeld' /\ Kinded'
<1>1. LockHeld'
  BY ProcessAssumption DEF Coherent, TakesLock, ProcInv, LockHeld, Holding
<1>2. Kinded'
  BY ProcessAssumption DEF Coherent, ProcInv, LockHeld, Kinded, Holding
<1> QED BY <1>1, <1>2

LEMMA ProcStep == ProcInv /\ [ProcessNext]_processVars => ProcInv'
<1> SUFFICES ASSUME ProcInv, [ProcessNext]_processVars PROVE ProcInv'
  OBVIOUS
<1> USE ProcessAssumption
<1>1. CASE UNCHANGED processVars
  BY <1>1 DEF processVars, ProcInv, ProcTyped, ProcessTypeOK, LockHeld, Kinded, AliveTracked,
     Replacing
<1>2. ASSUME NEW a \in Actions, NEW kind \in {"start", "stop", "restart"},
             RuntimeActionViaAgent(a, kind), UNCHANGED adminScope
      PROVE  ProcInv'
  <2> DEFINE c == [kind |-> kind, pc |-> "arrived", pid |-> NoPid,
                   command |-> kind = "start" /\ CommandSaved]
  <2>1. c \in Request /\ act' = [act EXCEPT ![a] = c]
    BY <1>2 DEF RuntimeActionViaAgent, Request, Holding, NoPid
  <2>2. /\ act' \in [Actions -> Request] /\ act'[a] = c
        /\ \A b \in Actions \ {a} : act'[b] = act[b]
    BY <2>1, RequestMoves
  <2>3. UNCHANGED <<proc, pidFile, lock, launched, faults, orphans>> /\ ~Replacing(a) /\ ~Replacing(a)'
    BY <1>2, <2>2 DEF RuntimeActionViaAgent, Replacing
  <2>4. ProcTyped'
    BY <2>2, <2>3, <1>2 DEF ProcInv, ProcTyped, ProcessTypeOK, Request
  <2>c. c.pc = "arrived" /\ c.kind # "none" /\ (c.command => c.kind = "start")
    BY Zenon
  <2> HIDE DEF c
  <2>5. LockHeld' /\ Kinded'
    BY <2>2, <2>3, <2>c, LockAndKinds DEF Coherent, TakesLock, Holding
  <2>6. AliveTracked'
    BY <1>2, <2>2, <2>3 DEF RuntimeActionViaAgent, ProcInv, AliveTracked, Replacing
  <2> QED BY <2>4, <2>5, <2>6 DEF ProcInv
<1>3. ASSUME NEW a \in Actions, RefuseScope(a), UNCHANGED adminScope PROVE ProcInv'
  BY <1>3 DEF RefuseScope, ActAt, Steps, ProcInv, ProcTyped, ProcessTypeOK, LockHeld, Kinded,
     AliveTracked, Replacing, Request, Holding
<1>4. ASSUME NEW a \in Actions, LockControlAction(a), UNCHANGED adminScope PROVE ProcInv'
  BY <1>4 DEF LockControlAction, ActAt, Steps, ProcInv, ProcTyped, ProcessTypeOK, LockHeld,
     Kinded, AliveTracked, Replacing, Request, Holding
<1>5. ASSUME NEW a \in Actions, Stop(a), UNCHANGED adminScope PROVE ProcInv'
  <2>1. act[a] \in Request /\ act[a].pc \in Holding /\ lock = a
        /\ \A b \in Actions \ {a} : act[b].pc \notin Holding
    BY <1>5 DEF Stop, ActAt, ProcInv, ProcTyped, LockHeld, Holding
  <2>2. CASE act' = [act EXCEPT ![a] = [NoAct EXCEPT !.kind = act[a].kind, !.pc = "error"]]
             /\ lock' = 0 /\ UNCHANGED proc
    <3> DEFINE c == [NoAct EXCEPT !.kind = act[a].kind, !.pc = "error"]
    <3>1. c \in Request /\ act' = [act EXCEPT ![a] = c]
      BY <1>5, <2>1, <2>2 DEF Stop, ActAt, EndsAs, NoAct, Steps, Request, Holding, NoPid,
         Pids, ProcInv, ProcTyped, ProcessTypeOK
    <3>2. /\ act' \in [Actions -> Request] /\ act'[a] = c
          /\ \A b \in Actions \ {a} : act'[b] = act[b]
      BY <3>1, RequestMoves
    <3>3. ProcTyped'
      BY <1>5, <2>2, <3>2 DEF Stop, ActAt, EndsAs, NoAct, Steps, Fault, ProcessAlive,
         ProcInv, ProcTyped, ProcessTypeOK, Pids, NoPid, Request
    <3>4. LockHeld' /\ Kinded'
      BY <1>5, <2>1, <2>2, <3>2, LockAndKinds DEF Stop, ActAt, EndsAs, NoAct, Steps,
         Coherent, TakesLock, ProcInv, Kinded, ProcTyped, ProcessTypeOK, Holding,
         ProcessAlive, NoPid
    <3>5. AliveTracked'
      BY <1>5, <2>1, <2>2, <3>2 DEF Stop, ActAt, EndsAs, NoAct, Steps, ProcessAlive,
         ProcInv, ProcTyped, ProcessTypeOK, Kinded, AliveTracked, Replacing, Holding, NoPid,
         Pids
    <3> QED BY <3>3, <3>4, <3>5 DEF ProcInv
  <2>3. CASE act' = [act EXCEPT ![a] = [act[a] EXCEPT !.pc = "reap", !.pid = pidFile]]
             /\ proc' = [proc EXCEPT ![pidFile] = "zombie"] /\ ProcessAlive(pidFile)
                /\ UNCHANGED <<lock, faults>>
    <3> DEFINE c == [act[a] EXCEPT !.pc = "reap", !.pid = pidFile]
    <3>1. c \in Request /\ act' = [act EXCEPT ![a] = c]
      BY <1>5, <2>1, <2>3 DEF Stop, ActAt, EndsAs, NoAct, Steps, Request, Holding, NoPid,
         Pids, ProcInv, ProcTyped, ProcessTypeOK
    <3>2. /\ act' \in [Actions -> Request] /\ act'[a] = c
          /\ \A b \in Actions \ {a} : act'[b] = act[b]
      BY <3>1, RequestMoves
    <3>3. ProcTyped'
      BY <1>5, <2>3, <3>2 DEF Stop, ActAt, EndsAs, NoAct, Steps, Fault, ProcessAlive,
         ProcInv, ProcTyped, ProcessTypeOK, Pids, NoPid, Request
    <3>4. LockHeld' /\ Kinded'
      BY <1>5, <2>1, <2>3, <3>2, LockAndKinds DEF Stop, ActAt, EndsAs, NoAct, Steps,
         Coherent, TakesLock, ProcInv, Kinded, ProcTyped, ProcessTypeOK, Holding,
         ProcessAlive, NoPid
    <3>5. AliveTracked'
      BY <1>5, <2>1, <2>3, <3>2 DEF Stop, ActAt, EndsAs, NoAct, Steps, ProcessAlive,
         ProcInv, ProcTyped, ProcessTypeOK, Kinded, AliveTracked, Replacing, Holding, NoPid,
         Pids
    <3> QED BY <3>3, <3>4, <3>5 DEF ProcInv
  <2> QED BY <1>5, <2>2, <2>3 DEF Stop, ActAt, EndsAs, NoAct, Steps
<1>6. ASSUME NEW a \in Actions, StopWaits(a), UNCHANGED adminScope PROVE ProcInv'
  <2>1. act[a] \in Request /\ act[a].pc \in Holding /\ lock = a
        /\ \A b \in Actions \ {a} : act[b].pc \notin Holding
    BY <1>6 DEF StopWaits, ActAt, ProcInv, ProcTyped, LockHeld, Holding
  <2>2. CASE act' = [act EXCEPT ![a] = [NoAct EXCEPT !.kind = act[a].kind, !.pc = "error"]]
             /\ lock' = 0
    <3> DEFINE c == [NoAct EXCEPT !.kind = act[a].kind, !.pc = "error"]
    <3>1. c \in Request /\ act' = [act EXCEPT ![a] = c]
      BY <1>6, <2>1, <2>2 DEF StopWaits, ActAt, EndsAs, NoAct, Steps, Request, Holding,
         NoPid, Pids, ProcInv, ProcTyped, ProcessTypeOK
    <3>2. /\ act' \in [Actions -> Request] /\ act'[a] = c
          /\ \A b \in Actions \ {a} : act'[b] = act[b]
      BY <3>1, RequestMoves
    <3>3. ProcTyped'
      BY <1>6, <2>2, <3>2 DEF StopWaits, ActAt, EndsAs, NoAct, Steps, Fault, ProcInv,
         ProcTyped, ProcessTypeOK, Pids, NoPid, Request
    <3>4. LockHeld' /\ Kinded'
      BY <1>6, <2>1, <2>2, <3>2, LockAndKinds DEF StopWaits, ActAt, EndsAs, NoAct, Steps,
         Coherent, TakesLock, ProcInv, Kinded, ProcTyped, ProcessTypeOK, Holding,
         ProcessAlive, NoPid
    <3>5. AliveTracked'
      BY <1>6, <2>1, <2>2, <3>2 DEF StopWaits, ActAt, EndsAs, NoAct, Steps, ProcessAlive,
         ProcInv, ProcTyped, ProcessTypeOK, Kinded, AliveTracked, Replacing, Holding, NoPid,
         Pids
    <3> QED BY <3>3, <3>4, <3>5 DEF ProcInv
  <2>3. CASE act[a].kind = "stop" /\ ~ProcessAlive(act[a].pid)
             /\ act' = [act EXCEPT ![a] = [NoAct EXCEPT !.kind = act[a].kind, !.pc = "ok"]]
                /\ lock' = 0
    <3> DEFINE c == [NoAct EXCEPT !.kind = act[a].kind, !.pc = "ok"]
    <3>1. c \in Request /\ act' = [act EXCEPT ![a] = c]
      BY <1>6, <2>1, <2>3 DEF StopWaits, ActAt, EndsAs, NoAct, Steps, Request, Holding,
         NoPid, Pids, ProcInv, ProcTyped, ProcessTypeOK
    <3>2. /\ act' \in [Actions -> Request] /\ act'[a] = c
          /\ \A b \in Actions \ {a} : act'[b] = act[b]
      BY <3>1, RequestMoves
    <3>3. ProcTyped'
      BY <1>6, <2>3, <3>2 DEF StopWaits, ActAt, EndsAs, NoAct, Steps, Fault, ProcInv,
         ProcTyped, ProcessTypeOK, Pids, NoPid, Request
    <3>4. LockHeld' /\ Kinded'
      BY <1>6, <2>1, <2>3, <3>2, LockAndKinds DEF StopWaits, ActAt, EndsAs, NoAct, Steps,
         Coherent, TakesLock, ProcInv, Kinded, ProcTyped, ProcessTypeOK, Holding,
         ProcessAlive, NoPid
    <3>5. AliveTracked'
      BY <1>6, <2>1, <2>3, <3>2 DEF StopWaits, ActAt, EndsAs, NoAct, Steps, ProcessAlive,
         ProcInv, ProcTyped, ProcessTypeOK, Kinded, AliveTracked, Replacing, Holding, NoPid,
         Pids
    <3> QED BY <3>3, <3>4, <3>5 DEF ProcInv
  <2>4. CASE act[a].kind # "stop" /\ ~ProcessAlive(act[a].pid)
             /\ act' = [act EXCEPT ![a].pc = "start"] /\ UNCHANGED lock
    <3> DEFINE c == [act[a] EXCEPT !.pc = "start"]
    <3>1. c \in Request /\ act' = [act EXCEPT ![a] = c]
      BY <1>6, <2>1, <2>4 DEF StopWaits, ActAt, EndsAs, NoAct, Steps, Request, Holding,
         NoPid, Pids, ProcInv, ProcTyped, ProcessTypeOK
    <3>2. /\ act' \in [Actions -> Request] /\ act'[a] = c
          /\ \A b \in Actions \ {a} : act'[b] = act[b]
      BY <3>1, RequestMoves
    <3>3. ProcTyped'
      BY <1>6, <2>4, <3>2 DEF StopWaits, ActAt, EndsAs, NoAct, Steps, Fault, ProcInv,
         ProcTyped, ProcessTypeOK, Pids, NoPid, Request
    <3>4. LockHeld' /\ Kinded'
      BY <1>6, <2>1, <2>4, <3>2, LockAndKinds DEF StopWaits, ActAt, EndsAs, NoAct, Steps,
         Coherent, TakesLock, ProcInv, Kinded, ProcTyped, ProcessTypeOK, Holding,
         ProcessAlive, NoPid
    <3>5. AliveTracked'
      BY <1>6, <2>1, <2>4, <3>2 DEF StopWaits, ActAt, EndsAs, NoAct, Steps, ProcessAlive,
         ProcInv, ProcTyped, ProcessTypeOK, Kinded, AliveTracked, Replacing, Holding, NoPid,
         Pids
    <3> QED BY <3>3, <3>4, <3>5 DEF ProcInv
  <2> QED BY <1>6, <2>2, <2>3, <2>4 DEF StopWaits, ActAt, EndsAs, NoAct, Steps
<1>7. ASSUME NEW a \in Actions, Start(a), UNCHANGED adminScope PROVE ProcInv'
  <2>0. act[a].pc = "start" /\ act[a].command \in BOOLEAN /\ launched \in 0 .. MaxLaunches
        /\ (~act[a].command => FailsStart(a) /\ UNCHANGED <<proc, launched, faults>>)
        /\ faults \in 0 .. MaxFaults /\ UNCHANGED orphans
    BY <1>7 DEF Start, ActAt, ProcInv, ProcTyped, ProcessTypeOK, Request
  <2>1. act[a] \in Request /\ act[a].pc \in Holding /\ lock = a
        /\ \A b \in Actions \ {a} : act[b].pc \notin Holding
    BY <1>7 DEF Start, ActAt, ProcInv, ProcTyped, LockHeld, Holding
  <2>2. CASE FailsStart(a) /\ UNCHANGED <<proc, launched>> /\ faults' \in 0 .. MaxFaults
    <3> DEFINE c == [NoAct EXCEPT !.kind = act[a].kind,
        !.pc = IF act[a].kind = "restart" THEN "stoppedOnly" ELSE "error"]
    <3>1. c \in Request /\ act' = [act EXCEPT ![a] = c]
      BY <1>7, <2>1, <2>2 DEF Start, FailsStart, ActAt, EndsAs, NoAct, Steps, Request,
         Holding, NoPid, Pids, ProcInv, ProcTyped, ProcessTypeOK
    <3>2. /\ act' \in [Actions -> Request] /\ act'[a] = c
          /\ \A b \in Actions \ {a} : act'[b] = act[b]
      BY <3>1, RequestMoves
    <3>3. ProcTyped'
      BY <1>7, <2>2, <3>2 DEF Start, FailsStart, ActAt, EndsAs, NoAct, Steps, Fault,
         ProcInv, ProcTyped, ProcessTypeOK, Pids, NoPid, Request
    <3>4. LockHeld' /\ Kinded'
      BY <1>7, <2>1, <2>2, <3>2, LockAndKinds DEF Start, FailsStart, ActAt, EndsAs, NoAct,
         Steps, Coherent, TakesLock, ProcInv, Kinded, ProcTyped, ProcessTypeOK, Holding,
         ProcessAlive, NoPid
    <3>5. AliveTracked'
      BY <1>7, <2>1, <2>2, <3>2 DEF Start, FailsStart, ActAt, EndsAs, NoAct, Steps,
         ProcessAlive, ProcInv, ProcTyped, ProcessTypeOK, Kinded, AliveTracked, Replacing,
         Holding, NoPid, Pids
    <3> QED BY <3>3, <3>4, <3>5 DEF ProcInv
  <2>3. CASE ProcessAlive(pidFile)
             /\ act' = [act EXCEPT ![a] = [NoAct EXCEPT !.kind = act[a].kind, !.pc = "ok"]]
                /\ lock' = 0 /\ UNCHANGED <<proc, pidFile>>
    <3> DEFINE c == [NoAct EXCEPT !.kind = act[a].kind, !.pc = "ok"]
    <3>1. c \in Request /\ act' = [act EXCEPT ![a] = c]
      BY <1>7, <2>1, <2>3 DEF Start, FailsStart, ActAt, EndsAs, NoAct, Steps, Request,
         Holding, NoPid, Pids, ProcInv, ProcTyped, ProcessTypeOK
    <3>2. /\ act' \in [Actions -> Request] /\ act'[a] = c
          /\ \A b \in Actions \ {a} : act'[b] = act[b]
      BY <3>1, RequestMoves
    <3>3. ProcTyped'
      BY <1>7, <2>3, <3>2 DEF Start, FailsStart, ActAt, EndsAs, NoAct, Steps, Fault,
         ProcInv, ProcTyped, ProcessTypeOK, Pids, NoPid, Request
    <3>4. LockHeld' /\ Kinded'
      BY <1>7, <2>1, <2>3, <3>2, LockAndKinds DEF Start, FailsStart, ActAt, EndsAs, NoAct,
         Steps, Coherent, TakesLock, ProcInv, Kinded, ProcTyped, ProcessTypeOK, Holding,
         ProcessAlive, NoPid
    <3>5. AliveTracked'
      BY <1>7, <2>1, <2>3, <3>2 DEF Start, FailsStart, ActAt, EndsAs, NoAct, Steps,
         ProcessAlive, ProcInv, ProcTyped, ProcessTypeOK, Kinded, AliveTracked, Replacing,
         Holding, NoPid, Pids
    <3> QED BY <3>3, <3>4, <3>5 DEF ProcInv
  <2>4. CASE ~ProcessAlive(pidFile) /\ launched < MaxLaunches
             /\ act' = [act EXCEPT ![a] = [act[a] EXCEPT !.pc = "file", !.pid = launched + 1]]
             /\ proc' = [proc EXCEPT ![launched + 1] = "alive"] /\ launched' = launched + 1
             /\ UNCHANGED <<pidFile, lock, faults>>
    <3> DEFINE c == [act[a] EXCEPT !.pc = "file", !.pid = launched + 1]
    <3>0. launched + 1 \in Pids
      BY <2>0, <2>4 DEF Pids
    <3>a. c \in Request
      BY <2>1, <3>0 DEF Request, Holding
    <3>b. c.pc = "file" /\ c.pid = launched + 1 /\ c.kind = act[a].kind
          /\ c.command = act[a].command
      BY <2>1 DEF Request
    <3>1. act' = [act EXCEPT ![a] = c]
      BY <2>4
    <3> HIDE DEF c
    <3>2. /\ act' \in [Actions -> Request] /\ act'[a] = c
          /\ \A b \in Actions \ {a} : act'[b] = act[b]
      BY <3>1, <3>a, RequestMoves
    <3>3. ProcTyped'
      BY <2>0, <1>7, <2>4, <3>2, <3>0 DEF ProcInv, ProcTyped, ProcessTypeOK, Pids, NoPid,
         Request
    <3>4. LockHeld' /\ Kinded'
      BY <2>0, <2>1, <2>4, <3>0, <3>b, <3>2, LockAndKinds
         DEF Coherent, TakesLock, ProcInv, Kinded, Holding
    <3>5. AliveTracked'
      BY <2>0, <2>1, <2>4, <3>0, <3>b, <3>2
         DEF ProcessAlive, ProcInv, ProcTyped, ProcessTypeOK, Kinded, AliveTracked, Replacing,
             Holding, NoPid, Pids
    <3> QED BY <3>3, <3>4, <3>5 DEF ProcInv
  <2>5. CASE ~act[a].command
    BY <2>0, <2>2, <2>5
  <2>6. CASE act[a].command /\ ProcessAlive(pidFile)
    BY <1>7, <2>3, <2>6 DEF Start, EndsAs, NoAct
  <2>7. CASE act[a].command /\ ~ProcessAlive(pidFile)
    <3>1. \/ /\ launched < MaxLaunches /\ launched' = launched + 1
             /\ proc' = [proc EXCEPT ![launched'] = "alive"]
             /\ act' = [act EXCEPT ![a] = [act[a] EXCEPT !.pc = "file", !.pid = launched']]
             /\ UNCHANGED <<pidFile, lock, faults>>
          \/ Fault /\ FailsStart(a) /\ UNCHANGED <<proc, launched>>
      BY <1>7, <2>7 DEF Start
    <3>2. CASE Fault /\ FailsStart(a) /\ UNCHANGED <<proc, launched>>
      BY <2>0, <2>2, <3>2, ProcessAssumption DEF Fault
    <3> QED BY <2>4, <2>7, <3>1, <3>2
  <2> QED BY <2>0, <2>5, <2>6, <2>7
<1>8. ASSUME NEW a \in Actions, WritePIDFile(a), UNCHANGED adminScope PROVE ProcInv'
  <2>1. act[a] \in Request /\ act[a].pc \in Holding /\ lock = a
        /\ \A b \in Actions \ {a} : act[b].pc \notin Holding
    BY <1>8 DEF WritePIDFile, ActAt, ProcInv, ProcTyped, LockHeld, Holding
  <2>a. act[a].pid \in Pids /\ UNCHANGED launched /\ faults' \in 0 .. MaxFaults
        /\ orphans' \subseteq Pids /\ orphans \subseteq orphans'
    BY <1>8 DEF WritePIDFile, FailsStart, ActAt, Fault, ProcInv, ProcTyped, ProcessTypeOK, Kinded
  <2>2. CASE FailsStart(a)
    <3> DEFINE c == [NoAct EXCEPT !.kind = act[a].kind,
        !.pc = IF act[a].kind = "restart" THEN "stoppedOnly" ELSE "error"]
    <3>1. c \in Request /\ act' = [act EXCEPT ![a] = c]
      BY <1>8, <2>1, <2>2 DEF WritePIDFile, FailsStart, ActAt, EndsAs, NoAct, Steps,
         Request, Holding, NoPid, Pids, ProcInv, ProcTyped, ProcessTypeOK
    <3>2. /\ act' \in [Actions -> Request] /\ act'[a] = c
          /\ \A b \in Actions \ {a} : act'[b] = act[b]
      BY <3>1, RequestMoves
    <3>3. ProcTyped'
      BY <1>8, <2>2, <3>2, <2>a DEF WritePIDFile, FailsStart, ActAt, EndsAs, NoAct,
         ProcInv, ProcTyped, ProcessTypeOK, NoPid, Request
    <3>4. LockHeld' /\ Kinded'
      BY <1>8, <2>1, <2>2, <3>2, LockAndKinds DEF WritePIDFile, FailsStart, ActAt, EndsAs,
         NoAct, Steps, Coherent, TakesLock, ProcInv, Kinded, ProcTyped, ProcessTypeOK,
         Holding, ProcessAlive, NoPid
    <3>5. AliveTracked'
      BY <1>8, <2>1, <2>2, <3>2 DEF WritePIDFile, FailsStart, ActAt, EndsAs, NoAct, Steps,
         ProcessAlive, ProcInv, ProcTyped, ProcessTypeOK, Kinded, AliveTracked, Replacing,
         Holding, NoPid, Pids
    <3> QED BY <3>3, <3>4, <3>5 DEF ProcInv
  <2>3. CASE pidFile' = act[a].pid
             /\ act' = [act EXCEPT ![a] = [NoAct EXCEPT !.kind = act[a].kind, !.pc = "ok"]]
                /\ lock' = 0 /\ UNCHANGED proc
    <3> DEFINE c == [NoAct EXCEPT !.kind = act[a].kind, !.pc = "ok"]
    <3>1. c \in Request /\ act' = [act EXCEPT ![a] = c]
      BY <1>8, <2>1, <2>3 DEF WritePIDFile, FailsStart, ActAt, EndsAs, NoAct, Steps,
         Request, Holding, NoPid, Pids, ProcInv, ProcTyped, ProcessTypeOK
    <3>2. /\ act' \in [Actions -> Request] /\ act'[a] = c
          /\ \A b \in Actions \ {a} : act'[b] = act[b]
      BY <3>1, RequestMoves
    <3>3. ProcTyped'
      BY <1>8, <2>3, <3>2, <2>a DEF ProcInv, ProcTyped, ProcessTypeOK, NoPid, Request
    <3>4. LockHeld' /\ Kinded'
      BY <1>8, <2>1, <2>3, <3>2, LockAndKinds DEF WritePIDFile, FailsStart, ActAt, EndsAs,
         NoAct, Steps, Coherent, TakesLock, ProcInv, Kinded, ProcTyped, ProcessTypeOK,
         Holding, ProcessAlive, NoPid
    <3>5. AliveTracked'
      BY <1>8, <2>1, <2>3, <3>2 DEF WritePIDFile, FailsStart, ActAt, EndsAs, NoAct, Steps,
         ProcessAlive, ProcInv, ProcTyped, ProcessTypeOK, Kinded, AliveTracked, Replacing,
         Holding, NoPid, Pids
    <3> QED BY <3>3, <3>4, <3>5 DEF ProcInv
  <2> QED BY <1>8, <2>2, <2>3 DEF WritePIDFile, FailsStart, ActAt, EndsAs, NoAct, Steps
<1>9. ASSUME NEW p \in Pids, Reaps(p) \/ Dies(p), UNCHANGED adminScope PROVE ProcInv'
  BY <1>9 DEF Reaps, Dies, Fault, ProcInv, ProcTyped, ProcessTypeOK, LockHeld, Kinded,
     AliveTracked, Replacing
<1> QED BY <1>1, <1>2, <1>3, <1>4, <1>5, <1>6, <1>7, <1>8, <1>9 DEF ProcessNext

-----------------------------------------------------------------------------
(* The sole-replica guard. *)

\* The restarts of a node that are at its agent, and whether one took it down.
Busy(n)   == {c \in Calls : call[c].pc \in {"sent", "done"} /\ call[c].on = n}
Downed(n) == \E c \in Busy(n) : call[c].pc = "done"

Marker == [set : BOOLEAN, inflight : Nat, maybeDown : BOOLEAN,
           phase : {"none", "returned", "settled"}, seen : BOOLEAN]
View   == [healthy : BOOLEAN, models : SUBSET ServedModels, recent : BOOLEAN]
Answer == [asked : BOOLEAN, old : BOOLEAN, ok : BOOLEAN, models : SUBSET ServedModels]
Agent  == [on : Nodes \cup {NoCall.on}, pc : {"idle", "sent", "done", "late"}]

SoleTyped ==
    /\ engine \in [Nodes -> {"up", "down"}] /\ resident \in [Nodes -> SUBSET ServedModels]
    /\ draining \in [Nodes -> BOOLEAN] /\ configured \subseteq Nodes
    /\ view \in [Nodes -> View] /\ poll \in [Nodes -> Answer]
    /\ straggler \in [Nodes -> Answer]
    /\ marker \in [Nodes -> Marker] /\ call \in [Calls -> Agent]
    /\ \A c \in Calls : call[c].pc # "idle" => call[c].on \in Nodes
    /\ deliberate \in BOOLEAN /\ actions \in 0 .. MaxActions
    /\ surprised \subseteq Nodes /\ mishap \in BOOLEAN

\* A marker counts the restarts of its node that are at the agent, and only one
\* without any is in a later phase.
Counts(n) ==
    /\ IF marker[n].set THEN marker[n].inflight = Cardinality(Busy(n)) ELSE Busy(n) = {}
    /\ marker[n].phase # "none" => marker[n].set /\ Busy(n) = {}
    /\ marker[n].inflight # 0 => marker[n].set

\* The runtime runs, and neither what the router believes of it nor an answer on its
\* way names a model it has lost.
Answered(n) == poll[n].asked /\ poll[n].ok
UpWith(n, models) == engine[n] = "up" /\ models \subseteq resident[n]
Fresh(n) == Answered(n) => UpWith(n, poll[n].models)
Seen(n) == view[n].recent => UpWith(n, view[n].models)
UpToDate(n) == Fresh(n) /\ Seen(n)

\* Once a restart may have taken the runtime down, the marker stays until a poll that
\* began after it says how the runtime came back, or until no answer from before is
\* believed any more.
Hidden(n) == marker[n].set /\ (marker[n].maybeDown \/ Downed(n))
MarkedSince(n) == ~Hidden(n) \/ Confirmed(n) => UpToDate(n)

\* An answer from after the node's last outage is true until the next.
Honest(n) == Answered(n) /\ ~poll[n].old /\ ~Downed(n) => UpWith(n, poll[n].models)

\* What a node has is never lost but to a restart; one that is configured with its
\* models never loses them, and the router knows at least what is there.
Lasts(n) ==
    /\ n \notin OllamaNodes => resident[n] = ServedModels
    /\ view[n].recent => resident[n] \subseteq view[n].models
    /\ Answered(n) => resident[n] \subseteq poll[n].models
    /\ straggler[n].asked /\ straggler[n].ok => resident[n] \subseteq straggler[n].models

\* What holds of each node; nothing is asked once somebody chose an outage, and of what
\* the router believes nothing while the node surprises it.
Guarded(n) == Counts(n) /\ (~deliberate => /\ Honest(n) /\ Lasts(n)
                                           /\ (n \notin surprised => MarkedSince(n)))
SoleInv == SoleTyped /\ (~mishap => surprised = {}) /\ \A n \in Nodes : Guarded(n)

Warm(n, m) == engine[n] = "up" /\ ~draining[n] /\ Busy(n) = {} /\ m \in resident[n]
WarmLeft == ~deliberate /\ ~mishap /\ Nodes # {} => \A m \in ServedModels : \E n \in Nodes : Warm(n, m)

-----------------------------------------------------------------------------
LEMMA BlankMarker ==
    /\ NoMarker \in Marker /\ ~NoMarker.set /\ NoMarker.inflight = 0 /\ NoMarker.phase = "none"
    /\ ~NoMarker.maybeDown /\ ~NoMarker.seen
  BY DEF NoMarker, Marker
LEMMA BlankPoll == NoPoll \in Answer /\ ~NoPoll.asked
  BY DEF NoPoll, Answer
LEMMA BlankCall == NoCall \in Agent /\ NoCall.pc = "idle"
  BY DEF NoCall, Agent

LEMMA SoleStarts == SoleInit => SoleInv
<1> SUFFICES ASSUME SoleInit PROVE SoleInv
  OBVIOUS
<1>1. SoleTyped /\ surprised = {}
  <2>1. /\ engine \in [Nodes -> {"up", "down"}] /\ resident \in [Nodes -> SUBSET ServedModels]
        /\ configured \subseteq Nodes /\ actions \in 0 .. MaxActions /\ surprised = {}
    BY SoleAssumption DEF SoleInit
  <2>4. draining \in [Nodes -> BOOLEAN] /\ deliberate \in BOOLEAN /\ mishap \in BOOLEAN
    BY Zenon DEF SoleInit
  <2>2. view \in [Nodes -> View]
    BY <2>1 DEF SoleInit, View
  <2>3. poll \in [Nodes -> Answer] /\ marker \in [Nodes -> Marker] /\ call \in [Calls -> Agent]
        /\ straggler = poll /\ \A c \in Calls : call[c].pc = "idle"
    BY BlankMarker, BlankPoll, BlankCall DEF SoleInit
  <2> QED BY <2>1, <2>2, <2>3, <2>4 DEF SoleTyped
<1>2. ASSUME NEW n \in Nodes PROVE Guarded(n)
  <2>1. Busy(n) = {} /\ marker[n] = NoMarker /\ poll[n] = NoPoll /\ engine[n] = "up"
        /\ straggler[n] = NoPoll /\ view[n].models = resident[n] /\ resident[n] = ServedModels
    BY BlankCall DEF SoleInit, Busy
  <2>2. Counts(n)
    BY <2>1, BlankMarker DEF Counts
  <2>3. MarkedSince(n) /\ Honest(n)
    BY <2>1, BlankMarker, BlankPoll DEF MarkedSince, Hidden, UpToDate, Fresh, Seen, Confirmed,
       Answered, Honest, UpWith
  <2>4. Lasts(n)
    BY <2>1, BlankPoll DEF Lasts, Answered
  <2> QED BY <2>2, <2>3, <2>4 DEF Guarded
<1> QED BY <1>1, <1>2 DEF SoleInv

\* A node nobody touches is as it was.
SameNode(n) ==
    /\ engine'[n] = engine[n] /\ resident'[n] = resident[n] /\ view'[n] = view[n]
    /\ poll'[n] = poll[n] /\ marker'[n] = marker[n] /\ straggler'[n] = straggler[n]
    /\ n \in surprised => n \in surprised'
SameCalls(n) == Busy(n)' = Busy(n) /\ (Downed(n)' <=> Downed(n))

LEMMA CallsStay ==
  ASSUME NEW n \in Nodes, UNCHANGED call
  PROVE  SameCalls(n)
  BY DEF SameCalls, Busy, Downed

LEMMA Untouched ==
  ASSUME NEW n \in Nodes, Guarded(n), SameNode(n), SameCalls(n), ~deliberate' => ~deliberate
  PROVE  Guarded(n)'
<1>1. Counts(n)'
  BY DEF Guarded, Counts, SameNode, SameCalls
<1>2. MarkedSince(n) => MarkedSince(n)'
  BY DEF MarkedSince, Hidden, UpToDate, Fresh, Seen, Answered, UpWith, Confirmed, SameNode, SameCalls
<1>3. Honest(n) => Honest(n)'
  BY DEF Honest, Answered, UpWith, SameNode, SameCalls
<1>4. Lasts(n) => Lasts(n)'
  BY DEF Lasts, Answered, SameNode
<1> QED BY <1>1, <1>2, <1>3, <1>4 DEF Guarded, SameNode

\* A marker may go when what the router believes of the node is right.
LEMMA MarkerGone ==
  ASSUME NEW n \in Nodes, Guarded(n), SameCalls(n), ~deliberate' => ~deliberate,
         engine'[n] = engine[n], resident'[n] = resident[n], view'[n] = view[n],
         poll'[n] = poll[n], straggler'[n] = straggler[n], surprised' = surprised,
         marker'[n] = NoMarker, Busy(n) = {},
         ~deliberate /\ n \notin surprised => UpToDate(n)
  PROVE  Guarded(n)'
<1>2. Counts(n)'
  BY BlankMarker DEF Guarded, Counts, SameCalls
<1>3. UpToDate(n) => MarkedSince(n)'
  BY BlankMarker DEF MarkedSince, Hidden, UpToDate, Fresh, Seen, Answered, UpWith, Confirmed
<1>4. Honest(n) => Honest(n)'
  BY DEF Honest, Answered, UpWith, SameCalls
<1>5. Lasts(n) => Lasts(n)'
  BY DEF Lasts, Answered
<1> QED BY <1>2, <1>3, <1>4, <1>5 DEF Guarded

LEMMA Dropped ==
  ASSUME NEW n \in Nodes, Guarded(n), SameCalls(n), ~deliberate' => ~deliberate,
         engine'[n] = engine[n], resident'[n] = resident[n], view'[n] = view[n],
         poll'[n] = poll[n], straggler'[n] = straggler[n], surprised' = surprised,
         marker'[n] = DropConfirmed(marker)[n]
  PROVE  Guarded(n)'
<1>1. CASE ~Confirmed(n)
  <2>1. SameNode(n)
    BY <1>1 DEF SameNode, DropConfirmed
  <2> QED BY <2>1, Untouched
<1>2. CASE Confirmed(n)
  <2>1. marker'[n] = NoMarker
    BY <1>2 DEF DropConfirmed
  <2>2. Busy(n) = {} /\ (~deliberate /\ n \notin surprised => UpToDate(n))
    BY <1>2 DEF Guarded, Counts, Confirmed, MarkedSince
  <2> QED BY <2>1, <2>2, MarkerGone
<1> QED BY <1>1, <1>2

\* How the set of restarts at an agent changes.
LEMMA OneCall ==
  ASSUME SoleTyped, NEW c \in Calls, NEW to \in Agent, to.pc # "idle" => to.on \in Nodes,
         call' = [call EXCEPT ![c] = to]
  PROVE  /\ call' \in [Calls -> Agent] /\ \A k \in Calls :
            call'[k].pc # "idle" => call'[k].on \in Nodes
         /\ \A n \in Nodes : Busy(n)' = IF to.pc \in {"sent", "done"} /\ to.on = n
                                        THEN Busy(n) \cup {c} ELSE Busy(n) \ {c}
         /\ call'[c] = to /\ \A k \in Calls \ {c} : call'[k] = call[k]
  BY DEF SoleTyped, Busy

LEMMA BusyCount ==
  ASSUME NEW n \in Nodes
  PROVE  IsFiniteSet(Busy(n)) /\ Cardinality(Busy(n)) \in Nat
         /\ Cardinality(Busy(n)) <= Cardinality(Calls)
         /\ (Cardinality(Busy(n)) = 0 <=> Busy(n) = {})
<1>1. Busy(n) \subseteq Calls
  BY DEF Busy
<1> QED BY <1>1, SoleAssumption, FS_Subset, FS_CardinalityType, FS_EmptySet

-----------------------------------------------------------------------------
(* The check. *)

\* A node without a marker, or whose marker a poll has ended, is as the router sees it.
LEMMA NotRestarting ==
  ASSUME SoleInv, ~deliberate, NEW p \in Nodes, p \notin Restarting
  PROVE  Busy(p) = {} /\ (p \notin surprised => UpToDate(p))
<1>1. Guarded(p) /\ (~marker[p].set \/ Confirmed(p))
  BY DEF SoleInv, Restarting
<1> QED BY <1>1 DEF Guarded, MarkedSince, Counts, Hidden, Confirmed

\* What an unforced check has found: for each model of the target a peer that serves it,
\* or one that surprises the router.
Ready(p, m, n) == engine[p] = "up" /\ ~draining[p] /\ Busy(p) = {}
                  /\ (m \in resident[p] \/ (n \in OllamaNodes /\ p \in OllamaNodes))
LEMMA PeerReady ==
  ASSUME SoleInv, NEW n \in Nodes, NEW force, NEW acked, CheckSoleReplica(n, force, acked),
         ~deliberate', ~draining[n], NEW m \in view[n].models
  PROVE  \E p \in Nodes \ {n} : Ready(p, m, n) \/ Mistaken(p, n, m)
<1>1. ~deliberate /\ Impact(n).models = {} /\ ~Impact(n).unknown
  BY DEF CheckSoleReplica
<1>3. \E p \in Nodes \ (Restarting \cup {n}) : JudgePeer(p, n, m) \in {"warm", "cold"}
  BY <1>1 DEF Impact
<1>4. PICK p \in Nodes \ (Restarting \cup {n}) : JudgePeer(p, n, m) \in {"warm", "cold"}
  BY <1>3
<1>5. CASE p \in surprised
  BY <1>4, <1>5 DEF Mistaken
<1>6. CASE p \notin surprised
  <2>1. ~draining[p] /\ (m \in view[p].models \/ (n \in OllamaNodes /\ p \in OllamaNodes))
        /\ view[p].recent
    BY <1>4 DEF JudgePeer
  <2>2. UpToDate(p) /\ Busy(p) = {}
    BY <1>1, <1>4, <1>6, NotRestarting
  <2>3. Ready(p, m, n)
    BY <2>1, <2>2 DEF Ready, UpToDate, Seen, UpWith
  <2> QED BY <1>4, <2>3
<1> QED BY <1>5, <1>6

\* Of a target that the router has not heard of lately nothing is known.
LEMMA UnheardUnknown ==
  ASSUME NEW n \in Nodes, NEW force, NEW acked, CheckSoleReplica(n, force, acked), ~deliberate',
         ~draining[n]
  PROVE  view[n].recent
  BY DEF CheckSoleReplica, Impact

-----------------------------------------------------------------------------
(* The steps. *)

LEMMA DrainStep ==
  ASSUME SoleInv, NEW n \in Nodes, NEW force \in BOOLEAN, NEW acked \in SUBSET ServedModels,
         HandleDrainNode(n, force, acked)
  PROVE  SoleInv'
<1>1. UNCHANGED <<engine, resident, poll, view, call, configured, straggler, surprised, mishap>>
      /\ marker' = DropConfirmed(marker)
      /\ draining' = [draining EXCEPT ![n] = TRUE] /\ actions < MaxActions
         /\ actions' = actions + 1
      /\ (~deliberate' => ~deliberate) /\ deliberate' \in BOOLEAN
  BY DEF HandleDrainNode, Acts, CheckSoleReplica, world, SoleInv, SoleTyped
<1>2. marker' \in [Nodes -> Marker]
  BY <1>1, BlankMarker DEF DropConfirmed, SoleInv, SoleTyped
<1>3. draining' \in [Nodes -> BOOLEAN]
  BY <1>1, Zenon DEF SoleInv, SoleTyped
<1>4. SoleTyped'
  BY <1>1, <1>2, <1>3, SoleAssumption DEF SoleInv, SoleTyped
<1>5. ASSUME NEW k \in Nodes PROVE Guarded(k)'
  BY <1>1, CallsStay, Dropped DEF SoleInv
<1> QED BY <1>1, <1>4, <1>5 DEF SoleInv

LEMMA RestartStep ==
  ASSUME SoleInv, NEW n \in Nodes, NEW c \in Calls, NEW force \in BOOLEAN, NEW ack \in BOOLEAN,
         NEW acked \in SUBSET ServedModels, HandleRestart(c, n, force, acked, ack)
  PROVE  SoleInv'
<1> DEFINE mk == DropConfirmed(marker)
           to == [on |-> n, pc |-> "sent"]
           new == [set |-> TRUE, inflight |-> mk[n].inflight + 1, maybeDown |-> mk[n].maybeDown,
                   phase |-> "none", seen |-> FALSE]
<1>1. UNCHANGED <<engine, resident, poll, view, draining, configured, straggler, surprised, mishap>>
      /\ marker' = [mk EXCEPT ![n] = new] /\ call' = [call EXCEPT ![c] = to]
      /\ actions < MaxActions /\ actions' = actions + 1 /\ call[c].pc = "idle"
      /\ (~deliberate' => ~deliberate) /\ deliberate' \in BOOLEAN
  BY DEF HandleRestart, Acts, CheckSoleReplica, world, SoleInv, SoleTyped
<1>2. to \in Agent /\ to.pc = "sent" /\ to.on = n
  BY DEF Agent
<1>3. mk \in [Nodes -> Marker] /\ \A k \in Nodes :
      mk[k] = IF Confirmed(k) THEN NoMarker ELSE marker[k]
  BY BlankMarker DEF DropConfirmed, SoleInv, SoleTyped
<1>4. new \in Marker /\ new.set /\ new.inflight = mk[n].inflight + 1
      /\ new.maybeDown = mk[n].maybeDown /\ new.phase = "none" /\ ~new.seen
  BY <1>3 DEF Marker
<1> HIDE DEF mk, to, new
<1>5. marker' \in [Nodes -> Marker] /\ marker'[n] = new
      /\ \A k \in Nodes \ {n} : marker'[k] = mk[k]
  BY <1>1, <1>3, <1>4
<1>6. /\ call' \in [Calls -> Agent] /\ \A k \in Calls :
         call'[k].pc # "idle" => call'[k].on \in Nodes
      /\ \A k \in Nodes : Busy(k)' = IF k = n THEN Busy(k) \cup {c} ELSE Busy(k) \ {c}
      /\ call'[c] = to /\ \A k \in Calls \ {c} : call'[k] = call[k]
  BY <1>1, <1>2, OneCall DEF SoleInv
<1>7. SoleTyped'
  BY <1>1, <1>5, <1>6, SoleAssumption DEF SoleInv, SoleTyped
<1>8. c \notin UNION {Busy(k) : k \in Nodes}
  BY <1>1 DEF Busy
<1>9. ASSUME NEW k \in Nodes \ {n} PROVE Guarded(k)'
  <2>1. SameCalls(k)
    BY <1>6, <1>8, <1>9 DEF SameCalls, Downed, Busy
  <2>2. marker'[k] = DropConfirmed(marker)[k]
    BY <1>5, <1>9 DEF mk
  <2> QED BY <1>1, <2>1, <2>2, Dropped DEF SoleInv
<1>10. Guarded(n)'
  <2>1. Guarded(n) /\ Busy(n)' = Busy(n) \cup {c} /\ c \notin Busy(n)
        /\ (Downed(n)' <=> Downed(n))
    BY <1>2, <1>6, <1>8 DEF SoleInv, Downed, Busy
  <2>2. Cardinality(Busy(n)') = Cardinality(Busy(n)) + 1
    BY <2>1, BusyCount, FS_AddElement
  <2>3. Counts(n)'
    BY <1>3, <1>4, <1>5, <2>1, <2>2, BusyCount, BlankMarker
       DEF Guarded, Counts, Confirmed, SoleInv, SoleTyped, Marker
  <2>4. MarkedSince(n) => MarkedSince(n)'
    BY <1>1, <1>3, <1>4, <1>5, <2>1, BlankMarker
       DEF MarkedSince, Hidden, UpToDate, Fresh, Seen, Answered, UpWith, Confirmed
  <2>5. (Honest(n) => Honest(n)') /\ (Lasts(n) => Lasts(n)')
    BY <1>1, <2>1 DEF Honest, Lasts, Answered, UpWith
  <2> QED BY <1>1, <2>1, <2>3, <2>4, <2>5 DEF Guarded
<1> QED BY <1>1, <1>7, <1>9, <1>10 DEF SoleInv

\* Steps that touch one node and no restart.
LEMMA OneNode ==
  ASSUME SoleInv, NEW n \in Nodes, SoleTyped', UNCHANGED call, ~deliberate' => ~deliberate,
         \A k \in Nodes \ {n} : SameNode(k), Guarded(n)', ~mishap' => surprised' = {}
  PROVE  SoleInv'
<1>1. ASSUME NEW k \in Nodes \ {n} PROVE Guarded(k)'
  BY CallsStay, Untouched DEF SoleInv
<1> QED BY <1>1 DEF SoleInv

LEMMA UndrainStep ==
  ASSUME SoleInv, NEW n \in Nodes, HandleUndrainNode(n)
  PROVE  SoleInv'
<1>1. UNCHANGED <<engine, resident, poll, view, marker, call, configured, deliberate, actions,
                  straggler, surprised, mishap>>
      /\ draining' = [draining EXCEPT ![n] = FALSE]
  BY DEF HandleUndrainNode, world
<1>2. draining' \in [Nodes -> BOOLEAN]
  BY <1>1, Zenon DEF SoleInv, SoleTyped
<1>3. SoleTyped'
  BY <1>1, <1>2 DEF SoleInv, SoleTyped
<1>4. ASSUME NEW k \in Nodes PROVE Guarded(k)'
  BY <1>1, CallsStay, Untouched DEF SoleInv, SameNode
<1> QED BY <1>1, <1>3, <1>4 DEF SoleInv

LEMMA StopStep ==
  ASSUME SoleInv, NEW n \in Nodes, NEW ack \in BOOLEAN, HandleStop(n, ack)
  PROVE  SoleInv'
<1>1. UNCHANGED <<draining, view, poll, marker, call, configured, straggler, surprised, mishap>>
      /\ deliberate' = TRUE
      /\ engine' = [engine EXCEPT ![n] = "down"] /\ resident' = [resident EXCEPT ![n] = {}]
      /\ actions < MaxActions /\ actions' = actions + 1
  BY DEF HandleStop, Acts, unseen
<1>2. SoleTyped'
  BY <1>1, SoleAssumption DEF SoleInv, SoleTyped
<1>3. ASSUME NEW k \in Nodes PROVE Guarded(k)'
  <2>1. Counts(k)'
    BY <1>1, CallsStay DEF SoleInv, Guarded, Counts, SameCalls
  <2> QED BY <1>1, <2>1 DEF Guarded
<1> QED BY <1>1, <1>2, <1>3 DEF SoleInv

LEMMA ControlStep ==
  ASSUME SoleInv, NEW n \in Nodes, HandleNodeControl(n)
  PROVE  SoleInv'
<1>1. UNCHANGED <<engine, resident, poll, view, draining, marker, call, deliberate, straggler,
                  surprised, mishap>>
      /\ configured' \subseteq Nodes /\ actions < MaxActions /\ actions' = actions + 1
  BY DEF HandleNodeControl, Acts, world, SoleInv, SoleTyped
<1>2. SoleTyped'
  BY <1>1, SoleAssumption DEF SoleInv, SoleTyped
<1>3. ASSUME NEW k \in Nodes PROVE Guarded(k)'
  BY <1>1, CallsStay, Untouched DEF SoleInv, SameNode
<1> QED BY <1>1, <1>2, <1>3 DEF SoleInv

LEMMA AgentStep ==
  ASSUME SoleInv, NEW c \in Calls, NEW n, n = call[c].on, AgentRestarts(c)
  PROVE  SoleInv'
<1> DEFINE to == [call[c] EXCEPT !.pc = "done"]
<1>1. UNCHANGED <<resident, draining, view, poll, marker, configured, deliberate, actions,
                  straggler, surprised, mishap>>
      /\ call' = [call EXCEPT ![c] = to] /\ engine' = [engine EXCEPT ![n] = "down"]
      /\ call[c].pc = "sent" /\ n \in Nodes
  BY DEF AgentRestarts, SoleInv, SoleTyped, unseen
<1>2. to \in Agent /\ to.pc = "done" /\ to.on = n
  BY DEF SoleInv, SoleTyped, Agent
<1> HIDE DEF to
<1>3. /\ call' \in [Calls -> Agent] /\ \A k \in Calls :
         call'[k].pc # "idle" => call'[k].on \in Nodes
      /\ \A k \in Nodes : Busy(k)' = IF k = n THEN Busy(k) \cup {c} ELSE Busy(k) \ {c}
      /\ call'[c] = to /\ \A k \in Calls \ {c} : call'[k] = call[k]
  BY <1>1, <1>2, OneCall DEF SoleInv
<1>4. SoleTyped'
  BY <1>1, <1>3 DEF SoleInv, SoleTyped
<1>5. c \in Busy(n) /\ \A k \in Nodes \ {n} : c \notin Busy(k)
  BY <1>1 DEF Busy
<1>6. ASSUME NEW k \in Nodes \ {n} PROVE Guarded(k)'
  <2>1. SameCalls(k)
    BY <1>3, <1>5 DEF SameCalls, Downed, Busy
  <2>2. SameNode(k)
    BY <1>1 DEF SameNode, SoleInv, SoleTyped
  <2> QED BY <1>1, <2>1, <2>2, Untouched DEF SoleInv
<1>7. Guarded(n)'
  <2>c. Guarded(n)
    BY <1>1 DEF SoleInv
  <2>d. Busy(n)' = Busy(n) \cup {c}
    BY <1>1, <1>3
  <2>a. Guarded(n) /\ Busy(n)' = Busy(n) /\ Busy(n) # {}
    BY <1>5, <2>c, <2>d
  <2>b. Downed(n)'
    BY <1>2, <1>3, <1>5, <2>a DEF Downed
  <2>1. Guarded(n) /\ Busy(n)' = Busy(n) /\ Downed(n)' /\ Busy(n) # {}
    BY <2>a, <2>b
  <2>2. Counts(n)'
    BY <1>1, <2>1 DEF Guarded, Counts
  <2>3. marker[n].set /\ marker[n].phase = "none"
    BY <2>1 DEF Guarded, Counts
  <2>4. MarkedSince(n)'
    BY <1>1, <2>1, <2>3 DEF MarkedSince, Hidden, Confirmed
  <2>5. Honest(n)' /\ (Lasts(n) => Lasts(n)')
    BY <1>1, <2>1 DEF Honest, Lasts, Answered
  <2> QED BY <1>1, <2>1, <2>2, <2>4, <2>5 DEF Guarded
<1> QED BY <1>1, <1>4, <1>6, <1>7 DEF SoleInv

LEMMA FinishStep ==
  ASSUME SoleInv, NEW c \in Calls, NEW refused \in BOOLEAN, NEW n, n = call[c].on,
         FinishRestart(c, refused)
  PROVE  SoleInv'
<1> DEFINE mk == marker[n]
           after == IF mk.inflight > 0 THEN mk.inflight - 1 ELSE 0
           maybe == mk.maybeDown \/ ~refused
           new == [mk EXCEPT !.inflight = after, !.maybeDown = maybe,
                             !.phase = IF after = 0 THEN "returned" ELSE mk.phase]
           to == Ended(c, refused)
<1>1. /\ UNCHANGED <<engine, resident, view, draining, configured, deliberate, actions, straggler,
                     surprised, mishap>>
      /\ call' = [call EXCEPT ![c] = to] /\ call[c].pc \in {"sent", "done"} /\ n \in Nodes
      /\ refused => call[c].pc = "sent"
      /\ poll' = [poll EXCEPT ![n].old = poll[n].asked]
      /\ marker' = IF ~mk.set THEN marker
                   ELSE IF after = 0 /\ ~maybe THEN [marker EXCEPT ![n] = NoMarker]
                   ELSE [marker EXCEPT ![n] = new]
  BY DEF FinishRestart, SoleInv, SoleTyped, unseen
<1>2. mk \in Marker /\ poll[n] \in Answer
  BY <1>1 DEF SoleInv, SoleTyped
<1>3. after \in Nat /\ maybe \in BOOLEAN /\ new \in Marker
      /\ new.set = mk.set /\ new.inflight = after /\ new.maybeDown = maybe /\ new.seen = mk.seen
      /\ new.phase = IF after = 0 THEN "returned" ELSE mk.phase
  <2>1. mk.inflight \in Nat /\ mk.maybeDown \in BOOLEAN /\ mk.set \in BOOLEAN
        /\ mk.seen \in BOOLEAN
        /\ mk.phase \in {"none", "returned", "settled"}
        /\ mk = [set |-> mk.set, inflight |-> mk.inflight, maybeDown |-> mk.maybeDown,
                 phase |-> mk.phase, seen |-> mk.seen]
    BY <1>2 DEF Marker
  <2>2. after \in Nat
    BY <2>1
  <2>3. maybe \in BOOLEAN
    BY <2>1, Zenon
  <2> HIDE DEF after, maybe, mk
  <2> QED BY <2>1, <2>2, <2>3 DEF Marker
<1>4. /\ call' \in [Calls -> Agent] /\ \A k \in Calls :
         call'[k].pc # "idle" => call'[k].on \in Nodes
      /\ \A k \in Nodes : Busy(k)' = Busy(k) \ {c}
      /\ call'[c] = to /\ \A k \in Calls \ {c} : call'[k] = call[k]
  <2>1. to \in Agent /\ to.pc \in {"idle", "late"} /\ (to.pc # "idle" => to.on \in Nodes)
    BY <1>1, BlankCall DEF Ended, SoleInv, SoleTyped, Agent
  <2> HIDE DEF to
  <2> QED BY <1>1, <2>1, OneCall DEF SoleInv
<1>5. c \in Busy(n) /\ \A k \in Nodes \ {n} : c \notin Busy(k)
  BY <1>1 DEF Busy
<1>6. Guarded(n)
  BY <1>1 DEF SoleInv
<1>7. mk.set /\ mk.inflight = Cardinality(Busy(n)) /\ mk.phase = "none"
  BY <1>5, <1>6 DEF Guarded, Counts
<1>8. after = Cardinality(Busy(n)') /\ (after = 0 <=> Busy(n)' = {})
  <2>1. mk.inflight \in Nat /\ mk.inflight # 0 /\ Cardinality(Busy(n)') = mk.inflight - 1
    BY <1>1, <1>4, <1>5, <1>7, BusyCount, FS_RemoveElement
  <2>2. after = mk.inflight - 1
    BY <2>1
  <2>3. IsFiniteSet(Busy(n)')
    BY <1>1, <1>4, BusyCount, FS_RemoveElement
  <2>4. Cardinality(Busy(n)') = 0 <=> Busy(n)' = {}
    BY <2>3, FS_EmptySet
  <2> QED BY <2>1, <2>2, <2>4
<1> HIDE DEF mk, after, maybe, new, to
<1>9. marker' = [marker EXCEPT ![n] = IF after = 0 /\ ~maybe THEN NoMarker ELSE new]
  BY <1>1, <1>7
<1>10. marker' \in [Nodes -> Marker] /\ poll' \in [Nodes -> Answer]
  <2>1. [poll[n] EXCEPT !.old = poll[n].asked] \in Answer
    BY <1>2 DEF Answer
  <2>2. (IF after = 0 /\ ~maybe THEN NoMarker ELSE new) \in Marker
    BY <1>3, BlankMarker
  <2> QED BY <1>1, <1>9, <2>1, <2>2 DEF SoleInv, SoleTyped
<1>11. SoleTyped'
  BY <1>1, <1>4, <1>10 DEF SoleInv, SoleTyped
<1>12. ASSUME NEW k \in Nodes \ {n} PROVE Guarded(k)'
  <2>1. SameCalls(k)
    BY <1>4, <1>5 DEF SameCalls, Downed, Busy
  <2>2. SameNode(k)
    BY <1>1, <1>9 DEF SameNode, SoleInv, SoleTyped
  <2> QED BY <1>1, <2>1, <2>2, Untouched DEF SoleInv
<1>13. marker'[n] = (IF after = 0 /\ ~maybe THEN NoMarker ELSE new)
       /\ poll'[n] = [poll[n] EXCEPT !.old = poll[n].asked]
  BY <1>1, <1>9 DEF SoleInv, SoleTyped
<1>14. Counts(n)'
  BY <1>3, <1>7, <1>8, <1>13, BlankMarker DEF Counts
<1>15. Fresh(n) => Fresh(n)'
  BY <1>1, <1>2, <1>13 DEF Fresh, Answered, UpWith, Answer
<1>16. UpToDate(n) => UpToDate(n)'
  BY <1>1, <1>15 DEF UpToDate, Seen, UpWith
<1>17. Honest(n)'
  BY <1>2, <1>13 DEF Answer, Honest, Answered
<1>18. ~deliberate /\ n \notin surprised => MarkedSince(n)'
  <2> HAVE ~deliberate /\ n \notin surprised
  <2>1. ~maybe => refused /\ ~mk.maybeDown /\ (Downed(n) <=> Downed(n)')
    BY <1>1, <1>4, <1>5 DEF maybe, Downed
  <2>2. ~Hidden(n)' => ~maybe /\ ~Downed(n)
    <3>1. CASE after = 0 /\ ~maybe
      BY <1>8, <2>1, <3>1 DEF Downed
    <3>2. CASE ~(after = 0 /\ ~maybe)
      BY <1>3, <1>7, <1>13, <2>1, <3>2 DEF Hidden
    <3> QED BY <3>1, <3>2
  <2>3. ~Hidden(n)' => UpToDate(n)
    BY <1>6, <2>1, <2>2 DEF Guarded, MarkedSince, Hidden, mk
  <2>4. marker'[n].phase # "settled"
    BY <1>3, <1>7, <1>13, BlankMarker
  <2> QED BY <1>16, <2>3, <2>4 DEF MarkedSince, Confirmed
<1>19. Lasts(n) => Lasts(n)'
  BY <1>1, <1>2, <1>13 DEF Lasts, Answered, Answer
<1> QED BY <1>1, <1>6, <1>11, <1>12, <1>14, <1>17, <1>18, <1>19 DEF SoleInv, Guarded

LEMMA SettleStep ==
  ASSUME SoleInv, NEW n \in Nodes, Settles(n)
  PROVE  SoleInv'
<1> DEFINE new == [marker[n] EXCEPT !.phase = "settled", !.seen = FALSE]
<1>1. UNCHANGED <<engine, resident, poll, view, draining, call, configured, deliberate, actions,
                  straggler, surprised, mishap>>
      /\ marker' = [marker EXCEPT ![n] = new]
      /\ marker[n].set /\ marker[n].phase = "returned"
  BY DEF Settles, world
<1>2. new \in Marker /\ new.set = marker[n].set /\ new.inflight = marker[n].inflight
      /\ new.maybeDown = marker[n].maybeDown /\ new.phase = "settled" /\ ~new.seen
  BY DEF SoleInv, SoleTyped, Marker
<1> HIDE DEF new
<1>3. marker' \in [Nodes -> Marker] /\ marker'[n] = new /\ \A k \in Nodes \ {n} : SameNode(k)
  BY <1>1, <1>2 DEF SoleInv, SoleTyped, SameNode
<1>4. SoleTyped'
  BY <1>1, <1>3 DEF SoleInv, SoleTyped
<1>5. SameCalls(n) /\ Guarded(n)
  BY <1>1, CallsStay DEF SoleInv
<1>6. Counts(n)'
  BY <1>1, <1>2, <1>3, <1>5 DEF Guarded, Counts, SameCalls
<1>7. MarkedSince(n) => MarkedSince(n)'
  BY <1>1, <1>2, <1>3, <1>5 DEF MarkedSince, Hidden, UpToDate, Fresh, Seen, Answered, UpWith,
     Confirmed, SameCalls
<1>8. (Lasts(n) => Lasts(n)') /\ (Honest(n) => Honest(n)')
  BY <1>1, <1>5 DEF Lasts, Honest, Answered, UpWith, SameCalls
<1> QED BY <1>1, <1>3, <1>4, <1>5, <1>6, <1>7, <1>8, OneNode DEF Guarded, SoleInv

LEMMA ExpireStep ==
  ASSUME SoleInv, NEW n \in Nodes, Expires(n)
  PROVE  SoleInv'
<1>1. UNCHANGED <<engine, resident, poll, view, draining, call, configured, deliberate, actions,
                  straggler, surprised, mishap>>
      /\ marker' = [marker EXCEPT ![n] = NoMarker] /\ marker[n].phase = "settled"
      /\ ~view[n].recent /\ ~(poll[n].asked /\ poll[n].old)
  BY DEF Expires, world
<1>2. marker' \in [Nodes -> Marker] /\ marker'[n] = NoMarker
      /\ \A k \in Nodes \ {n} : SameNode(k)
  BY <1>1, BlankMarker DEF SoleInv, SoleTyped, SameNode
<1>3. SoleTyped'
  BY <1>1, <1>2 DEF SoleInv, SoleTyped
<1>4. SameCalls(n) /\ Guarded(n)
  BY <1>1, CallsStay DEF SoleInv
<1>5. Busy(n) = {} /\ ~Downed(n)
  BY <1>1, <1>4 DEF Guarded, Counts, Downed
<1>6. Honest(n) => UpToDate(n)
  BY <1>1, <1>5 DEF Honest, UpToDate, Fresh, Seen, Answered
<1>7. Guarded(n)'
  BY <1>1, <1>2, <1>4, <1>5, <1>6, MarkerGone DEF Guarded
<1> QED BY <1>1, <1>2, <1>3, <1>7, OneNode DEF SoleInv

LEMMA ReturnStep ==
  ASSUME SoleInv, NEW n \in Nodes, EngineReturns(n)
  PROVE  SoleInv'
<1>1. UNCHANGED <<poll, view, marker, draining, call, configured, deliberate, actions, straggler,
                  surprised, mishap>>
      /\ engine[n] = "down" /\ engine' = [engine EXCEPT ![n] = "up"]
      /\ resident' = [resident EXCEPT ![n] = IF n \in OllamaNodes THEN {} ELSE resident[n]]
  BY DEF EngineReturns, unseen
<1>2. SoleTyped' /\ \A k \in Nodes \ {n} : SameNode(k)
  BY <1>1 DEF SoleInv, SoleTyped, SameNode
<1>3. SameCalls(n) /\ Guarded(n)
  BY <1>1, CallsStay DEF SoleInv
<1>4. Counts(n)'
  BY <1>1, <1>3 DEF Guarded, Counts, SameCalls
<1>5. MarkedSince(n) => MarkedSince(n)'
  BY <1>1, <1>3 DEF MarkedSince, Hidden, UpToDate, Fresh, Seen, Answered, UpWith, Confirmed,
     SameCalls
<1>6. Honest(n) => Honest(n)'
  BY <1>1, <1>3 DEF Honest, Answered, UpWith, SameCalls
<1>7. Lasts(n) => Lasts(n)'
  BY <1>1 DEF Lasts, Answered, SoleInv, SoleTyped
<1> QED BY <1>1, <1>2, <1>3, <1>4, <1>5, <1>6, <1>7, OneNode DEF Guarded, SoleInv

\* A runtime that goes down with no call under way surprises the router.
LEMMA DownGuarded ==
  ASSUME SoleInv, NEW n \in Nodes, GoesDown(n), \A k \in Nodes : SameCalls(k)
  PROVE  /\ \A k \in Nodes : Guarded(k)'
         /\ engine' \in [Nodes -> {"up", "down"}] /\ poll' \in [Nodes -> Answer]
<1> DEFINE new == [poll[n] EXCEPT !.old = poll[n].asked]
<1>1. UNCHANGED <<resident, draining, view, straggler, marker, configured, deliberate>>
      /\ engine' = [engine EXCEPT ![n] = "down"] /\ poll' = [poll EXCEPT ![n] = new]
      /\ surprised' = surprised \cup {n}
  BY DEF GoesDown
<1>a. poll[n] \in Answer
  BY DEF SoleInv, SoleTyped
<1>2. new \in Answer /\ new.old = new.asked /\ new.asked = poll[n].asked
      /\ new.ok = poll[n].ok /\ new.models = poll[n].models
  BY <1>a DEF Answer
<1> HIDE DEF new
<1>3. engine' \in [Nodes -> {"up", "down"}] /\ poll' \in [Nodes -> Answer] /\ poll'[n] = new
      /\ \A k \in Nodes \ {n} : SameNode(k)
  BY <1>1, <1>2 DEF SoleInv, SoleTyped, SameNode
<1>4. Guarded(n)
  BY DEF SoleInv
<1>5. Counts(n)'
  BY <1>1, <1>4 DEF Guarded, Counts, SameCalls
<1>6. Honest(n)' /\ (Lasts(n) => Lasts(n)')
  BY <1>1, <1>2, <1>3 DEF Honest, Lasts, Answered
<1>7. Guarded(n)'
  BY <1>1, <1>4, <1>5, <1>6 DEF Guarded
<1>8. ASSUME NEW k \in Nodes \ {n} PROVE Guarded(k)'
  BY <1>1, <1>3, Untouched DEF SoleInv
<1> QED BY <1>3, <1>7, <1>8

LEMMA DyingStep ==
  ASSUME SoleInv, NEW n \in Nodes, Dying(n)
  PROVE  SoleInv'
<1>1. GoesDown(n) /\ UNCHANGED call /\ actions < MaxActions /\ actions' = actions + 1
  BY DEF Dying, Acts
<1>2. /\ \A k \in Nodes : Guarded(k)'
      /\ engine' \in [Nodes -> {"up", "down"}] /\ poll' \in [Nodes -> Answer]
  BY <1>1, CallsStay, DownGuarded
<1>3. mishap' /\ SoleTyped'
  BY <1>1, <1>2, SoleAssumption DEF SoleInv, SoleTyped, GoesDown
<1> QED BY <1>2, <1>3 DEF SoleInv

\* The late agent's call is none of its node's restarts any more.
LEMMA LateStep ==
  ASSUME SoleInv, NEW c \in Calls, AgentIsLate(c)
  PROVE  SoleInv'
<1>1. call[c].pc = "late" /\ call' = [call EXCEPT ![c] = NoCall] /\ UNCHANGED actions
      /\ call[c].on \in Nodes
  BY DEF AgentIsLate, SoleInv, SoleTyped
<1>2. /\ call' \in [Calls -> Agent] /\ \A k \in Calls :
         call'[k].pc # "idle" => call'[k].on \in Nodes
      /\ \A k \in Nodes : Busy(k)' = Busy(k) \ {c}
      /\ call'[c] = NoCall /\ \A k \in Calls \ {c} : call'[k] = call[k]
  BY <1>1, BlankCall, OneCall DEF SoleInv
<1>3. ASSUME NEW k \in Nodes PROVE SameCalls(k)
  BY <1>1, <1>2 DEF SameCalls, Downed, Busy
<1>4. CASE GoesDown(call[c].on)
  <2>1. /\ \A k \in Nodes : Guarded(k)'
        /\ engine' \in [Nodes -> {"up", "down"}] /\ poll' \in [Nodes -> Answer]
    BY <1>1, <1>3, <1>4, DownGuarded
  <2>2. mishap' /\ SoleTyped'
    BY <1>1, <1>2, <1>4, <2>1 DEF SoleInv, SoleTyped, GoesDown
  <2> QED BY <2>1, <2>2 DEF SoleInv
<1>5. CASE UNCHANGED <<world, draining, marker, configured, deliberate>>
  <2>1. ASSUME NEW k \in Nodes PROVE Guarded(k)'
    BY <1>3, <1>5, Untouched DEF SoleInv, SameNode, world
  <2>2. SoleTyped'
    BY <1>1, <1>2, <1>5 DEF SoleInv, SoleTyped, world
  <2> QED BY <1>5, <2>1, <2>2 DEF SoleInv, world
<1> QED BY <1>4, <1>5 DEF AgentIsLate

\* A marbor that starts again knows nothing, and believes nothing.
LEMMA BootStep ==
  ASSUME SoleInv, MarborRestarts
  PROVE  SoleInv'
<1> DEFINE blank == [healthy |-> FALSE, models |-> {}, recent |-> FALSE]
<1>1. /\ marker' = [n \in Nodes |-> NoMarker] /\ view' = [n \in Nodes |-> blank]
      /\ poll' = [n \in Nodes |-> NoPoll] /\ straggler' = [n \in Nodes |-> NoPoll]
      /\ UNCHANGED <<engine, resident, draining, configured, deliberate, surprised, mishap>>
      /\ actions < MaxActions /\ actions' = actions + 1
      /\ call' = [c \in Calls |-> IF call[c].pc \in {"sent", "late"}
                                 THEN [call[c] EXCEPT !.pc = "late"] ELSE NoCall]
  BY DEF MarborRestarts, Acts, unseen
<1>2. blank \in View /\ blank.models = {} /\ ~blank.recent
  BY DEF View
<1> HIDE DEF blank
<1>3. ASSUME NEW c \in Calls
      PROVE  /\ call'[c] \in Agent /\ call'[c].pc \in {"idle", "late"}
             /\ call'[c].pc # "idle" => call'[c].on \in Nodes
  <2>1. CASE call[c].pc \in {"sent", "late"}
    BY <1>1, <2>1 DEF SoleInv, SoleTyped, Agent
  <2>2. CASE call[c].pc \notin {"sent", "late"}
    BY <1>1, <2>2, BlankCall
  <2> QED BY <2>1, <2>2
<1>4. call' \in [Calls -> Agent]
  BY <1>1, <1>3
<1>5. view' \in [Nodes -> View] /\ poll' \in [Nodes -> Answer] /\ straggler' \in [Nodes -> Answer]
      /\ marker' \in [Nodes -> Marker]
  BY <1>1, <1>2, BlankMarker, BlankPoll
<1>a. actions' \in 0 .. MaxActions
  BY <1>1, SoleAssumption DEF SoleInv, SoleTyped
<1>6. SoleTyped'
  BY <1>1, <1>3, <1>4, <1>5, <1>a DEF SoleInv, SoleTyped
<1>7. ASSUME NEW n \in Nodes PROVE Guarded(n)'
  <2>1. Busy(n)' = {} /\ marker'[n] = NoMarker /\ ~view'[n].recent
        /\ ~poll'[n].asked /\ ~straggler'[n].asked
    BY <1>1, <1>2, <1>3, BlankPoll DEF Busy
  <2>2. Counts(n)'
    BY <2>1, BlankMarker DEF Counts
  <2>3. MarkedSince(n)' /\ Honest(n)'
    BY <2>1 DEF MarkedSince, UpToDate, Fresh, Seen, Answered, Honest
  <2>4. Lasts(n) => Lasts(n)'
    BY <1>1, <2>1 DEF Lasts, Answered
  <2> QED BY <1>1, <2>2, <2>3, <2>4 DEF Guarded, SoleInv
<1> QED BY <1>1, <1>6, <1>7 DEF SoleInv

LEMMA AskStep ==
  ASSUME SoleInv, NEW n \in Nodes, PollAsks(n)
  PROVE  SoleInv'
<1> DEFINE new == [asked |-> TRUE, old |-> FALSE, ok |-> engine[n] = "up",
                   models |-> IF engine[n] = "up" THEN resident[n] ELSE {}]
<1>1. UNCHANGED <<engine, resident, view, marker, draining, call, configured, deliberate,
      surprised, mishap>>
      /\ poll' = [poll EXCEPT ![n] = new]
  BY DEF PollAsks, Acts, unseen
<1>2. new \in Answer /\ new.asked /\ ~new.old /\ (new.ok <=> engine[n] = "up")
      /\ (new.ok => new.models = resident[n])
  BY DEF SoleInv, SoleTyped, Answer
<1> HIDE DEF new
<1>a. \/ UNCHANGED <<straggler, actions>>
      \/ poll[n].asked /\ straggler' = [straggler EXCEPT ![n] = poll[n]]
         /\ actions < MaxActions /\ actions' = actions + 1
  BY DEF PollAsks, Acts
<1>b. straggler' \in [Nodes -> Answer] /\ actions' \in 0 .. MaxActions
      /\ (straggler'[n] = straggler[n] \/ straggler'[n] = poll[n])
      /\ \A k \in Nodes \ {n} : straggler'[k] = straggler[k]
  BY <1>a, SoleAssumption DEF SoleInv, SoleTyped
<1>3. poll' \in [Nodes -> Answer] /\ poll'[n] = new /\ \A k \in Nodes \ {n} : SameNode(k)
  BY <1>1, <1>2, <1>b DEF SoleInv, SoleTyped, SameNode
<1>4. SoleTyped'
  BY <1>1, <1>3, <1>b DEF SoleInv, SoleTyped
<1>5. SameCalls(n) /\ Guarded(n)
  BY <1>1, CallsStay DEF SoleInv
<1>6. Counts(n)'
  BY <1>1, <1>5 DEF Guarded, Counts, SameCalls
<1>7. Fresh(n)' /\ Honest(n)'
  BY <1>1, <1>2, <1>3 DEF Fresh, Honest, Answered, UpWith
<1>8. MarkedSince(n) => MarkedSince(n)'
  BY <1>1, <1>5, <1>7 DEF MarkedSince, Hidden, UpToDate, Seen, UpWith, Confirmed, SameCalls
<1>9. Lasts(n) => Lasts(n)'
  BY <1>1, <1>2, <1>3, <1>b DEF Lasts, Answered
<1> QED BY <1>1, <1>3, <1>4, <1>5, <1>6, <1>7, <1>8, <1>9, OneNode DEF Guarded, SoleInv

\* What an answer changes.
LEMMA AnswerShape ==
  ASSUME SoleInv, NEW n \in Nodes, NEW a \in Answer, Answers(n, a)
  PROVE  /\ view' \in [Nodes -> View] /\ marker' \in [Nodes -> Marker]
         /\ \A k \in Nodes \ {n} : view'[k] = view[k] /\ marker'[k] = marker[k]
         /\ marker'[n].set = marker[n].set /\ marker'[n].phase = marker[n].phase
         /\ marker'[n].inflight = marker[n].inflight
         /\ marker'[n].maybeDown = marker[n].maybeDown
         /\ a.ok => view'[n].models = a.models
         /\ ~a.ok => view'[n].models = view[n].models /\ view'[n].recent = view[n].recent
                     /\ marker'[n].seen = marker[n].seen
<1>1. marker[n] \in Marker /\ view[n] \in View
  BY DEF SoleInv, SoleTyped
<1>2. CASE a.ok
  <2>1. PICK up \in BOOLEAN : view' = [view EXCEPT ![n] =
              [healthy |-> view[n].healthy \/ up, models |-> a.models, recent |-> TRUE]]
    BY <1>2 DEF Answers
  <2> DEFINE got == [healthy |-> view[n].healthy \/ up, models |-> a.models, recent |-> TRUE]
             mk   == [marker[n] EXCEPT !.seen = marker[n].set]
  <2>2. got \in View /\ got.models = a.models /\ view' = [view EXCEPT ![n] = got]
    <3>1. (view[n].healthy \/ up) \in BOOLEAN /\ a.models \subseteq ServedModels
      BY DEF Answer
    <3> QED BY <2>1, <3>1 DEF View
  <2>3. mk \in Marker /\ mk.set = marker[n].set /\ mk.phase = marker[n].phase
        /\ mk.inflight = marker[n].inflight /\ mk.maybeDown = marker[n].maybeDown
    BY <1>1 DEF Marker
  <2>4. marker' = [marker EXCEPT ![n] = mk]
    BY <1>2 DEF Answers
  <2> HIDE DEF got, mk
  <2> QED BY <1>2, <2>2, <2>3, <2>4 DEF SoleInv, SoleTyped
<1>3. CASE ~a.ok
  <2>1. PICK down \in BOOLEAN : view' = [view EXCEPT ![n].healthy = view[n].healthy /\ ~down]
    BY <1>3 DEF Answers
  <2> DEFINE got == [view[n] EXCEPT !.healthy = view[n].healthy /\ ~down]
  <2>2. view' = [view EXCEPT ![n] = got] /\ UNCHANGED marker
    BY <1>3, <2>1 DEF Answers
  <2>3. got \in View /\ got.models = view[n].models /\ got.recent = view[n].recent
    BY <1>1 DEF View
  <2> HIDE DEF got
  <2> QED BY <1>3, <2>2, <2>3 DEF SoleInv, SoleTyped
<1> QED BY <1>2, <1>3

LEMMA AnswerStep ==
  ASSUME SoleInv, NEW n \in Nodes, PollAnswers(n)
  PROVE  SoleInv'
<1>1. /\ UNCHANGED <<engine, resident, straggler, draining, call, configured, deliberate, actions>>
      /\ poll' = [poll EXCEPT ![n] = NoPoll] /\ poll[n].asked /\ Answers(n, poll[n])
  BY DEF PollAnswers
<1>2. SameCalls(n) /\ Guarded(n) /\ poll[n] \in Answer
  BY <1>1, CallsStay DEF SoleInv, SoleTyped
<1>3. poll' \in [Nodes -> Answer] /\ ~poll'[n].asked /\ \A k \in Nodes \ {n} : poll'[k] = poll[k]
  BY <1>1, BlankPoll DEF SoleInv, SoleTyped
<1>4. /\ view' \in [Nodes -> View] /\ marker' \in [Nodes -> Marker]
      /\ \A k \in Nodes \ {n} : view'[k] = view[k] /\ marker'[k] = marker[k]
      /\ marker'[n].set = marker[n].set /\ marker'[n].phase = marker[n].phase
      /\ marker'[n].inflight = marker[n].inflight
      /\ marker'[n].maybeDown = marker[n].maybeDown
      /\ poll[n].ok => view'[n].models = poll[n].models
      /\ ~poll[n].ok => view'[n].models = view[n].models /\ view'[n].recent = view[n].recent
                        /\ marker'[n].seen = marker[n].seen
  BY <1>1, <1>2, AnswerShape
<1> DEFINE Surprises == /\ surprised' \subseteq Nodes /\ mishap' \in BOOLEAN
                        /\ ~mishap' => surprised' = {}
                        /\ \A k \in Nodes \ {n} : k \in surprised => k \in surprised'
           Before == Honest(n) /\ (n \notin surprised => MarkedSince(n))
           After == n \notin surprised' => MarkedSince(n)'
<1>5. Surprises /\ (Before => After)
  <2>1. CASE poll[n].ok /\ ~poll[n].old /\ surprised' = surprised \ {n} /\ UNCHANGED mishap
    <3>1. Honest(n) /\ ~Downed(n) => UpToDate(n)'
      BY <1>1, <1>3, <1>4, <2>1 DEF Honest, UpToDate, Seen, Fresh, Answered, UpWith
    <3>2. ~Hidden(n)' \/ Confirmed(n)' => ~Downed(n)
      BY <1>2, <1>4 DEF Hidden, Confirmed, Guarded, Counts, SameCalls, Downed
    <3>3. Honest(n) => MarkedSince(n)'
      BY <3>1, <3>2 DEF MarkedSince
    <3>4. Surprises
      BY <2>1 DEF SoleInv, SoleTyped
    <3> QED BY <3>3, <3>4
  <2>2. CASE surprised' = surprised \cup {n} /\ mishap' = TRUE
    BY <2>2 DEF SoleInv, SoleTyped
  <2>3. CASE UNCHANGED unseen /\ poll[n].ok /\ marker[n].phase # "settled"
    <3>1. ~Hidden(n)' \/ Confirmed(n)' => ~Hidden(n)
      BY <1>2, <1>4, <2>3 DEF Hidden, Confirmed, SameCalls
    <3>2. Fresh(n) => UpToDate(n)'
      BY <1>1, <1>3, <1>4, <2>3 DEF UpToDate, Seen, Fresh, Answered, UpWith
    <3>3. MarkedSince(n) => MarkedSince(n)'
      BY <3>1, <3>2 DEF MarkedSince, UpToDate
    <3> QED BY <2>3, <3>3 DEF SoleInv, SoleTyped, unseen
  <2>4. CASE UNCHANGED unseen /\ ~poll[n].ok
    <3>1. ~Hidden(n)' \/ Confirmed(n)' => ~Hidden(n) \/ Confirmed(n)
      BY <1>2, <1>4, <2>4 DEF Hidden, Confirmed, SameCalls
    <3>2. UpToDate(n) => UpToDate(n)'
      BY <1>1, <1>3, <1>4, <2>4 DEF UpToDate, Seen, Fresh, Answered, UpWith
    <3>3. MarkedSince(n) => MarkedSince(n)'
      BY <3>1, <3>2 DEF MarkedSince
    <3> QED BY <2>4, <3>3 DEF SoleInv, SoleTyped, unseen
  <2> QED BY <1>2, <2>1, <2>2, <2>3, <2>4 DEF PollAnswers, Answer
<1> HIDE DEF Before, After
<1>6. \A k \in Nodes \ {n} : SameNode(k)
  BY <1>1, <1>3, <1>4, <1>5 DEF SameNode
<1>7. SoleTyped'
  BY <1>1, <1>3, <1>4, <1>5 DEF SoleInv, SoleTyped
<1>8. Counts(n)'
  BY <1>2, <1>4 DEF Guarded, Counts, SameCalls
<1>9. Honest(n)' /\ (Lasts(n) => Lasts(n)')
  BY <1>1, <1>3, <1>4 DEF Honest, Lasts, Answered
<1>10. Guarded(n)'
  BY <1>1, <1>2, <1>5, <1>8, <1>9 DEF Guarded, Before, After
<1> QED BY <1>1, <1>5, <1>6, <1>7, <1>10, OneNode

LEMMA StragglerStep ==
  ASSUME SoleInv, NEW n \in Nodes, StragglerAnswers(n)
  PROVE  SoleInv'
<1>1. /\ UNCHANGED <<engine, resident, poll, draining, call, configured, deliberate, actions>>
      /\ straggler' = [straggler EXCEPT ![n] = NoPoll] /\ straggler[n].asked
      /\ Answers(n, straggler[n])
  BY DEF StragglerAnswers
<1>2. SameCalls(n) /\ Guarded(n) /\ straggler[n] \in Answer
  BY <1>1, CallsStay DEF SoleInv, SoleTyped
<1>3. straggler' \in [Nodes -> Answer] /\ ~straggler'[n].asked
      /\ \A k \in Nodes \ {n} : straggler'[k] = straggler[k]
  BY <1>1, BlankPoll DEF SoleInv, SoleTyped
<1>4. /\ view' \in [Nodes -> View] /\ marker' \in [Nodes -> Marker]
      /\ \A k \in Nodes \ {n} : view'[k] = view[k] /\ marker'[k] = marker[k]
      /\ marker'[n].set = marker[n].set /\ marker'[n].phase = marker[n].phase
      /\ marker'[n].inflight = marker[n].inflight
      /\ marker'[n].maybeDown = marker[n].maybeDown
      /\ straggler[n].ok => view'[n].models = straggler[n].models
      /\ ~straggler[n].ok => view'[n].models = view[n].models /\ view'[n].recent = view[n].recent
                             /\ marker'[n].seen = marker[n].seen
  BY <1>1, <1>2, AnswerShape
<1>5. /\ surprised' \subseteq Nodes /\ mishap' \in BOOLEAN
      /\ ~mishap' => surprised' = {}
      /\ n \notin surprised' => ~straggler[n].ok /\ surprised' = surprised
      /\ \A k \in Nodes \ {n} : k \in surprised => k \in surprised'
  BY DEF StragglerAnswers, unseen, SoleInv, SoleTyped
<1>6. \A k \in Nodes \ {n} : SameNode(k)
  BY <1>1, <1>3, <1>4, <1>5 DEF SameNode
<1>7. SoleTyped'
  BY <1>1, <1>3, <1>4, <1>5 DEF SoleInv, SoleTyped
<1>8. Counts(n)'
  BY <1>2, <1>4 DEF Guarded, Counts, SameCalls
<1>9. (Honest(n) => Honest(n)') /\ (Lasts(n) => Lasts(n)')
  BY <1>1, <1>2, <1>3, <1>4 DEF Honest, Lasts, Answered, UpWith, SameCalls
<1>10. ~straggler[n].ok /\ MarkedSince(n) => MarkedSince(n)'
  <2>1. ~straggler[n].ok /\ (~Hidden(n)' \/ Confirmed(n)') => ~Hidden(n) \/ Confirmed(n)
    BY <1>2, <1>4 DEF Hidden, Confirmed, SameCalls
  <2>2. ~straggler[n].ok /\ UpToDate(n) => UpToDate(n)'
    BY <1>1, <1>4 DEF UpToDate, Seen, Fresh, Answered, UpWith
  <2> QED BY <2>1, <2>2 DEF MarkedSince
<1>11. Guarded(n)'
  BY <1>1, <1>2, <1>5, <1>8, <1>9, <1>10 DEF Guarded
<1> QED BY <1>1, <1>5, <1>6, <1>7, <1>11, OneNode

LEMMA StaleStep ==
  ASSUME SoleInv, NEW n \in Nodes, GoesStale(n)
  PROVE  SoleInv'
<1> DEFINE seen == [view[n] EXCEPT !.recent = FALSE]
<1>1. UNCHANGED <<engine, resident, poll, straggler, marker, draining, call, configured, deliberate,
      actions, surprised, mishap>>
      /\ view' = [view EXCEPT ![n] = seen]
  BY DEF GoesStale, unseen
<1>2. seen \in View /\ ~seen.recent
  BY DEF SoleInv, SoleTyped, View
<1> HIDE DEF seen
<1>3. view' \in [Nodes -> View] /\ view'[n] = seen /\ \A k \in Nodes \ {n} : SameNode(k)
  BY <1>1, <1>2 DEF SoleInv, SoleTyped, SameNode
<1>4. SoleTyped'
  BY <1>1, <1>3 DEF SoleInv, SoleTyped
<1>5. SameCalls(n) /\ Guarded(n)
  BY <1>1, CallsStay DEF SoleInv
<1>6. Counts(n)'
  BY <1>1, <1>5 DEF Guarded, Counts, SameCalls
<1>7. MarkedSince(n) => MarkedSince(n)'
  BY <1>1, <1>2, <1>3, <1>5 DEF MarkedSince, Hidden, UpToDate, Fresh, Seen, Answered, UpWith,
     Confirmed, SameCalls
<1>8. (Lasts(n) => Lasts(n)') /\ (Honest(n) => Honest(n)')
  BY <1>1, <1>2, <1>3, <1>5 DEF Lasts, Honest, Answered, UpWith, SameCalls
<1> QED BY <1>1, <1>3, <1>4, <1>5, <1>6, <1>7, <1>8, OneNode DEF Guarded, SoleInv

LEMMA SoleStep == SoleInv /\ [SoleNext]_soleVars => SoleInv'
<1> SUFFICES ASSUME SoleInv, [SoleNext]_soleVars PROVE SoleInv'
  OBVIOUS
<1>1. CASE SoleNext
  <2>1. CASE \E n \in Nodes, force \in BOOLEAN, acked \in SUBSET ServedModels :
               HandleDrainNode(n, force, acked)
    BY <2>1, DrainStep
  <2>2. CASE \E n \in Nodes, c \in Calls, force, ack \in BOOLEAN,
             acked \in SUBSET ServedModels :
               HandleRestart(c, n, force, acked, ack)
    BY <2>2, RestartStep
  <2>3. CASE \E n \in Nodes : HandleUndrainNode(n) \/ HandleNodeControl(n)
                              \/ \E ack \in BOOLEAN : HandleStop(n, ack)
    BY <2>3, UndrainStep, ControlStep, StopStep
  <2>4. CASE \E n \in Nodes : Settles(n) \/ Expires(n) \/ EngineReturns(n) \/ Dying(n)
    BY <2>4, SettleStep, ExpireStep, ReturnStep, DyingStep
  <2>5. CASE \E n \in Nodes : PollAsks(n) \/ PollAnswers(n) \/ StragglerAnswers(n)
                              \/ GoesStale(n)
    BY <2>5, AskStep, AnswerStep, StragglerStep, StaleStep
  <2>6. CASE \E c \in Calls : AgentRestarts(c) \/ AgentIsLate(c) \/ \E refused \in BOOLEAN :
             FinishRestart(c, refused)
    BY <2>6, AgentStep, LateStep, FinishStep
  <2>7. CASE MarborRestarts
    BY <2>7, BootStep
  <2> QED BY <1>1, <2>1, <2>2, <2>3, <2>4, <2>5, <2>6, <2>7 DEF SoleNext
<1>2. CASE UNCHANGED soleVars
  <2>1. SoleTyped'
    BY <1>2 DEF soleVars, SoleInv, SoleTyped
  <2>2. ASSUME NEW k \in Nodes PROVE Guarded(k)'
    BY <1>2, CallsStay, Untouched DEF soleVars, SameNode, SoleInv
  <2> QED BY <1>2, <2>1, <2>2 DEF SoleInv, soleVars
<1> QED BY <1>1, <1>2

LEMMA SoleTypes == SoleInv => SoleTypeOK
<1> SUFFICES ASSUME SoleInv PROVE SoleTypeOK
  OBVIOUS
<1>1. ASSUME NEW n \in Nodes PROVE /\ view[n].models \subseteq ServedModels
                                  /\ marker[n].inflight \in 0 .. Cardinality(Calls)
                                  /\ marker[n].phase \in {"none", "returned", "settled"}
  <2>1. Counts(n) /\ view[n] \in View /\ marker[n] \in Marker
    BY DEF SoleInv, Guarded, SoleTyped
  <2>2. Cardinality(Calls) \in Nat
    BY SoleAssumption, FS_CardinalityType
  <2>3. marker[n].inflight = Cardinality(Busy(n)) \/ marker[n].inflight = 0
    BY <2>1 DEF Counts
  <2> QED BY <2>1, <2>2, <2>3, BusyCount DEF View, Marker
<1> QED BY <1>1 DEF SoleInv, SoleTyped, SoleTypeOK

-----------------------------------------------------------------------------
(* A server is left. *)

\* Only a drain or a restart takes a node, after the check, and it takes no other.
TakesNode(n) ==
    /\ \E force \in BOOLEAN, acked \in SUBSET ServedModels : CheckSoleReplica(n, force, acked)
    /\ \/ draining' = [draining EXCEPT ![n] = TRUE] /\ UNCHANGED call
       \/ /\ \E c \in Calls : call' = [call EXCEPT ![c] = [on |-> n, pc |-> "sent"]]
          /\ UNCHANGED draining

LEMMA TakenChecked ==
  ASSUME SoleInv, [SoleNext]_soleVars, NEW n \in Nodes, TakenAway(n)
  PROVE  TakesNode(n)
<1>1. CASE ~draining[n] /\ draining'[n]
  <2>1. \E k \in Nodes :
          \/ HandleUndrainNode(k)
          \/ \E force \in BOOLEAN, acked \in SUBSET ServedModels :
             HandleDrainNode(k, force, acked)
    BY <1>1 DEF SoleNext, soleVars, HandleRestart, HandleStop, HandleNodeControl, AgentRestarts,
       AgentIsLate, GoesDown, Dying, MarborRestarts, Expires, StragglerAnswers,
       FinishRestart, Settles, EngineReturns, PollAsks, PollAnswers, GoesStale, world
  <2>2. PICK k \in Nodes :
          \/ HandleUndrainNode(k)
          \/ \E force \in BOOLEAN, acked \in SUBSET ServedModels :
             HandleDrainNode(k, force, acked)
    BY <2>1
  <2>3. k = n /\ ~HandleUndrainNode(k)
    BY <1>1, <2>2 DEF HandleUndrainNode, HandleDrainNode, SoleInv, SoleTyped
  <2>4. PICK force \in BOOLEAN, acked \in SUBSET ServedModels : HandleDrainNode(n, force, acked)
    BY <2>2, <2>3
  <2> QED BY <2>4 DEF HandleDrainNode, TakesNode
<1>2. CASE \E c \in Calls : call[c].pc = "idle" /\ call'[c].pc # "idle" /\ call'[c].on = n
  <2>1. PICK c \in Calls : call[c].pc = "idle" /\ call'[c].pc # "idle" /\ call'[c].on = n
    BY <1>2
  <2>2. ASSUME NEW d \in Calls, AgentRestarts(d) \/ AgentIsLate(d) \/ \E refused \in BOOLEAN :
               FinishRestart(d, refused)
        PROVE  FALSE
    <3>1. call[d].pc # "idle" /\ \A k \in Calls \ {d} : call'[k] = call[k]
      BY <2>2 DEF AgentRestarts, AgentIsLate, FinishRestart, SoleInv, SoleTyped
    <3> QED BY <2>1, <3>1
  <2>3. call' # call /\ ~MarborRestarts
    BY <2>1, BlankCall DEF MarborRestarts
  <2>4. \E k \in Nodes, d \in Calls, force, ack \in BOOLEAN, acked \in SUBSET ServedModels :
          HandleRestart(d, k, force, acked, ack)
    BY <2>2, <2>3 DEF SoleNext, soleVars, HandleDrainNode, HandleUndrainNode, HandleStop, Dying,
       HandleNodeControl, Settles, Expires, EngineReturns, PollAsks, PollAnswers,
       StragglerAnswers, GoesStale, world
  <2>5. PICK k \in Nodes, d \in Calls, force \in BOOLEAN, ack \in BOOLEAN,
             acked \in SUBSET ServedModels : HandleRestart(d, k, force, acked, ack)
    BY <2>4
  <2>6. call' = [call EXCEPT ![d] = [on |-> k, pc |-> "sent"]]
        /\ CheckSoleReplica(k, force, acked)
        /\ UNCHANGED draining
    BY <2>5 DEF HandleRestart
  <2>7. k = n
    BY <2>1, <2>6 DEF SoleInv, SoleTyped
  <2> QED BY <2>6, <2>7 DEF TakesNode
<1> QED BY <1>1, <1>2 DEF TakenAway

LEMMA TakenAlone ==
  ASSUME SoleInv, [SoleNext]_soleVars, NEW n \in Nodes, NEW p \in Nodes, TakenAway(n),
         TakenAway(p)
  PROVE  n = p
<1>1. TakesNode(n)
  BY TakenChecked
<1>2. CASE draining' = [draining EXCEPT ![n] = TRUE] /\ UNCHANGED call
  BY <1>2 DEF TakenAway, SoleInv, SoleTyped
<1>3. CASE UNCHANGED draining /\ \E c \in Calls :
           call' = [call EXCEPT ![c] = [on |-> n, pc |-> "sent"]]
  <2>1. PICK c \in Calls : call' = [call EXCEPT ![c] = [on |-> n, pc |-> "sent"]]
    BY <1>3
  <2>2. PICK d \in Calls : call[d].pc = "idle" /\ call'[d].pc # "idle" /\ call'[d].on = p
    BY <1>3 DEF TakenAway
  <2> QED BY <2>1, <2>2 DEF SoleInv, SoleTyped
<1> QED BY <1>1, <1>2, <1>3 DEF TakesNode

\* What a drain or a restart takes away has another server, or surprised the router.
LEMMA TakenHasPeer ==
  SoleInv /\ [SoleNext]_soleVars =>
    \A n \in Nodes : TakenAway(n) /\ ~draining[n] /\ ~deliberate' =>
      /\ view[n].recent
      /\ \A m \in view[n].models : \E p \in Nodes \ {n} : Ready(p, m, n) \/ Mistaken(p, n, m)
<1> SUFFICES ASSUME SoleInv, [SoleNext]_soleVars, NEW n \in Nodes, TakenAway(n), ~draining[n],
                    ~deliberate'
             PROVE  /\ view[n].recent
                    /\ \A m \in view[n].models :
                         \E p \in Nodes \ {n} : Ready(p, m, n) \/ Mistaken(p, n, m)
  OBVIOUS
<1>1. PICK force \in BOOLEAN, acked \in SUBSET ServedModels : CheckSoleReplica(n, force, acked)
  BY TakenChecked DEF TakesNode
<1> QED BY <1>1, PeerReady, UnheardUnknown

LEMMA ReadyServes ==
  ASSUME NEW n, NEW p, NEW m, Ready(p, m, n)
  PROVE  CanServe(p, m)
  BY DEF Ready, CanServe, Busy

LEMMA SoleStepLeavesAServer ==
  SoleInv /\ [SoleNext]_soleVars =>
    \A n \in Nodes : TakenAway(n) /\ ~draining[n] /\ ~deliberate' =>
      \A m \in view[n].models : \E p \in Nodes \ {n} : CanServe(p, m) \/ Mistaken(p, n, m)
<1> SUFFICES ASSUME SoleInv, [SoleNext]_soleVars, NEW n \in Nodes, TakenAway(n), ~draining[n],
                    ~deliberate', NEW m \in view[n].models
             PROVE  \E p \in Nodes \ {n} : CanServe(p, m) \/ Mistaken(p, n, m)
  OBVIOUS
<1>1. PICK p \in Nodes \ {n} : Ready(p, m, n) \/ Mistaken(p, n, m)
  BY TakenHasPeer
<1> QED BY <1>1, ReadyServes

\* Which steps end a node's being warm: those that take it, and those of a choice.
LEMMA StaysWarm ==
  ASSUME SoleInv, [SoleNext]_soleVars, ~deliberate', ~mishap', NEW n \in Nodes, NEW m,
         Warm(n, m), ~TakenAway(n)
  PROVE  Warm(n, m)'
<1>1. engine[n] = "up" /\ ~draining[n] /\ Busy(n) = {} /\ m \in resident[n]
  BY DEF Warm
<1>2. CASE UNCHANGED <<engine, resident, draining, call>>
  BY <1>1, <1>2 DEF Warm, Busy
<1>3. ASSUME NEW k \in Nodes, NEW force \in BOOLEAN, NEW acked \in SUBSET ServedModels,
             HandleDrainNode(k, force, acked)
      PROVE  Warm(n, m)'
  <2>1. draining' = [draining EXCEPT ![k] = TRUE] /\ UNCHANGED <<engine, resident, call>>
    BY <1>3 DEF HandleDrainNode, world
  <2>2. ~draining'[n]
    BY <1>1, <2>1 DEF TakenAway, SoleInv, SoleTyped
  <2> QED BY <1>1, <2>1, <2>2 DEF Warm, Busy
<1>4. ASSUME NEW k \in Nodes, HandleUndrainNode(k) PROVE Warm(n, m)'
  BY <1>1, <1>4 DEF Warm, Busy, HandleUndrainNode, world, SoleInv, SoleTyped
<1>5. ASSUME NEW k \in Nodes, NEW c \in Calls, NEW force \in BOOLEAN, NEW ack \in BOOLEAN,
             NEW acked \in SUBSET ServedModels, HandleRestart(c, k, force, acked, ack)
      PROVE  Warm(n, m)'
  <2>1. call' = [call EXCEPT ![c] = [on |-> k, pc |-> "sent"]] /\ call[c].pc = "idle"
        /\ UNCHANGED <<engine, resident, draining>>
    BY <1>5 DEF HandleRestart, world
  <2>2. call'[c] = [on |-> k, pc |-> "sent"] /\ \A d \in Calls \ {c} : call'[d] = call[d]
    BY <2>1 DEF SoleInv, SoleTyped
  <2>3. k # n
    BY <2>1, <2>2 DEF TakenAway
  <2>4. Busy(n)' = {}
    BY <1>1, <2>2, <2>3 DEF Busy
  <2> QED BY <1>1, <2>1, <2>4 DEF Warm
<1>6. ASSUME NEW k \in Nodes, EngineReturns(k) PROVE Warm(n, m)'
  BY <1>1, <1>6 DEF Warm, Busy, EngineReturns, SoleInv, SoleTyped
<1>7. ASSUME NEW c \in Calls, AgentRestarts(c) PROVE Warm(n, m)'
  <2>1. call[c].on # n /\ call[c].pc = "sent"
        /\ engine' = [engine EXCEPT ![call[c].on] = "down"]
        /\ call' = [call EXCEPT ![c].pc = "done"] /\ UNCHANGED <<resident, draining>>
    BY <1>1, <1>7 DEF AgentRestarts, Busy
  <2>2. call'[c].on = call[c].on /\ \A d \in Calls \ {c} : call'[d] = call[d]
    BY <2>1 DEF SoleInv, SoleTyped, Agent
  <2>3. Busy(n)' = {}
    BY <1>1, <2>1, <2>2 DEF Busy
  <2> QED BY <1>1, <2>1, <2>3 DEF Warm, SoleInv, SoleTyped
<1>8. ASSUME NEW c \in Calls, NEW refused \in BOOLEAN,
             FinishRestart(c, refused) PROVE Warm(n, m)'
  <2>1. call'[c].pc \in {"idle", "late"} /\ (\A k \in Calls \ {c} : call'[k] = call[k])
        /\ UNCHANGED <<engine, resident, draining>>
    <3>1. Ended(c, refused).pc \in {"idle", "late"}
      BY BlankCall DEF Ended, SoleInv, SoleTyped, Agent
    <3>2. call' = [call EXCEPT ![c] = Ended(c, refused)] /\ UNCHANGED <<engine, resident, draining>>
      BY <1>8 DEF FinishRestart
    <3> QED BY <3>1, <3>2 DEF SoleInv, SoleTyped
  <2>2. Busy(n)' = {}
    BY <1>1, <2>1 DEF Busy
  <2> QED BY <1>1, <2>1, <2>2 DEF Warm
<1>9. ASSUME NEW k \in Nodes, NEW ack \in BOOLEAN, HandleStop(k, ack) PROVE FALSE
  BY <1>9 DEF HandleStop
<1>10. ASSUME NEW k \in Nodes, HandleNodeControl(k) \/ Settles(k) \/ Expires(k) \/ PollAsks(k)
              \/ PollAnswers(k) \/ StragglerAnswers(k) \/ GoesStale(k)
       PROVE  UNCHANGED <<engine, resident, draining, call>>
  BY <1>10 DEF HandleNodeControl, Settles, Expires, PollAsks, PollAnswers, StragglerAnswers,
     GoesStale, world
<1>11. CASE UNCHANGED soleVars
  BY <1>2, <1>11 DEF soleVars
<1>12. ASSUME NEW k \in Nodes, Dying(k) PROVE FALSE
  BY <1>12 DEF Dying, GoesDown
<1>13. ASSUME NEW c \in Calls, AgentIsLate(c) PROVE Warm(n, m)'
  <2>1. call' = [call EXCEPT ![c] = NoCall] /\ UNCHANGED <<engine, resident, draining>>
    BY <1>13 DEF AgentIsLate, GoesDown, world
  <2>2. Busy(n)' = {}
    BY <1>1, <2>1, BlankCall DEF Busy, SoleInv, SoleTyped
  <2> QED BY <1>1, <2>1, <2>2 DEF Warm
<1>14. CASE MarborRestarts
  <2>1. UNCHANGED <<engine, resident, draining>> /\ Busy(n)' = {}
    BY <1>14, BlankCall DEF MarborRestarts, Busy, SoleInv, SoleTyped, Agent
  <2> QED BY <1>1, <2>1 DEF Warm
<1>15. CASE SoleNext
  BY <1>2, <1>3, <1>4, <1>5, <1>6, <1>7, <1>8, <1>9, <1>10, <1>12, <1>13, <1>14, <1>15 DEF SoleNext
<1> QED BY <1>11, <1>15

\* Where at most one node loads on demand, every model stays warm somewhere.
OneOnDemand == \A p, q \in OllamaNodes : p = q

LEMMA WarmStep ==
  ASSUME OneOnDemand, SoleInv, WarmLeft, [SoleNext]_soleVars
  PROVE  WarmLeft'
<1> SUFFICES ASSUME ~deliberate', ~mishap', Nodes # {}, NEW m \in ServedModels
             PROVE  \E n \in Nodes : Warm(n, m)'
  BY DEF WarmLeft
<1>1. ~deliberate /\ ~mishap
  <2>1. ~deliberate
    BY DEF SoleNext, soleVars, HandleDrainNode, HandleUndrainNode, HandleRestart, HandleStop,
       HandleNodeControl, AgentRestarts, AgentIsLate, GoesDown, Dying, MarborRestarts,
       FinishRestart, Settles, Expires, EngineReturns, PollAsks, PollAnswers, StragglerAnswers,
       GoesStale, CheckSoleReplica
  <2>2. ~mishap
    BY DEF SoleNext, soleVars, HandleDrainNode, HandleUndrainNode, HandleRestart, HandleStop,
       HandleNodeControl, AgentRestarts, AgentIsLate, GoesDown, Dying, MarborRestarts,
       FinishRestart, Settles, Expires, EngineReturns, PollAsks, PollAnswers, StragglerAnswers,
       GoesStale, world, unseen
  <2> QED BY <2>1, <2>2
<1>2. PICK n \in Nodes : Warm(n, m)
  BY <1>1 DEF WarmLeft
<1>3. CASE ~TakenAway(n)
  BY <1>2, <1>3, StaysWarm
<1>4. CASE TakenAway(n)
  <2>1. ~draining[n] /\ view[n].recent
    BY <1>2, <1>4, TakenHasPeer DEF Warm
  <2>a. m \in view[n].models
    BY <1>1, <1>2, <2>1 DEF Warm, SoleInv, Guarded, Lasts
  <2>b. \A p \in Nodes : ~Mistaken(p, n, m)
    BY <1>1 DEF SoleInv, Mistaken
  <2>2. PICK p \in Nodes \ {n} : Ready(p, m, n)
    BY <1>4, <2>1, <2>a, <2>b, TakenHasPeer
  <2>3. Warm(p, m)
    BY <2>2 DEF Ready, Warm, OneOnDemand
  <2>4. ~TakenAway(p)
    BY <1>4, <2>2, TakenAlone
  <2> QED BY <2>3, <2>4, StaysWarm
<1> QED BY <1>3, <1>4

LEMMA WarmServes == SoleInv /\ WarmLeft => ServerLeft
<1> SUFFICES ASSUME SoleInv, WarmLeft, ~deliberate, ~mishap, NEW m \in ServedModels, Nodes # {}
             PROVE  \E n \in Nodes : CanServe(n, m)
  BY DEF ServerLeft
<1>1. PICK n \in Nodes : Warm(n, m)
  BY DEF WarmLeft
<1> QED BY <1>1 DEF Warm, CanServe, Busy

LEMMA WarmStarts == SoleInit => WarmLeft
<1> SUFFICES ASSUME SoleInit, Nodes # {}, NEW m \in ServedModels PROVE \E n \in Nodes :
                    Warm(n, m)
  BY DEF WarmLeft
<1>1. PICK n \in Nodes : TRUE
  OBVIOUS
<1>2. Warm(n, m)
  BY BlankCall DEF SoleInit, Warm, Busy
<1> QED BY <1>2

-----------------------------------------------------------------------------
(* Replica declarations. *)

Declaration(d) == d = [head |-> d.head, members |-> d.members]
Reviewing(x) ==
    /\ x = [pc |-> x.pc, list |-> x.list, fp |-> x.fp, adopt |-> x.adopt,
            snapshot |-> x.snapshot, group |-> x.group]
    /\ x.pc \in {"idle", "apply"}

\* Every declaration of a member is the one the operator was shown, or says what the
\* group says.
Expected(x, n) == \/ peers[n].members = {}
                  \/ x.adopt /\ <<n, peers[n]>> \in x.snapshot
                  \/ Agrees(x.group, peers[n])

\* An operator who applies a group holds the mutex, so what was checked still holds.
Checked(r) ==
    review[r].pc = "apply" =>
      /\ nodePatchMu = r /\ Declaration(review[r].group)
      /\ \A n \in review[r].group.members \cap known : Expected(review[r], n)

SugInv ==
    /\ \A n \in SugNodes \ apart : peers[n] = stored[n]
    /\ peers = [n \in SugNodes |-> peers[n]] /\ stored = [n \in SugNodes |-> stored[n]]
    /\ \A n \in SugNodes : Declaration(peers[n]) /\ Declaration(stored[n])
    /\ known \subseteq SugNodes
    /\ review = [r \in Reviewers |-> review[r]]
    /\ \A r \in Reviewers : Reviewing(review[r]) /\ Checked(r)
    /\ \A d \in dismissed : <<d.fp, d.state>> \in lastDismissed

LEMMA SugStarts == SuggestInit => SugInv
<1> SUFFICES ASSUME SuggestInit PROVE SugInv
  OBVIOUS
<1>1. Declaration(NoPeers) /\ Reviewing(IdleReview) /\ IdleReview.pc = "idle"
  BY DEF Declaration, NoPeers, Reviewing, IdleReview
<1> QED BY <1>1 DEF SuggestInit, SugInv, Checked

\* Nothing an operator has checked changes, except that a reload may clear it.
LEMMA StillChecked ==
  ASSUME NEW r \in Reviewers, Checked(r), review'[r] = review[r],
         UNCHANGED nodePatchMu,
         \A n \in known' : (n \in known /\ peers'[n] = peers[n]) \/ peers'[n].members = {}
  PROVE  Checked(r)'
  BY DEF Checked, Expected

\* What is found confirmable under the mutex contradicts no declaration unseen.
LEMMA ConfirmableChecked ==
  ASSUME SugInv, NEW s \in Suggestions, NEW adopt \in BOOLEAN, NEW snapshot, NEW x,
         Confirmable(s, adopt, snapshot), x.adopt = adopt, x.snapshot = snapshot, x.group = s.fp
  PROVE  Declaration(s.fp) /\ \A n \in s.fp.members \cap known : Expected(x, n)
<1>1. PICK c \in Candidates : s = Finalize(c)
  BY DEF Suggestions
<1>2. s.fp = Fingerprint(c) /\ s.declared = Declared(c)
      /\ s.state = IF c.state = "complete" /\ \E pair \in Declared(c) : ~Agrees(c, pair[2])
                   THEN "contradicts_declared" ELSE c.state
  BY <1>1 DEF Finalize
<1>3. s.fp.members = c.members /\ s.fp.head = c.head /\ Declaration(s.fp)
  BY <1>2 DEF Fingerprint, Declaration
<1>4. ASSUME NEW n \in c.members \cap known, peers[n].members # {}
      PROVE  <<n, peers[n]>> \in Declared(c)
  BY <1>4 DEF Declared
<1>5. CASE adopt
  BY <1>2, <1>3, <1>4, <1>5 DEF Confirmable, CheckAdopt, Expected
<1>6. CASE ~adopt
  <2>1. \A pair \in Declared(c) : Agrees(c, pair[2])
    BY <1>2, <1>6 DEF Confirmable
  <2> QED BY <1>3, <1>4, <2>1 DEF Expected, Agrees
<1> QED BY <1>5, <1>6

LEMMA ConfirmStep ==
  ASSUME SugInv, NEW r \in Reviewers, NEW shown, NEW adopt \in BOOLEAN, Confirm(r, shown, adopt)
  PROVE  SugInv'
<1> DEFINE now == {s \in Suggestions : s.fp = shown.fp}
           new == [pc |-> "apply", list |-> {}, fp |-> shown.fp, adopt |-> adopt,
                   snapshot |-> shown.declared, group |-> shown.fp]
<1>1. UNCHANGED <<known, peers, stored, dismissed, apart, lastDismissed>>
  BY DEF Confirm
<1>2. CASE UNCHANGED <<review, nodePatchMu>>
  BY <1>1, <1>2, StillChecked DEF SugInv
<1>3. CASE /\ Cardinality(now) = 1 /\ \A s \in now : Confirmable(s, adopt, shown.declared)
           /\ nodePatchMu = "nobody" /\ nodePatchMu' = r /\ review' = [review EXCEPT ![r] = new]
  <2>1. now # {}
    <3> HIDE DEF now
    <3> QED BY <1>3, FS_EmptySet
  <2>2. PICK s \in Suggestions : s.fp = shown.fp /\ Confirmable(s, adopt, shown.declared)
    BY <1>3, <2>1
  <2>3. Reviewing(new) /\ new.pc = "apply" /\ new.group = s.fp /\ new.adopt = adopt
        /\ new.snapshot = shown.declared
    BY <2>2 DEF Reviewing
  <2> HIDE DEF now, new
  <2>4. Declaration(s.fp) /\ \A n \in s.fp.members \cap known : Expected(new, n)
    BY <2>2, <2>3, ConfirmableChecked
  <2>5. review' = [k \in Reviewers |-> review'[k]] /\ review'[r] = new
        /\ \A k \in Reviewers \ {r} : review'[k] = review[k]
    BY <1>3 DEF SugInv
  <2>6. Checked(r)'
    BY <1>1, <1>3, <2>3, <2>4, <2>5 DEF Checked, Expected
  <2>7. ASSUME NEW k \in Reviewers \ {r} PROVE Checked(k)' /\ Reviewing(review'[k])
    BY <1>3, <2>5, SugAssumption DEF SugInv, Checked
  <2> QED BY <1>1, <2>3, <2>5, <2>6, <2>7 DEF SugInv
<1> QED BY <1>2, <1>3 DEF Confirm

LEMMA ApplyStep ==
  ASSUME SugInv, NEW r \in Reviewers, ApplyReplicaPeersBatch(r)
  PROVE  SugInv'
<1>1. /\ UNCHANGED <<known, dismissed, lastDismissed>>
      /\ review[r].pc = "apply" /\ review' = [review EXCEPT ![r] = IdleReview]
  BY DEF ApplyReplicaPeersBatch
<1>2. Reviewing(IdleReview) /\ IdleReview.pc = "idle"
  BY DEF Reviewing, IdleReview
<1>3. nodePatchMu = r /\ Declaration(review[r].group)
  BY <1>1 DEF SugInv, Checked
<1>4. /\ \A n \in SugNodes \ apart' : peers'[n] = stored'[n]
      /\ peers' = [n \in SugNodes |-> peers'[n]] /\ stored' = [n \in SugNodes |-> stored'[n]]
      /\ \A n \in SugNodes : Declaration(peers'[n]) /\ Declaration(stored'[n])
  BY <1>3 DEF ApplyReplicaPeersBatch, SetReplicaPeersBatch, SugInv
<1>5. review' = [k \in Reviewers |-> review'[k]] /\ review'[r] = IdleReview
      /\ \A k \in Reviewers \ {r} : review'[k] = review[k]
  BY <1>1 DEF SugInv
<1>6. ASSUME NEW k \in Reviewers PROVE Reviewing(review'[k]) /\ Checked(k)'
  BY <1>2, <1>3, <1>5 DEF SugInv, Checked
<1> QED BY <1>1, <1>4, <1>5, <1>6 DEF SugInv

LEMMA DismissStep ==
  ASSUME SugInv, NEW r \in Reviewers, NEW shown, SetSuggestionDismissed(r, shown)
  PROVE  SugInv'
<1>1. UNCHANGED <<known, peers, stored, review, nodePatchMu, apart>>
  BY DEF SetSuggestionDismissed
<1>2. \A d \in dismissed' : <<d.fp, d.state>> \in lastDismissed'
  <2> DEFINE rest == {d \in dismissed : d.fp # shown.fp}
             new(st) == [fp |-> shown.fp, state |-> st, age |-> sugOps]
             others == {x \in lastDismissed : x[1] # shown.fp}
  <2>1. \/ \E st : /\ dismissed' \subseteq rest \cup {new(st)}
                   /\ lastDismissed' = others \cup {<<shown.fp, st>>}
        \/ dismissed' = rest /\ lastDismissed' = others
    BY DEF SetSuggestionDismissed
  <2>2. \A st : new(st).fp = shown.fp /\ new(st).state = st
    OBVIOUS
  <2>3. \A d \in rest : <<d.fp, d.state>> \in others
    BY DEF SugInv
  <2> HIDE DEF new, rest, others
  <2> QED BY <2>1, <2>2, <2>3
<1> QED BY <1>1, <1>2, StillChecked DEF SugInv

LEMMA ListStep ==
  ASSUME SugInv, NEW r \in Reviewers, ListSuggestions(r)
  PROVE  SugInv'
<1> DEFINE new == [review[r] EXCEPT !.list = Suggestions]
<1>1. UNCHANGED <<known, peers, stored, nodePatchMu, dismissed, apart, lastDismissed>>
      /\ review[r].pc = "idle"
      /\ review' = [review EXCEPT ![r] = new]
  BY DEF ListSuggestions
<1>2. Reviewing(new) /\ new.pc = "idle"
  BY <1>1 DEF SugInv, Reviewing
<1> HIDE DEF new
<1>3. review' = [k \in Reviewers |-> review'[k]] /\ review'[r] = new
      /\ \A k \in Reviewers \ {r} : review'[k] = review[k]
  BY <1>1 DEF SugInv
<1>4. ASSUME NEW k \in Reviewers PROVE Reviewing(review'[k]) /\ Checked(k)'
  <2>1. CASE k = r
    BY <1>2, <1>3, <2>1 DEF Checked
  <2>2. CASE k # r
    BY <1>1, <1>3, <2>2, StillChecked DEF SugInv
  <2> QED BY <2>1, <2>2
<1> QED BY <1>1, <1>3, <1>4 DEF SugInv

LEMMA ElseStep ==
  ASSUME SugInv,
         \/ \E h \in Hosts : \E e \in Evidence[h] : AgentReports(h, e)
         \/ \E n \in SugNodes, d \in PeerChoices : PatchPeers(n, d)
         \/ \E n \in SugNodes : SyncPool(n)
         \/ Restart
         \/ UNCHANGED sugVars
  PROVE  SugInv'
<1>1. CASE (\E h \in Hosts : \E e \in Evidence[h] : AgentReports(h, e)) \/ UNCHANGED sugVars
  <2>1. UNCHANGED <<peers, stored, review, nodePatchMu, dismissed, known, apart, lastDismissed>>
    BY <1>1 DEF AgentReports, sugVars
  <2> QED BY <2>1, StillChecked DEF SugInv
<1>2. ASSUME NEW n \in SugNodes, NEW d \in PeerChoices, PatchPeers(n, d) PROVE SugInv'
  <2>1. /\ UNCHANGED <<known, review, nodePatchMu, dismissed, lastDismissed>>
        /\ nodePatchMu = "nobody" /\ peers' = [peers EXCEPT ![n] = d]
        /\ \/ stored' = [stored EXCEPT ![n] = d] /\ apart' = apart \ {n}
           \/ UNCHANGED stored /\ apart' = apart \cup {n}
    BY <1>2 DEF PatchPeers
  <2>2. Declaration(d)
    BY SugAssumption DEF Declaration
  <2>3. \A r \in Reviewers : review[r].pc # "apply"
    BY <2>1, SugAssumption DEF SugInv, Checked
  <2>4. \A k \in SugNodes \ apart' : peers'[k] = stored'[k]
    BY <2>1 DEF SugInv
  <2> QED BY <2>1, <2>2, <2>3, <2>4 DEF SugInv, Checked
<1>4. ASSUME NEW n \in SugNodes, SyncPool(n) PROVE SugInv'
  <2>1. /\ UNCHANGED <<stored, review, nodePatchMu, dismissed, lastDismissed>>
        /\ \/ known' \subseteq known /\ UNCHANGED <<peers, apart>>
           \/ /\ known' = known \cup {n} /\ peers' = [peers EXCEPT ![n] = NoPeers]
              /\ apart' = apart \cup {n}
    BY <1>4 DEF SyncPool
  <2>2. Declaration(NoPeers) /\ NoPeers.members = {}
    BY DEF Declaration, NoPeers
  <2>3. /\ \A k \in SugNodes \ apart' : peers'[k] = stored'[k]
        /\ peers' = [k \in SugNodes |-> peers'[k]]
        /\ \A k \in SugNodes : Declaration(peers'[k]) /\ known' \subseteq SugNodes
    BY <2>1, <2>2 DEF SugInv
  <2>4. \A k \in known' : (k \in known /\ peers'[k] = peers[k]) \/ peers'[k].members = {}
    BY <2>1, <2>2 DEF SugInv
  <2> QED BY <2>1, <2>3, <2>4, StillChecked DEF SugInv
<1>3. CASE Restart
  <2>1. Reviewing(IdleReview) /\ IdleReview.pc = "idle"
    BY DEF Reviewing, IdleReview
  <2> QED BY <1>3, <2>1 DEF Restart, SugInv, Checked
<1> QED BY <1>1, <1>2, <1>3, <1>4

LEMMA SugStep == SugInv /\ [SuggestNext]_sugVars => SugInv'
  BY ConfirmStep, ApplyStep, DismissStep, ListStep, ElseStep DEF SuggestNext

LEMMA SugStepShown ==
  SugInv =>
    \A r \in Reviewers, n \in SugNodes :
      (ApplyReplicaPeersBatch(r) /\ peers[n].members # {} /\ peers'[n] # peers[n])
      => review[r].adopt /\ <<n, peers[n]>> \in review[r].snapshot
<1> SUFFICES ASSUME SugInv, NEW r \in Reviewers, NEW n \in SugNodes,
                    ApplyReplicaPeersBatch(r), peers[n].members # {}, peers'[n] # peers[n]
             PROVE  review[r].adopt /\ <<n, peers[n]>> \in review[r].snapshot
  OBVIOUS
<1>1. n \in review[r].group.members \cap known /\ peers'[n] = review[r].group
  BY DEF ApplyReplicaPeersBatch
<1>2. Declaration(peers[n]) /\ Declaration(review[r].group) /\ Expected(review[r], n)
  BY <1>1 DEF SugInv, Checked, ApplyReplicaPeersBatch
<1>3. ~Agrees(review[r].group, peers[n])
  BY <1>1, <1>2 DEF Declaration, Agrees
<1> QED BY <1>2, <1>3 DEF Expected

LEMMA SugDeclares == SugInv => DeclarationsAgree
  BY DEF SugInv, DeclarationsAgree, IsHidden

-----------------------------------------------------------------------------
(* The admin API. *)

\* The parts of the admin API leave each other alone.
LEMMA PartsInAdminApi ==
    /\ AdminApiInit => AccountsInit /\ SuggestInit /\ SoleInit /\ ProcessInit
    /\ [AdminApiNext]_adminApiVars => /\ [AccountsNext]_accountVars /\ [SuggestNext]_sugVars
                                      /\ [SoleNext]_soleVars /\ [ProcessNext]_processVars
<1>1. AdminApiInit => AccountsInit /\ SuggestInit /\ SoleInit /\ ProcessInit
  BY DEF AdminApiInit
<1>2. ASSUME AdminApiNext PROVE AccountsNext \/ UNCHANGED accountVars
  BY <1>2 DEF AdminApiNext, Only
<1>3. ASSUME AdminApiNext PROVE SuggestNext \/ UNCHANGED sugVars
  BY <1>3 DEF AdminApiNext, Only
<1>4. ASSUME AdminApiNext PROVE SoleNext \/ UNCHANGED soleVars
  BY <1>4 DEF AdminApiNext, Only
<1>5. ASSUME AdminApiNext PROVE ProcessNext \/ UNCHANGED processVars
  BY <1>5 DEF AdminApiNext, Only
<1>6. UNCHANGED adminApiVars => UNCHANGED accountVars /\ UNCHANGED sugVars
                                /\ UNCHANGED soleVars /\ UNCHANGED processVars
  BY DEF adminApiVars
<1> QED BY <1>1, <1>2, <1>3, <1>4, <1>5, <1>6

\* Whatever store writes fail, whichever handlers meet and however often the process
\* starts again, the proxy accepts only operators' keys that the store has active under
\* the same value, and never again one whose revocation was acknowledged, while probes
\* store and remove keys of their own (of those JobsStaySound speaks).
THEOREM AccessIsKept == AdminApiSpec => []AccessKept
<1>1. AdminApiInit => KeysSafe
  BY PartsInAdminApi, KeysSafeFirst
<1>2. KeysSafe /\ [AdminApiNext]_adminApiVars => KeysSafe'
  BY PartsInAdminApi, KeysSafeKept
<1>3. KeysSafe => AccessKept
  BY KeysSafeMeans DEF AccessKept
<1> QED BY <1>1, <1>2, <1>3, PTL DEF AdminApiSpec

\* However start, stop and restart requests of a runtime meet, whatever fails under
\* them and whoever restarts, at most one runtime is alive, and outside the lock the
\* PID file names it (handleRuntimeAction and process.go); only what could be neither
\* recorded nor killed, which the failed start reports, lives beside it.
THEOREM OneRuntimeAlive == ProcessSpec => []OneRuntime
<1>1. ProcessInit => ProcInv
  BY ProcInit
<1>2. ProcInv /\ [ProcessNext]_processVars => ProcInv'
  BY ProcStep
<1>3. ProcInv => OneRuntime
  BY OneIsTracked
<1> QED BY <1>1, <1>2, <1>3, PTL DEF ProcessSpec

\* While nobody forced an outage and no runtime went down but by a call under way, every
\* model the router shows has a server, whatever drains and restarts any number of
\* operators ask for and however often marbor itself starts again, on a fleet with at
\* most one node that loads on demand; and no process action leaves two runtimes, unless
\* one could be neither recorded nor killed.
THEOREM ServiceIsKept == ASSUME OneOnDemand PROVE AdminApiSpec => []ServiceKept
<1> DEFINE Inv == SoleInv /\ WarmLeft /\ ProcInv
<1>1. AdminApiInit => Inv
  BY PartsInAdminApi, SoleStarts, WarmStarts, ProcInit
<1>2. Inv /\ [AdminApiNext]_adminApiVars => Inv'
  BY PartsInAdminApi, SoleStep, WarmStep, ProcStep, OneOnDemand
<1>3. Inv => ServiceKept
  BY SoleTypes, WarmServes, OneIsTracked DEF ServiceKept, ProcInv, ProcTyped
<1> QED BY <1>1, <1>2, <1>3, PTL DEF AdminApiSpec

\* On any fleet: a drain or a restart nobody had to force finds another server, then
\* and there, for every model the router shows on its node, or a node that went down with
\* no call under way and that no poll has told of since; and a confirmed group
\* replaces only declarations that agree with it or that its operator was shown.
THEOREM OperatorsSeeTrue == AdminApiSpec => AdminSteps
<1> DEFINE Inv == SoleInv /\ SugInv
           Shown == \A r \in Reviewers, n \in SugNodes :
                      (ApplyReplicaPeersBatch(r) /\ peers[n].members # {} /\ peers'[n] # peers[n])
                      => review[r].adopt /\ <<n, peers[n]>> \in review[r].snapshot
           Served == \A n \in Nodes : TakenAway(n) /\ ~draining[n] /\ ~deliberate' =>
                       \A m \in view[n].models :
                         \E p \in Nodes \ {n} : CanServe(p, m) \/ Mistaken(p, n, m)
<1>1. AdminApiInit => Inv
  BY PartsInAdminApi, SoleStarts, SugStarts
<1>2. Inv /\ [AdminApiNext]_adminApiVars => Inv'
  BY PartsInAdminApi, SoleStep, SugStep
<1>3. Inv /\ [AdminApiNext]_adminApiVars => Shown /\ Served
  BY PartsInAdminApi, SugStepShown, SoleStepLeavesAServer
<1>4. NoSilentOverwrite <=> [][Shown]_sugVars
  BY DEF NoSilentOverwrite
<1>5. LeavesAServer <=> [][Served]_soleVars
  BY DEF LeavesAServer
<1> HIDE DEF Shown, Served, Inv
<1> QED BY <1>1, <1>2, <1>3, <1>4, <1>5, PTL DEF AdminApiSpec, AdminSteps

\* Outside the nodes whose PATCH could not be stored and those a reload added anew, live
\* and stored declarations of replicas agree at every step, whatever a confirmation meets
\* and whichever writes fail; and a group is hidden only as its latest dismissal says.
THEOREM DeclarationsKept == SuggestSpec => []DeclarationsAgree
<1>1. SuggestInit => SugInv
  BY SugStarts
<1>2. SugInv /\ [SuggestNext]_sugVars => SugInv'
  BY SugStep
<1>3. SugInv => DeclarationsAgree
  BY SugDeclares
<1> QED BY <1>1, <1>2, <1>3, PTL DEF SuggestSpec
=============================================================================
