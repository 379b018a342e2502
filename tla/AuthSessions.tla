---------------------------- MODULE AuthSessions ----------------------------
(***************************************************************************)
(* User accounts and login sessions: AuthService and UserService over the  *)
(* tables app_user and auth_refresh_session.  A session is a row of the    *)
(* second table together with the pair of tokens issued for it; refreshing *)
(* spends it and makes a successor in the same family.  Each method of the *)
(* two repositories is one transaction and one step, except those that     *)
(* guard the last administrator, where the locking read is a step of its   *)
(* own.  Anything may happen between two steps of a call.                  *)
(*                                                                         *)
(* Calls that are refused without a write (rate limit, bad token, wrong    *)
(* current password, locked account) change nothing and are left out, and  *)
(* so are display names, mail addresses and the password itself.           *)
(***************************************************************************)
EXTENDS Integers, FiniteSets

CONSTANTS
    Users,         \* user ids
    FirstAdmin,    \* the user that bootstrap_admin has created
    Sessions,      \* session ids; a family has the id of its first session
    FirstSession,  \* the session in which that user is logged in at the start
    OtherRoles,    \* the roles besides ADMIN: viewer, operator, reviewer
    Calls,         \* API calls; a call that has come to its end is not used again
    FailureLimit   \* failed logins that lock an account: 5 in the code

ASSUME UsersAssumption == IsFiniteSet(Users) /\ FirstAdmin \in Users
ASSUME SessionsAssumption == FirstSession \in Sessions
ASSUME LimitAssumption == FailureLimit \in Nat \ {0}

VARIABLES
    role,       \* AppUserModel.role, of no meaning while there is no row
    status,     \* AppUserModel.status, "NONE" while there is no row
    version,    \* AppUserModel.token_version
    failures,   \* AppUserModel.failed_login_count, up to the limit
    locked,     \* users whose locked_until is in the future
    row,        \* what a session was created with, never changed afterwards
    live,       \* sessions whose revoked_at is empty
    expired,    \* sessions whose expires_at is over
    pc,         \* where each call stands
    user,       \* the user each call is about
    token,      \* the session whose refresh token the call presents
    claim,      \* version and role that the call has read
    admins      \* the active administrators it has locked

userVars == <<role, status, version, failures, locked>>
sessionVars == <<row, live, expired>>
callVars == <<pc, user, token, claim, admins>>
vars == <<userVars, sessionVars, callVars>>

-----------------------------------------------------------------------------
(* Types *)

ActorRole == OtherRoles \cup {"ADMIN"}

UserStatus == {"ACTIVE", "DISABLED"}

Claim == [version : Nat, role : ActorRole]

NoClaim == [version |-> 0, role |-> "ADMIN"]

\* from is rotated_from_session_id, {} or a single session.
Row == [owner : Users, family : Sessions, from : SUBSET Sessions, claim : Claim]

NoRow == [family |-> {}]

Made == {s \in Sessions : row[s] # NoRow}

(* Where a call stands:                                                    *)
(*   success, failure     login has checked the password                   *)
(*   issue                about to create a session                        *)
(*   rotate               refresh has read the user                        *)
(*   family               refresh has met a spent token                    *)
(*   reused, bump         about to increment the token version             *)
(*   done, over           the end; over if a spent token was met           *)
(*   replace              change_password has checked the password         *)
(*   revokeIssue, revokeBump, revoke      about to end all of the user's   *)
(*                        sessions, and what comes after                   *)
(*   demote, disable      about to lock the administrators                 *)
(*   demoting, disabling  they are locked                                  *)
Working ==
    {"success", "failure", "issue", "rotate", "family", "reused", "bump", "replace", "revokeIssue",
     "revoke", "demote", "disable", "demoting", "disabling"}

ActiveAdmins == {u \in Users : role[u] = "ADMIN" /\ status[u] = "ACTIVE"}

-----------------------------------------------------------------------------
FirstRow ==
    [owner |-> FirstAdmin, family |-> FirstSession, from |-> {},
     claim |-> [version |-> 1, role |-> "ADMIN"]]

\* bootstrap_admin has run, and the administrator has logged in.
Init ==
    /\ role = [u \in Users |-> "ADMIN"]
    /\ status = [u \in Users |-> IF u = FirstAdmin THEN "ACTIVE" ELSE "NONE"]
    /\ version = [u \in Users |-> 1]
    /\ failures = [u \in Users |-> 0]
    /\ locked = {}
    /\ row = [s \in Sessions |-> IF s = FirstSession THEN FirstRow ELSE NoRow]
    /\ live = {FirstSession}
    /\ expired = {}
    /\ pc = [c \in Calls |-> "idle"]
    /\ user = [c \in Calls |-> FirstAdmin]
    /\ token = [c \in Calls |-> {}]
    /\ claim = [c \in Calls |-> NoClaim]
    /\ admins = [c \in Calls |-> {}]

-----------------------------------------------------------------------------
(* Steps *)

\* A call about user u begins and has l as its next step.
Begin(c, u, l) ==
    /\ pc[c] = "idle"
    /\ pc' = [pc EXCEPT ![c] = l]
    /\ user' = [user EXCEPT ![c] = u]

Goto(c, l) == pc' = [pc EXCEPT ![c] = l]

Step(c, from, to) == pc[c] = from /\ Goto(c, to)

Bump(u) == version' = [version EXCEPT ![u] = @ + 1]

Of(u) == {s \in Made : row[s].owner = u}

Family(f) == {s \in Made : row[s].family = f}

\* RefreshSessionRepository.create: a new row, with an id nobody has used.
NewSession(n, r) ==
    /\ row[n] = NoRow
    /\ row' = [row EXCEPT ![n] = r]

-----------------------------------------------------------------------------
(* login *)

\* by_normalized_username and the check of the password; a right password is of
\* no use to a user that is not ACTIVE.
LoginRead(c, u) ==
    /\ status[u] # "NONE"
    /\ u \notin locked
    /\ \/ Begin(c, u, "failure")
       \/ status[u] = "ACTIVE" /\ Begin(c, u, "success")
    /\ UNCHANGED <<userVars, sessionVars, token, claim, admins>>

\* record_login_failure.
LoginFailure(c) ==
    LET u == user[c]
        count == IF failures[u] < FailureLimit THEN failures[u] + 1 ELSE FailureLimit
    IN  /\ Step(c, "failure", "done")
        /\ failures' = [failures EXCEPT ![u] = count]
        /\ locked' = IF count = FailureLimit THEN locked \cup {u} ELSE locked
        /\ UNCHANGED <<role, status, version, sessionVars, user, token, claim, admins>>

\* record_login_success, which returns the row as it is now.
LoginSuccess(c) ==
    LET u == user[c]
    IN  /\ Step(c, "success", "issue")
        /\ failures' = [failures EXCEPT ![u] = 0]
        /\ locked' = locked \ {u}
        /\ claim' = [claim EXCEPT ![c] = [version |-> version[u], role |-> role[u]]]
        /\ UNCHANGED <<role, status, version, sessionVars, user, token, admins>>

\* _issue_pair: a session of a new family.
Issue(c) ==
    /\ Step(c, "issue", "done")
    /\ \E n \in Sessions :
          /\ NewSession(n, [owner |-> user[c], family |-> n, from |-> {}, claim |-> claim[c]])
          /\ live' = live \cup {n}
    /\ UNCHANGED <<userVars, expired, user, token, claim, admins>>

-----------------------------------------------------------------------------
(* refresh *)

\* The token is decoded and the user is read.
RefreshRead(c, s) ==
    /\ s \in Made \ expired
    /\ LET u == row[s].owner
       IN  /\ status[u] = "ACTIVE"
           /\ version[u] = row[s].claim.version
           /\ Begin(c, u, "rotate")
           /\ claim' = [claim EXCEPT ![c] = [version |-> version[u], role |-> role[u]]]
    /\ token' = [token EXCEPT ![c] = {s}]
    /\ UNCHANGED <<userVars, sessionVars, admins>>

\* The row of the successor of s.
Successor(c, s) ==
    [owner |-> user[c], family |-> row[s].family, from |-> {s}, claim |-> claim[c]]

\* Mutant: the spent row is not revoked.
RotateKeepsOld(c) ==
    /\ Step(c, "rotate", "done")
    /\ \E s \in token[c], n \in Sessions :
          /\ s \in live \ expired
          /\ NewSession(n, Successor(c, s))
          /\ live' = live \cup {n}
    /\ UNCHANGED <<userVars, expired, user, token, claim, admins>>

\* rotate: one transaction spends the session and creates its successor.
Rotate(c) ==
    /\ Step(c, "rotate", "done")
    /\ \E s \in token[c], n \in Sessions :
          /\ s \in live \ expired
          /\ NewSession(n, Successor(c, s))
          /\ live' = (live \ {s}) \cup {n}
    /\ UNCHANGED <<userVars, expired, user, token, claim, admins>>

\* The session has expired since the token was decoded.
RotateExpired(c) ==
    /\ Step(c, "rotate", "done")
    /\ token[c] \subseteq live \cap expired
    /\ UNCHANGED <<userVars, sessionVars, user, token, claim, admins>>

\* The session has been revoked, by a rotation or otherwise.
RotateReused(c) ==
    /\ Step(c, "rotate", "family")
    /\ token[c] \cap live = {}
    /\ UNCHANGED <<userVars, sessionVars, user, token, claim, admins>>

\* Mutant: only the session that was presented is revoked.
RevokeFamilyMember(c) ==
    /\ Step(c, "family", "reused")
    /\ live' = live \ token[c]
    /\ UNCHANGED <<userVars, row, expired, user, token, claim, admins>>

\* revoke_family.
RevokeFamily(c) ==
    /\ Step(c, "family", "reused")
    /\ live' = {t \in live : \A s \in token[c] : row[t].family # row[s].family}
    /\ UNCHANGED <<userVars, row, expired, user, token, claim, admins>>

\* increment_token_version, after reuse or after all sessions were revoked.
IncrementVersion(c) ==
    /\ Step(c, "bump", "done") \/ Step(c, "reused", "over")
    /\ Bump(user[c])
    /\ UNCHANGED <<role, status, failures, locked, sessionVars, user, token, claim, admins>>

-----------------------------------------------------------------------------
(* Passwords and logout *)

\* change_password, by a user that is logged in.
ChangePassword(c, u) ==
    /\ status[u] = "ACTIVE"
    /\ Begin(c, u, "replace")
    /\ UNCHANGED <<userVars, sessionVars, token, claim, admins>>

\* replace_password, which returns the row; then a new session is issued.
Replace(c) ==
    LET u == user[c]
    IN  /\ Step(c, "replace", "revokeIssue")
        /\ Bump(u)
        /\ claim' = [claim EXCEPT ![c] = [version |-> version[u] + 1, role |-> role[u]]]
        /\ UNCHANGED <<role, status, failures, locked, sessionVars, user, token, admins>>

\* reset_password, by an administrator.
ResetPassword(c, u) ==
    /\ status[u] # "NONE"
    /\ Begin(c, u, "revoke")
    /\ Bump(u)
    /\ UNCHANGED <<role, status, failures, locked, sessionVars, token, claim, admins>>

\* revoke_user.
RevokeUser(c) ==
    /\ Step(c, "revokeIssue", "issue") \/ Step(c, "revoke", "done")
    /\ live' = live \ Of(user[c])
    /\ UNCHANGED <<userVars, row, expired, user, token, claim, admins>>

\* logout_all and revoke_sessions: revoke_user, then increment_token_version.
RevokeSessions(c, u) ==
    /\ status[u] # "NONE"
    /\ Begin(c, u, "bump")
    /\ live' = live \ Of(u)
    /\ UNCHANGED <<userVars, row, expired, token, claim, admins>>

\* logout.
Logout(s) ==
    /\ s \in live
    /\ live' = live \ {s}
    /\ UNCHANGED <<userVars, row, expired, callVars>>

-----------------------------------------------------------------------------
(* Administration *)

\* create, by an administrator.
CreateUser(u, r) ==
    /\ status[u] = "NONE"
    /\ status' = [status EXCEPT ![u] = "ACTIVE"]
    /\ role' = [role EXCEPT ![u] = r]
    /\ UNCHANGED <<version, failures, locked, sessionVars, callVars>>

\* patch with the role admin; a user that has it already keeps its sessions.
Promote(c, u) ==
    /\ status[u] # "NONE"
    /\ role[u] # "ADMIN"
    /\ Begin(c, u, "revoke")
    /\ role' = [role EXCEPT ![u] = "ADMIN"]
    /\ Bump(u)
    /\ UNCHANGED <<status, failures, locked, sessionVars, token, claim, admins>>

\* patch with another role, and disable: an administrator who was active when
\* the call came in, and who is not u itself.
Demote(c, u) ==
    /\ status[u] # "NONE"
    /\ ActiveAdmins \ {u} # {}
    /\ Begin(c, u, "demote")
    /\ UNCHANGED <<userVars, sessionVars, token, claim, admins>>

Disable(c, u) ==
    /\ status[u] # "NONE"
    /\ ActiveAdmins \ {u} # {}
    /\ Begin(c, u, "disable")
    /\ UNCHANGED <<userVars, sessionVars, token, claim, admins>>

Locking == {c \in Calls : pc[c] \in {"demoting", "disabling"}}

\* Mutant: the administrators are read without FOR UPDATE.
LockAdminsUnlocked(c) ==
    /\ Step(c, "demote", "demoting") \/ Step(c, "disable", "disabling")
    /\ admins' = [admins EXCEPT ![c] = ActiveAdmins]
    /\ UNCHANGED <<userVars, sessionVars, user, token, claim>>

\* SELECT ... FOR UPDATE of the active administrators, which waits for whoever
\* holds them.  (It keeps other writes from those rows too; the model lets them
\* pass.)
LockAdmins(c) ==
    /\ Locking = {}
    /\ Step(c, "demote", "demoting") \/ Step(c, "disable", "disabling")
    /\ admins' = [admins EXCEPT ![c] = ActiveAdmins]
    /\ UNCHANGED <<userVars, sessionVars, user, token, claim>>

\* The user is an active administrator, and there is no other.
LastAdmin(c) == user[c] \in ActiveAdmins /\ Cardinality(admins[c]) <= 1

\* UserLastAdminProtectedError.
Protected(c) ==
    /\ Step(c, "demoting", "done") \/ Step(c, "disabling", "done")
    /\ LastAdmin(c)
    /\ UNCHANGED <<userVars, sessionVars, user, token, claim, admins>>

\* Mutant: the role changes and the tokens stay valid.
CommitRoleOnly(c) ==
    LET u == user[c]
    IN  \E r \in OtherRoles :
            /\ Step(c, "demoting", IF role[u] = r THEN "done" ELSE "revoke")
            /\ ~LastAdmin(c)
            /\ role' = [role EXCEPT ![u] = r]
            /\ UNCHANGED <<status, version, failures, locked, sessionVars, user, token, claim, admins>>

\* update_profile commits; a user that had the role keeps its sessions.
CommitRole(c) ==
    LET u == user[c]
    IN  \E r \in OtherRoles :
            /\ Step(c, "demoting", IF role[u] = r THEN "done" ELSE "revoke")
            /\ ~LastAdmin(c)
            /\ role' = [role EXCEPT ![u] = r]
            /\ version' = [version EXCEPT ![u] = IF role[u] = r THEN @ ELSE @ + 1]
            /\ UNCHANGED <<status, failures, locked, sessionVars, user, token, claim, admins>>

\* Mutant: disabling relies on revoke_user alone.
CommitDisableOnly(c) ==
    LET u == user[c]
    IN  /\ Step(c, "disabling", "revoke")
        /\ ~LastAdmin(c)
        /\ status' = [status EXCEPT ![u] = "DISABLED"]
        /\ UNCHANGED <<role, version, failures, locked, sessionVars, user, token, claim, admins>>

\* set_status commits.
CommitDisable(c) ==
    LET u == user[c]
    IN  /\ Step(c, "disabling", "revoke")
        /\ ~LastAdmin(c)
        /\ status' = [status EXCEPT ![u] = "DISABLED"]
        /\ version' = [version EXCEPT ![u] = IF status[u] = "DISABLED" THEN @ ELSE @ + 1]
        /\ UNCHANGED <<role, failures, locked, sessionVars, user, token, claim, admins>>

\* enable, by an administrator.
Enable(u) ==
    /\ status[u] = "DISABLED"
    /\ status' = [status EXCEPT ![u] = "ACTIVE"]
    /\ failures' = [failures EXCEPT ![u] = 0]
    /\ locked' = locked \ {u}
    /\ UNCHANGED <<role, version, sessionVars, callVars>>

-----------------------------------------------------------------------------
(* Time and failures *)

\* The fifteen minutes are over; the count of failures stays.
LockExpires(u) ==
    /\ u \in locked
    /\ locked' = locked \ {u}
    /\ UNCHANGED <<role, status, version, failures, sessionVars, callVars>>

Expire(s) ==
    /\ s \in Made \ expired
    /\ expired' = expired \cup {s}
    /\ UNCHANGED <<userVars, row, live, callVars>>

\* The next transaction raises, or the process dies: what has been committed
\* stays, and a lock is released.
Abandon(c) ==
    /\ pc[c] \in Working
    /\ Goto(c, "done")
    /\ UNCHANGED <<userVars, sessionVars, user, token, claim, admins>>

-----------------------------------------------------------------------------
Continue(c) ==
    \/ LoginFailure(c) \/ LoginSuccess(c) \/ Issue(c)
    \/ Rotate(c) \/ RotateExpired(c) \/ RotateReused(c)
    \/ RevokeFamily(c) \/ IncrementVersion(c)
    \/ Replace(c) \/ RevokeUser(c)
    \/ LockAdmins(c) \/ Protected(c) \/ CommitRole(c) \/ CommitDisable(c)

Start(c) ==
    \/ \E u \in Users :
          \/ LoginRead(c, u) \/ ChangePassword(c, u) \/ ResetPassword(c, u)
          \/ RevokeSessions(c, u) \/ Promote(c, u) \/ Demote(c, u) \/ Disable(c, u)
    \/ \E s \in Sessions : RefreshRead(c, s)

Next ==
    \/ \E c \in Calls : Start(c) \/ Continue(c) \/ Abandon(c)
    \/ \E u \in Users : Enable(u) \/ LockExpires(u) \/ \E r \in ActorRole : CreateUser(u, r)
    \/ \E s \in Sessions : Logout(s) \/ Expire(s)

Spec == Init /\ [][Next]_vars

-----------------------------------------------------------------------------
(* Properties *)

\* Every variable has its type, and only sessions that exist are live.
TypeOK ==
    /\ role \in [Users -> ActorRole]
    /\ status \in [Users -> UserStatus \cup {"NONE"}]
    /\ version \in [Users -> Nat]
    /\ failures \in [Users -> 0..FailureLimit]
    /\ locked \subseteq Users
    /\ row \in [Sessions -> Row \cup {NoRow}]
    /\ live \subseteq Made
    /\ expired \subseteq Made
    /\ pc \in [Calls -> Working \cup {"idle", "done", "over"}]
    /\ user \in [Calls -> Users]
    /\ token \in [Calls -> SUBSET Sessions]
    /\ claim \in [Calls -> Claim]
    /\ admins \in [Calls -> SUBSET Users]

\* There is always an active administrator, even if administrators demote and
\* disable each other at the same time.
AdminRemains == ActiveAdmins # {}

\* At most one session of a family is live, whatever refreshes race.
OneLivePerFamily ==
    \A s, t \in live : row[s].family = row[t].family => s = t

\* A session is spent once: two refreshes with one token do not both succeed.
SpentOnce ==
    \A s, t \in Made : row[s].from \cap row[t].from # {} => s = t

\* The tokens of the current version carry the current role, so that a role
\* change takes effect at once although refresh reads the user before it rotates.
VersionFixesRole ==
    \A s \in Made :
        row[s].claim.version = version[row[s].owner]
            => row[s].claim.role = role[row[s].owner]

\* A session that no later state can bring back.
Over(s) ==
    \/ s \notin live
    \/ s \in expired
    \/ row[s].claim.version # version[row[s].owner]

Usable(s) == ~Over(s) /\ status[row[s].owner] = "ACTIVE"

\* What is over stays over, and a session that stops being usable is over: one
\* that a disable has ended does not come back with enable, even if the disable
\* failed before it revoked the rows.
EndedStaysEnded ==
    [][\A s \in Made :
          /\ Over(s) => Over(s)'
          /\ Usable(s) => Usable(s)' \/ Over(s)']_vars

\* A spent token that is presented again ends its family for good, although the
\* rightful client may be refreshing at the same time.
ReuseEndsFamily ==
    \A c \in Calls :
        pc[c] \in {"reused", "over"} => \A s \in token[c], t \in live : row[s].family # row[t].family
=============================================================================
