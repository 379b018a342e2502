------------------------- MODULE AuthSessionsProofs -------------------------
(***************************************************************************)
(* Theorems about AuthSessions, for every finite set of users and any      *)
(* number of sessions, calls, roles and failed logins.                     *)
(***************************************************************************)
EXTENDS AuthSessions, FiniteSetTheorems, TLAPS

-----------------------------------------------------------------------------
(* Types *)

LEMMA NoRowIsNoRow == NoRow \notin Row
BY DEF Row, NoRow

\* A session that exists has a row of the right shape.
LEMMA MadeHasRow ==
    ASSUME TypeOK, NEW s \in Made
    PROVE  /\ s \in Sessions
           /\ row[s] \in Row
           /\ row[s].owner \in Users
           /\ row[s].family \in Sessions
           /\ row[s].from \subseteq Sessions
           /\ row[s].claim \in Claim
BY DEF TypeOK, Made, Row

\* A new row adds one session and leaves the others alone.
LEMMA NewRow ==
    ASSUME TypeOK, NEW n \in Sessions, NEW r \in Row, NewSession(n, r)
    PROVE  /\ row' \in [Sessions -> Row \cup {NoRow}]
           /\ n \notin Made
           /\ Made' = Made \cup {n}
           /\ row'[n] = r
           /\ \A s \in Made : row'[s] = row[s]
<1>1. row' \in [Sessions -> Row \cup {NoRow}] /\ row'[n] = r
  BY DEF NewSession, TypeOK
<1>2. r # NoRow
  BY NoRowIsNoRow
<1>3. n \notin Made /\ \A s \in Sessions \ {n} : row'[s] = row[s]
  BY DEF NewSession, TypeOK, Made
<1>4. Made' = Made \cup {n}
  BY <1>1, <1>2, <1>3 DEF Made
<1> QED
  BY <1>1, <1>3, <1>4 DEF Made

\* What a call has read has the type of a claim.
LEMMA ReadClaim ==
    ASSUME TypeOK, NEW u \in Users
    PROVE  /\ [version |-> version[u], role |-> role[u]] \in Claim
           /\ [version |-> version[u] + 1, role |-> role[u]] \in Claim
BY DEF TypeOK, Claim

LEMMA InitType == Init => TypeOK
<1> SUFFICES ASSUME Init PROVE TypeOK
  OBVIOUS
<1> USE UsersAssumption, SessionsAssumption, LimitAssumption DEF Init
<1>1. FirstRow \in Row
  BY DEF FirstRow, Row, Claim, ActorRole
<1>2. row \in [Sessions -> Row \cup {NoRow}]
  BY <1>1
<1>3. Made = {FirstSession}
  <2>1. FirstRow # NoRow
    BY <1>1, NoRowIsNoRow
  <2> QED
    BY <2>1 DEF Made
<1>4. NoClaim \in Claim
  BY DEF NoClaim, Claim, ActorRole
<1> QED
  BY <1>2, <1>3, <1>4 DEF TypeOK, UserStatus, ActorRole

LEMMA TypeStep == TypeOK /\ [Next]_vars => TypeOK'
<1> SUFFICES ASSUME TypeOK, [Next]_vars PROVE TypeOK'
  OBVIOUS
<1> USE LimitAssumption
    DEF userVars, sessionVars, callVars, Step, Goto, Begin, Working, ActorRole, UserStatus
<1>1. ASSUME NEW c \in Calls, Start(c) PROVE TypeOK'
  <2>1. ASSUME NEW u \in Users, LoginRead(c, u) PROVE TypeOK'
    BY <2>1 DEF LoginRead, TypeOK, Made
  <2>2. ASSUME NEW u \in Users, ChangePassword(c, u) PROVE TypeOK'
    BY <2>2 DEF ChangePassword, TypeOK, Made
  <2>3. ASSUME NEW u \in Users, ResetPassword(c, u) PROVE TypeOK'
    BY <2>3 DEF ResetPassword, Bump, TypeOK, Made
  <2>4. ASSUME NEW u \in Users, RevokeSessions(c, u) PROVE TypeOK'
    BY <2>4 DEF RevokeSessions, TypeOK, Made
  <2>5. ASSUME NEW u \in Users, Promote(c, u) PROVE TypeOK'
    BY <2>5 DEF Promote, Bump, TypeOK, Made
  <2>6. ASSUME NEW u \in Users, Demote(c, u) \/ Disable(c, u) PROVE TypeOK'
    BY <2>6 DEF Demote, Disable, TypeOK, Made
  <2>7. ASSUME NEW s \in Sessions, RefreshRead(c, s) PROVE TypeOK'
    <3>1. s \in Made /\ row[s].owner \in Users
      BY <2>7, MadeHasRow DEF RefreshRead
    <3>2. [version |-> version[row[s].owner], role |-> role[row[s].owner]] \in Claim
      BY <3>1, ReadClaim
    <3>3. claim' \in [Calls -> Claim]
      BY <2>7, <3>2 DEF RefreshRead, TypeOK
    <3>4. user' \in [Calls -> Users] /\ token' \in [Calls -> SUBSET Sessions]
      BY <2>7, <3>1 DEF RefreshRead, TypeOK
    <3>5. pc' \in [Calls -> Working \cup {"idle", "done", "over"}]
      BY <2>7 DEF RefreshRead, TypeOK
    <3> QED
      BY <2>7, <3>3, <3>4, <3>5 DEF RefreshRead, TypeOK, Made
  <2> QED
    BY <1>1, <2>1, <2>2, <2>3, <2>4, <2>5, <2>6, <2>7 DEF Start
<1>2. ASSUME NEW c \in Calls, Continue(c) PROVE TypeOK'
  <2>0. user[c] \in Users /\ claim[c] \in Claim /\ token[c] \subseteq Sessions
    BY DEF TypeOK
  <2>1. CASE LoginFailure(c)
    BY <2>0, <2>1 DEF LoginFailure, TypeOK, Made
  <2>2. CASE LoginSuccess(c)
    <3>1. claim' \in [Calls -> Claim]
      BY <2>0, <2>2, ReadClaim DEF LoginSuccess, TypeOK
    <3> QED
      BY <2>0, <2>2, <3>1 DEF LoginSuccess, TypeOK, Made
  <2>3. CASE Issue(c)
    <3> DEFINE r(n) == [owner |-> user[c], family |-> n, from |-> {}, claim |-> claim[c]]
    <3>1. PICK n \in Sessions : NewSession(n, r(n)) /\ live' = live \cup {n}
      BY <2>3 DEF Issue
    <3>2. r(n) \in Row
      BY <2>0 DEF Row
    <3> HIDE DEF r
    <3>3. row' \in [Sessions -> Row \cup {NoRow}] /\ Made' = Made \cup {n}
      BY <3>1, <3>2, NewRow
    <3> QED
      BY <2>3, <3>1, <3>3 DEF Issue, TypeOK
  <2>4. CASE Rotate(c)
    <3>1. PICK s \in token[c], n \in Sessions :
              /\ s \in live \ expired
              /\ NewSession(n, Successor(c, s))
              /\ live' = (live \ {s}) \cup {n}
      BY <2>4 DEF Rotate
    <3>2. s \in Made
      BY <3>1 DEF TypeOK
    <3>3. Successor(c, s) \in Row
      BY <2>0, <3>1, <3>2, MadeHasRow DEF Successor, Row
    <3>4. row' \in [Sessions -> Row \cup {NoRow}] /\ Made' = Made \cup {n}
      BY <3>1, <3>3, NewRow
    <3> QED
      BY <2>4, <3>1, <3>4 DEF Rotate, TypeOK
  <2>5. CASE RotateExpired(c) \/ RotateReused(c)
    BY <2>5 DEF RotateExpired, RotateReused, TypeOK, Made
  <2>6. CASE RevokeFamily(c)
    BY <2>6 DEF RevokeFamily, TypeOK, Made
  <2>7. CASE IncrementVersion(c)
    BY <2>0, <2>7 DEF IncrementVersion, Bump, TypeOK, Made
  <2>8. CASE Replace(c)
    <3>1. claim' \in [Calls -> Claim]
      BY <2>0, <2>8, ReadClaim DEF Replace, TypeOK
    <3> QED
      BY <2>0, <2>8, <3>1 DEF Replace, Bump, TypeOK, Made
  <2>9. CASE RevokeUser(c)
    BY <2>9 DEF RevokeUser, TypeOK, Made
  <2>10. CASE LockAdmins(c)
    BY <2>10 DEF LockAdmins, ActiveAdmins, TypeOK, Made
  <2>11. CASE Protected(c)
    BY <2>11 DEF Protected, TypeOK, Made
  <2>12. CASE CommitRole(c)
    BY <2>0, <2>12 DEF CommitRole, TypeOK, Made
  <2>13. CASE CommitDisable(c)
    BY <2>0, <2>13 DEF CommitDisable, TypeOK, Made
  <2> QED
    BY <1>2, <2>1, <2>2, <2>3, <2>4, <2>5, <2>6, <2>7, <2>8, <2>9, <2>10, <2>11, <2>12, <2>13
    DEF Continue
<1>3. ASSUME NEW c \in Calls, Abandon(c) PROVE TypeOK'
  BY <1>3 DEF Abandon, TypeOK, Made
<1>4. ASSUME NEW u \in Users, Enable(u) \/ LockExpires(u) PROVE TypeOK'
  BY <1>4 DEF Enable, LockExpires, TypeOK, Made
<1>5. ASSUME NEW u \in Users, NEW r \in ActorRole, CreateUser(u, r) PROVE TypeOK'
  BY <1>5 DEF CreateUser, TypeOK, Made
<1>6. ASSUME NEW s \in Sessions, Logout(s) \/ Expire(s) PROVE TypeOK'
  BY <1>6 DEF Logout, Expire, TypeOK, Made
<1>7. CASE UNCHANGED vars
  BY <1>7 DEF vars, TypeOK, Made
<1> QED
  BY <1>1, <1>2, <1>3, <1>4, <1>5, <1>6, <1>7 DEF Next

\* The variables of AuthSessions keep their types, and only rows that exist are
\* live or expire.
THEOREM TypeCorrect == Spec => []TypeOK
BY InitType, TypeStep, PTL DEF Spec

-----------------------------------------------------------------------------
(* How a step changes users and sessions *)

\* A user stays and its version does not go down; a new role and the end of ACTIVE
\* come with a new version.
Grows(u) ==
    /\ status'[u] # "NONE"
    /\ version'[u] >= version[u]
    /\ role'[u] # role[u] => version'[u] > version[u]
    /\ status[u] = "ACTIVE" /\ status'[u] # "ACTIVE" => version'[u] > version[u]

LEMMA UserStep ==
    ASSUME TypeOK, [Next]_vars, NEW u \in Users, status[u] # "NONE"
    PROVE  Grows(u)
<1>0. /\ status \in [Users -> UserStatus \cup {"NONE"}]
      /\ role \in [Users -> ActorRole]
      /\ version \in [Users -> Nat]
      /\ user \in [Calls -> Users]
  BY DEF TypeOK
<1> USE <1>0 DEF Grows, userVars, sessionVars, callVars
<1>1. ASSUME NEW c \in Calls, Start(c) PROVE Grows(u)
  <2>1. ASSUME NEW w \in Users, LoginRead(c, w) \/ ChangePassword(c, w) \/ RevokeSessions(c, w)
                                \/ Demote(c, w) \/ Disable(c, w)
        PROVE  Grows(u)
    BY <2>1 DEF LoginRead, ChangePassword, RevokeSessions, Demote, Disable
  <2>2. ASSUME NEW w \in Users, ResetPassword(c, w) PROVE Grows(u)
    BY <2>2 DEF ResetPassword, Bump
  <2>3. ASSUME NEW w \in Users, Promote(c, w) PROVE Grows(u)
    BY <2>3 DEF Promote, Bump
  <2>4. ASSUME NEW s \in Sessions, RefreshRead(c, s) PROVE Grows(u)
    BY <2>4 DEF RefreshRead
  <2> QED
    BY <1>1, <2>1, <2>2, <2>3, <2>4 DEF Start
<1>2. ASSUME NEW c \in Calls, Continue(c) PROVE Grows(u)
  <2>1. CASE IncrementVersion(c)
    BY <2>1 DEF IncrementVersion, Bump
  <2>2. CASE Replace(c)
    BY <2>2 DEF Replace, Bump
  <2>3. CASE CommitRole(c)
    BY <2>3 DEF CommitRole
  <2>4. CASE CommitDisable(c)
    BY <2>4 DEF CommitDisable
  <2>5. CASE UNCHANGED <<role, status, version>>
    BY <2>5
  <2> QED
    BY <1>2, <2>1, <2>2, <2>3, <2>4, <2>5
    DEF Continue, LoginFailure, LoginSuccess, Issue, Rotate, RotateExpired, RotateReused,
        RevokeFamily, RevokeUser, LockAdmins, Protected
<1>3. ASSUME NEW c \in Calls, Abandon(c) PROVE Grows(u)
  BY <1>3 DEF Abandon
<1>4. ASSUME NEW w \in Users, Enable(w) \/ LockExpires(w) PROVE Grows(u)
  BY <1>4 DEF Enable, LockExpires
<1>5. ASSUME NEW w \in Users, NEW r \in ActorRole, CreateUser(w, r) PROVE Grows(u)
  BY <1>5 DEF CreateUser
<1>6. ASSUME NEW s \in Sessions, Logout(s) \/ Expire(s) PROVE Grows(u)
  BY <1>6 DEF Logout, Expire
<1>7. CASE UNCHANGED vars
  BY <1>7 DEF vars
<1> HIDE DEF Grows
<1> QED
  BY <1>1, <1>2, <1>3, <1>4, <1>5, <1>6, <1>7 DEF Next

\* A step that neither makes a session nor presents a token nor ends a family.
Quiet ==
    /\ row' = row
    /\ live' \subseteq live
    /\ expired \subseteq expired'
    /\ token' = token
    /\ \A c \in Calls : pc'[c] \in {"reused", "over"} => pc[c] \in {"reused", "over"}

LEMMA MostStepsAreQuiet ==
    ASSUME TypeOK, [Next]_vars,
           \A c \in Calls : ~Issue(c) /\ ~Rotate(c) /\ ~RevokeFamily(c),
           \A c \in Calls, s \in Sessions : ~RefreshRead(c, s)
    PROVE  Quiet
<1>0. pc \in [Calls -> Working \cup {"idle", "done", "over"}]
  BY DEF TypeOK
<1> USE <1>0 DEF userVars, sessionVars, callVars, Quiet, Begin, Step, Goto
<1>1. ASSUME NEW c \in Calls, Start(c) PROVE Quiet
  BY <1>1 DEF Start, LoginRead, ChangePassword, ResetPassword, RevokeSessions, Promote, Demote,
              Disable
<1>2. ASSUME NEW c \in Calls, Continue(c) PROVE Quiet
  <2>1. CASE LoginFailure(c) \/ LoginSuccess(c) \/ RotateExpired(c) \/ RotateReused(c)
    BY <2>1 DEF LoginFailure, LoginSuccess, RotateExpired, RotateReused
  <2>2. CASE IncrementVersion(c) \/ Replace(c) \/ RevokeUser(c)
    BY <2>2 DEF IncrementVersion, Replace, RevokeUser
  <2>3. CASE LockAdmins(c) \/ Protected(c) \/ CommitDisable(c)
    BY <2>3 DEF LockAdmins, Protected, CommitDisable
  <2>4. CASE CommitRole(c)
    BY <2>4 DEF CommitRole
  <2> QED
    BY <1>2, <2>1, <2>2, <2>3, <2>4 DEF Continue
<1>3. ASSUME NEW c \in Calls, Abandon(c) PROVE Quiet
  BY <1>3 DEF Abandon
<1>4. ASSUME NEW w \in Users, Enable(w) \/ LockExpires(w) PROVE Quiet
  BY <1>4 DEF Enable, LockExpires
<1>5. ASSUME NEW w \in Users, NEW r \in ActorRole, CreateUser(w, r) PROVE Quiet
  BY <1>5 DEF CreateUser
<1>6. ASSUME NEW s \in Sessions, Logout(s) \/ Expire(s) PROVE Quiet
  BY <1>6 DEF Logout, Expire
<1>7. CASE UNCHANGED vars
  BY <1>7 DEF vars
<1> HIDE DEF Quiet
<1> QED
  BY <1>1, <1>2, <1>3, <1>4, <1>5, <1>6, <1>7 DEF Next

\* What Issue does to the tables.
LEMMA IssueStep ==
    ASSUME TypeOK, NEW c \in Calls, Issue(c)
    PROVE  \E n \in Sessions \ Made :
              /\ Made' = Made \cup {n}
              /\ row'[n] = [owner |-> user[c], family |-> n, from |-> {}, claim |-> claim[c]]
              /\ \A s \in Made : row'[s] = row[s]
              /\ live' = live \cup {n}
<1> DEFINE r(n) == [owner |-> user[c], family |-> n, from |-> {}, claim |-> claim[c]]
<1>1. PICK n \in Sessions : NewSession(n, r(n)) /\ live' = live \cup {n}
  BY DEF Issue
<1>2. r(n) \in Row
  BY DEF Row, TypeOK
<1> HIDE DEF r
<1>3. /\ n \notin Made /\ Made' = Made \cup {n} /\ row'[n] = r(n)
      /\ \A s \in Made : row'[s] = row[s]
  BY <1>1, <1>2, NewRow
<1> USE DEF r
<1> QED
  BY <1>1, <1>3

\* What Rotate does to the tables.
LEMMA RotateStep ==
    ASSUME TypeOK, NEW c \in Calls, Rotate(c)
    PROVE  \E s \in live \cap token[c], n \in Sessions \ Made :
              /\ Made' = Made \cup {n}
              /\ row'[n] = [owner |-> user[c], family |-> row[s].family, from |-> {s},
                            claim |-> claim[c]]
              /\ \A t \in Made : row'[t] = row[t]
              /\ live' = (live \ {s}) \cup {n}
<1>1. PICK s \in token[c], n \in Sessions :
          /\ s \in live \ expired
          /\ NewSession(n, Successor(c, s))
          /\ live' = (live \ {s}) \cup {n}
  BY DEF Rotate
<1>2. s \in Made
  BY <1>1 DEF TypeOK
<1>3. user[c] \in Users /\ claim[c] \in Claim
  BY DEF TypeOK
<1>4. Successor(c, s) \in Row
  BY <1>1, <1>2, <1>3, MadeHasRow DEF Successor, Row
<1>5. /\ n \notin Made /\ Made' = Made \cup {n} /\ row'[n] = Successor(c, s)
      /\ \A t \in Made : row'[t] = row[t]
  BY <1>1, <1>4, NewRow
<1> QED
  BY <1>1, <1>5 DEF Successor

\* A session that exists keeps its row, and what is revoked or expired stays so.
LEMMA RowsStay ==
    ASSUME TypeOK, [Next]_vars, NEW s \in Made
    PROVE  /\ s \in Made'
           /\ row'[s] = row[s]
           /\ s \in live' => s \in live
           /\ s \in expired => s \in expired'
<1>1. ASSUME NEW c \in Calls, Issue(c)
      PROVE  s \in Made' /\ row'[s] = row[s] /\ (s \in live' => s \in live) /\ expired' = expired
  <2>1. expired' = expired
    BY <1>1 DEF Issue
  <2> QED
    BY <1>1, <2>1, IssueStep
<1>2. ASSUME NEW c \in Calls, Rotate(c)
      PROVE  s \in Made' /\ row'[s] = row[s] /\ (s \in live' => s \in live) /\ expired' = expired
  <2>1. expired' = expired
    BY <1>2 DEF Rotate
  <2> QED
    BY <1>2, <2>1, RotateStep
<1>3. ASSUME NEW c \in Calls, RevokeFamily(c)
      PROVE  row' = row /\ live' \subseteq live /\ expired' = expired
  BY <1>3 DEF RevokeFamily
<1>4. ASSUME NEW c \in Calls, NEW t \in Sessions, RefreshRead(c, t)
      PROVE  row' = row /\ live' = live /\ expired' = expired
  BY <1>4 DEF RefreshRead, sessionVars
<1>5. CASE Quiet
  BY <1>5 DEF Quiet, Made
<1> QED
  BY <1>1, <1>2, <1>3, <1>4, <1>5, MostStepsAreQuiet DEF Made

-----------------------------------------------------------------------------
(* Families *)

\* The first session of a family exists, a session that has a successor is not
\* live, and tokens that are presented belong to sessions that exist.
Lineage ==
    /\ \A s \in Made : row[s].family \in Made /\ row[s].from \subseteq Made \ live
    /\ \A c \in Calls : token[c] \subseteq Made

FamilyFacts == OneLivePerFamily /\ SpentOnce /\ ReuseEndsFamily /\ Lineage

FamilyInv == TypeOK /\ FamilyFacts

LEMMA InitFamily == Init => FamilyInv
<1> SUFFICES ASSUME Init PROVE FamilyInv
  OBVIOUS
<1>1. TypeOK
  BY InitType
<1>2. FirstSession \in Sessions /\ row[FirstSession] = FirstRow
  BY SessionsAssumption DEF Init
<1>3. Made = {FirstSession}
  BY <1>1, <1>2, MadeHasRow, SessionsAssumption DEF Init, Made, TypeOK
<1>4. FirstRow.family = FirstSession /\ FirstRow.from = {}
  BY DEF FirstRow
<1> QED
  BY <1>1, <1>2, <1>3, <1>4
  DEF Init, FamilyInv, FamilyFacts, OneLivePerFamily, SpentOnce, ReuseEndsFamily, Lineage

\* Issue opens a family of its own.
LEMMA IssueFamily ==
    ASSUME FamilyInv, NEW c \in Calls, Issue(c)
    PROVE  OneLivePerFamily' /\ SpentOnce' /\ ReuseEndsFamily' /\ Lineage'
<1> USE DEF FamilyInv, FamilyFacts
<1>1. PICK n \in Sessions \ Made :
          /\ Made' = Made \cup {n}
          /\ row'[n] = [owner |-> user[c], family |-> n, from |-> {}, claim |-> claim[c]]
          /\ \A s \in Made : row'[s] = row[s]
          /\ live' = live \cup {n}
  BY IssueStep
<1>2. row'[n].family = n /\ row'[n].from = {}
  BY <1>1
<1>3. live \subseteq Made
  BY DEF TypeOK
<1>4. token' = token /\ \A d \in Calls : pc'[d] \in {"reused", "over"} => pc[d] \in {"reused", "over"}
  BY DEF Issue, Step, Goto, TypeOK
<1>5. Lineage'
  BY <1>1, <1>2, <1>3, <1>4 DEF Lineage
<1>6. OneLivePerFamily'
  BY <1>1, <1>2, <1>3 DEF OneLivePerFamily, Lineage
<1>7. SpentOnce'
  BY <1>1, <1>2 DEF SpentOnce
<1>8. ReuseEndsFamily'
  BY <1>1, <1>2, <1>3, <1>4 DEF ReuseEndsFamily, Lineage
<1> QED
  BY <1>5, <1>6, <1>7, <1>8

\* Rotate replaces the live session of its family by another one.
LEMMA RotateFamilyStep ==
    ASSUME FamilyInv, NEW c \in Calls, Rotate(c)
    PROVE  OneLivePerFamily' /\ SpentOnce' /\ ReuseEndsFamily' /\ Lineage'
<1> USE DEF FamilyInv, FamilyFacts
<1>1. PICK s \in live \cap token[c], n \in Sessions \ Made :
          /\ Made' = Made \cup {n}
          /\ row'[n] = [owner |-> user[c], family |-> row[s].family, from |-> {s},
                        claim |-> claim[c]]
          /\ \A t \in Made : row'[t] = row[t]
          /\ live' = (live \ {s}) \cup {n}
  BY RotateStep
<1>2. row'[n].family = row[s].family /\ row'[n].from = {s}
  BY <1>1
<1>3. live \subseteq Made /\ s \in Made
  BY <1>1 DEF TypeOK
<1>4. token' = token /\ \A d \in Calls : pc'[d] \in {"reused", "over"} => pc[d] \in {"reused", "over"}
  BY DEF Rotate, Step, Goto, TypeOK
<1>5. Lineage'
  BY <1>1, <1>2, <1>3, <1>4 DEF Lineage
<1>6. OneLivePerFamily'
  BY <1>1, <1>2, <1>3 DEF OneLivePerFamily
<1>7. SpentOnce'
  BY <1>1, <1>2, <1>3 DEF SpentOnce, Lineage
<1>8. ReuseEndsFamily'
  BY <1>1, <1>2, <1>3, <1>4 DEF ReuseEndsFamily, Lineage
<1> QED
  BY <1>5, <1>6, <1>7, <1>8

LEMMA FamilyStep == FamilyInv /\ [Next]_vars => FamilyInv'
<1> SUFFICES ASSUME FamilyInv, [Next]_vars PROVE FamilyInv'
  OBVIOUS
<1>0. TypeOK /\ TypeOK'
  BY TypeStep DEF FamilyInv
<1>1. ASSUME NEW c \in Calls, RevokeFamily(c) PROVE FamilyFacts'
  <2>1. /\ row' = row /\ token' = token /\ Made' = Made
        /\ live' = {t \in live : \A s \in token[c] : row[t].family # row[s].family}
        /\ \A d \in Calls \ {c} : pc'[d] = pc[d]
    BY <1>0, <1>1 DEF RevokeFamily, Step, Goto, Made, TypeOK
  <2>2. ReuseEndsFamily'
    BY <2>1 DEF FamilyInv, FamilyFacts, ReuseEndsFamily
  <2> QED
    BY <2>1, <2>2 DEF FamilyInv, FamilyFacts, OneLivePerFamily, SpentOnce, Lineage
<1>2. ASSUME NEW c \in Calls, NEW s \in Sessions, RefreshRead(c, s) PROVE FamilyFacts'
  <2>1. /\ row' = row /\ live' = live /\ Made' = Made /\ s \in Made
        /\ token' = [token EXCEPT ![c] = {s}]
        /\ pc' = [pc EXCEPT ![c] = "rotate"]
    BY <1>2 DEF RefreshRead, Begin, sessionVars, Made
  <2>2. ReuseEndsFamily'
    BY <1>0, <2>1 DEF FamilyInv, FamilyFacts, ReuseEndsFamily, TypeOK
  <2>3. Lineage'
    BY <1>0, <2>1 DEF FamilyInv, FamilyFacts, Lineage, TypeOK
  <2> QED
    BY <2>1, <2>2, <2>3 DEF FamilyInv, FamilyFacts, OneLivePerFamily, SpentOnce
<1>3. ASSUME Quiet PROVE FamilyFacts'
  <2>1. Made' = Made
    BY <1>3 DEF Quiet, Made
  <2> QED
    <3>1. OneLivePerFamily' /\ SpentOnce'
      BY <1>3, <2>1 DEF Quiet, FamilyInv, FamilyFacts, OneLivePerFamily, SpentOnce
    <3>2. ReuseEndsFamily'
      BY <1>3 DEF Quiet, FamilyInv, FamilyFacts, ReuseEndsFamily
    <3>3. Lineage'
      BY <1>3, <2>1 DEF Quiet, FamilyInv, FamilyFacts, Lineage
    <3> QED
      BY <3>1, <3>2, <3>3 DEF FamilyFacts
<1>4. ASSUME NEW c \in Calls, Issue(c) \/ Rotate(c) PROVE FamilyFacts'
  BY <1>4, IssueFamily, RotateFamilyStep DEF FamilyFacts
<1>5. FamilyFacts'
  BY <1>0, <1>1, <1>2, <1>3, <1>4, MostStepsAreQuiet
<1> QED
  BY <1>0, <1>5 DEF FamilyInv

LEMMA FamilyCorrect == Spec => []FamilyInv
BY InitFamily, FamilyStep, PTL DEF Spec

\* rotate never leaves two live sessions in a family.
THEOREM OneLive == Spec => []OneLivePerFamily
<1>1. FamilyInv => OneLivePerFamily
  BY DEF FamilyInv, FamilyFacts
<1> QED
  BY FamilyCorrect, <1>1, PTL

\* A refresh token is redeemed at most once.
THEOREM TokensAreSpentOnce == Spec => []SpentOnce
<1>1. FamilyInv => SpentOnce
  BY DEF FamilyInv, FamilyFacts
<1> QED
  BY FamilyCorrect, <1>1, PTL

\* Once refresh has met a spent token and revoked its family, no session of the
\* family is live again.
THEOREM ReuseIsFinal == Spec => []ReuseEndsFamily
<1>1. FamilyInv => ReuseEndsFamily
  BY DEF FamilyInv, FamilyFacts
<1> QED
  BY FamilyCorrect, <1>1, PTL

-----------------------------------------------------------------------------
(* Versions *)

\* Version and role k of user u are what the row has, or older.
Current(k, u) ==
    /\ status[u] # "NONE"
    /\ k.version <= version[u]
    /\ k.version = version[u] => k.role = role[u]

VersionFacts ==
    /\ \A s \in Made : Current(row[s].claim, row[s].owner)
    /\ \A c \in Calls : pc[c] \in Working => status[user[c]] # "NONE"
    /\ \A c \in Calls : pc[c] \in {"issue", "rotate", "revokeIssue"} => Current(claim[c], user[c])

VersionInv == TypeOK /\ VersionFacts

LEMMA InitVersion == Init => VersionInv
<1> SUFFICES ASSUME Init PROVE VersionInv
  OBVIOUS
<1>1. TypeOK
  BY InitType
<1>2. \A s \in Made : row[s] = FirstRow
  BY DEF Init, Made
<1>3. Current(FirstRow.claim, FirstRow.owner)
  BY UsersAssumption DEF Init, FirstRow, Current
<1> QED
  BY <1>1, <1>2, <1>3 DEF Init, VersionInv, VersionFacts, Working

\* What was current or older remains so.
LEMMA CurrentStays ==
    ASSUME TypeOK, TypeOK', [Next]_vars, NEW k \in Claim, NEW u \in Users, Current(k, u)
    PROVE  Current(k, u)'
<1>1. Grows(u)
  BY UserStep DEF Current
<1>2. k.version \in Nat /\ version[u] \in Nat /\ version'[u] \in Nat
  BY DEF Claim, TypeOK
<1> QED
  BY <1>1, <1>2 DEF Grows, Current

\* A call that has begun keeps its user; one that is about to issue or rotate
\* keeps what it has read, or has just read it.
LEMMA ClaimStep ==
    ASSUME TypeOK, [Next]_vars, NEW c \in Calls
    PROVE  /\ pc[c] \in Working => user'[c] = user[c]
           /\ pc'[c] \in Working /\ pc[c] \notin Working => status[user'[c]] # "NONE"
           /\ pc'[c] \in {"issue", "rotate", "revokeIssue"} =>
                  \/ /\ pc[c] \in {"issue", "rotate", "revokeIssue"}
                     /\ claim'[c] = claim[c]
                     /\ user'[c] = user[c]
                  \/ claim'[c] = [version |-> version'[user'[c]], role |-> role'[user'[c]]]
<1> DEFINE Kept ==
        /\ pc[c] \in Working => user'[c] = user[c]
        /\ pc'[c] \in Working /\ pc[c] \notin Working => status[user'[c]] # "NONE"
        /\ pc'[c] \in {"issue", "rotate", "revokeIssue"} =>
               \/ /\ pc[c] \in {"issue", "rotate", "revokeIssue"}
                  /\ claim'[c] = claim[c]
                  /\ user'[c] = user[c]
               \/ claim'[c] = [version |-> version'[user'[c]], role |-> role'[user'[c]]]
<1>0. /\ pc \in [Calls -> Working \cup {"idle", "done", "over"}]
      /\ user \in [Calls -> Users]
      /\ claim \in [Calls -> Claim]
      /\ version \in [Users -> Nat]
      /\ role \in [Users -> ActorRole]
  BY DEF TypeOK
<1> USE <1>0 DEF userVars, sessionVars, callVars, Begin, Step, Goto, Working
<1>1. ASSUME NEW d \in Calls, Start(d) PROVE Kept
  <2>1. ASSUME NEW u \in Users, LoginRead(d, u) \/ ChangePassword(d, u) PROVE Kept
    BY <2>1 DEF LoginRead, ChangePassword
  <2>2. ASSUME NEW u \in Users, ResetPassword(d, u) \/ RevokeSessions(d, u) \/ Promote(d, u)
        PROVE  Kept
    BY <2>2 DEF ResetPassword, RevokeSessions, Promote
  <2>3. ASSUME NEW u \in Users, Demote(d, u) \/ Disable(d, u) PROVE Kept
    BY <2>3 DEF Demote, Disable
  <2>4. ASSUME NEW s \in Sessions, RefreshRead(d, s) PROVE Kept
    <3>1. row[s].owner \in Users
      BY <2>4, MadeHasRow DEF RefreshRead
    <3> QED
      BY <2>4, <3>1 DEF RefreshRead
  <2> QED
    BY <1>1, <2>1, <2>2, <2>3, <2>4 DEF Start
<1>2. ASSUME NEW d \in Calls, Continue(d) PROVE Kept
  <2>1. CASE LoginFailure(d) \/ Issue(d) \/ Rotate(d) \/ RotateExpired(d) \/ RotateReused(d)
    BY <2>1 DEF LoginFailure, Issue, Rotate, RotateExpired, RotateReused
  <2>2. CASE LoginSuccess(d)
    BY <2>2 DEF LoginSuccess
  <2>3. CASE Replace(d)
    BY <2>3 DEF Replace, Bump
  <2>4. CASE RevokeFamily(d) \/ IncrementVersion(d) \/ RevokeUser(d)
    BY <2>4 DEF RevokeFamily, IncrementVersion, RevokeUser
  <2>5. CASE LockAdmins(d) \/ Protected(d) \/ CommitDisable(d)
    BY <2>5 DEF LockAdmins, Protected, CommitDisable
  <2>6. CASE CommitRole(d)
    BY <2>6 DEF CommitRole
  <2> QED
    BY <1>2, <2>1, <2>2, <2>3, <2>4, <2>5, <2>6 DEF Continue
<1>3. ASSUME NEW d \in Calls, Abandon(d) PROVE Kept
  BY <1>3 DEF Abandon
<1>4. ASSUME NEW u \in Users, Enable(u) \/ LockExpires(u) PROVE Kept
  BY <1>4 DEF Enable, LockExpires
<1>5. ASSUME NEW u \in Users, NEW r \in ActorRole, CreateUser(u, r) PROVE Kept
  BY <1>5 DEF CreateUser
<1>6. ASSUME NEW s \in Sessions, Logout(s) \/ Expire(s) PROVE Kept
  BY <1>6 DEF Logout, Expire
<1>7. ASSUME UNCHANGED vars PROVE Kept
  BY <1>7 DEF vars
<1>8. Kept
  <2> HIDE DEF Kept
  <2> QED
    BY <1>1, <1>2, <1>3, <1>4, <1>5, <1>6, <1>7 DEF Next
<1> QED
  BY <1>8

LEMMA VersionStep == VersionInv /\ [Next]_vars => VersionInv'
<1> SUFFICES ASSUME VersionInv, [Next]_vars PROVE VersionInv'
  OBVIOUS
<1>0. TypeOK /\ TypeOK' /\ VersionFacts
  BY TypeStep DEF VersionInv
<1>1. \A c \in Calls : pc'[c] \in Working => status'[user'[c]] # "NONE"
  <2> SUFFICES ASSUME NEW c \in Calls, pc'[c] \in Working PROVE status'[user'[c]] # "NONE"
    OBVIOUS
  <2>1. status[user'[c]] # "NONE" /\ user'[c] \in Users
    BY <1>0, ClaimStep DEF VersionFacts, TypeOK
  <2> QED
    BY <1>0, <2>1, UserStep DEF Grows
<1>2. \A c \in Calls :
          pc'[c] \in {"issue", "rotate", "revokeIssue"} => Current(claim[c], user[c])'
  <2> SUFFICES ASSUME NEW c \in Calls, pc'[c] \in {"issue", "rotate", "revokeIssue"}
               PROVE  Current(claim[c], user[c])'
    OBVIOUS
  <2>1. /\ claim[c] \in Claim /\ user[c] \in Users /\ user'[c] \in Users
        /\ version'[user'[c]] \in Nat
    BY <1>0 DEF TypeOK
  <2>2. CASE /\ pc[c] \in {"issue", "rotate", "revokeIssue"}
             /\ claim'[c] = claim[c]
             /\ user'[c] = user[c]
    BY <1>0, <2>1, <2>2, CurrentStays DEF VersionFacts, Current
  <2>3. CASE claim'[c] = [version |-> version'[user'[c]], role |-> role'[user'[c]]]
    BY <1>1, <2>1, <2>3 DEF Current, Working
  <2> QED
    BY <1>0, <2>2, <2>3, ClaimStep
<1>3. \A s \in Made' : Current(row[s].claim, row[s].owner)'
  <2>1. ASSUME NEW s \in Made PROVE Current(row[s].claim, row[s].owner)'
    <3>1. row'[s] = row[s] /\ row[s].claim \in Claim /\ row[s].owner \in Users
      BY <1>0, RowsStay, MadeHasRow
    <3>2. Current(row[s].claim, row[s].owner)
      BY <1>0 DEF VersionFacts
    <3> QED
      BY <1>0, <3>1, <3>2, CurrentStays DEF Current
  <2>2. ASSUME NEW c \in Calls, Issue(c) \/ Rotate(c)
        PROVE  \E n \in Sessions :
                  /\ Made' = Made \cup {n}
                  /\ row'[n].claim = claim[c] /\ row'[n].owner = user[c]
                  /\ Current(claim[c], user[c])
    <3>1. Current(claim[c], user[c])
      BY <1>0, <2>2 DEF Issue, Rotate, Step, VersionFacts
    <3>2. CASE Issue(c)
      <4>1. PICK n \in Sessions \ Made :
                /\ Made' = Made \cup {n}
                /\ row'[n] = [owner |-> user[c], family |-> n, from |-> {}, claim |-> claim[c]]
        BY <1>0, <3>2, IssueStep
      <4> QED
        BY <3>1, <4>1
    <3>3. CASE Rotate(c)
      <4>1. PICK s \in live \cap token[c], n \in Sessions \ Made :
                /\ Made' = Made \cup {n}
                /\ row'[n] = [owner |-> user[c], family |-> row[s].family, from |-> {s},
                              claim |-> claim[c]]
        BY <1>0, <3>3, RotateStep
      <4> QED
        BY <3>1, <4>1
    <3> QED
      BY <2>2, <3>2, <3>3
  <2>3. ASSUME NEW c \in Calls, Issue(c) \/ Rotate(c), NEW s \in Made'
        PROVE  Current(row[s].claim, row[s].owner)'
    <3>1. PICK n \in Sessions :
              /\ Made' = Made \cup {n}
              /\ row'[n].claim = claim[c] /\ row'[n].owner = user[c]
              /\ Current(claim[c], user[c])
      BY <2>2, <2>3
    <3>2. claim[c] \in Claim /\ user[c] \in Users
      BY <1>0 DEF TypeOK
    <3> QED
      BY <1>0, <2>1, <3>1, <3>2, CurrentStays DEF Current
  <2>4. ASSUME \A c \in Calls : ~Issue(c) /\ ~Rotate(c) PROVE Made' = Made
    <3>1. ASSUME NEW c \in Calls, RevokeFamily(c) PROVE row' = row
      BY <3>1 DEF RevokeFamily
    <3>2. ASSUME NEW c \in Calls, NEW s \in Sessions, RefreshRead(c, s) PROVE row' = row
      BY <3>2 DEF RefreshRead, sessionVars
    <3>3. row' = row
      BY <1>0, <2>4, <3>1, <3>2, MostStepsAreQuiet DEF Quiet
    <3> QED
      BY <3>3 DEF Made
  <2> QED
    BY <2>1, <2>3, <2>4
<1> QED
  BY <1>0, <1>1, <1>2, <1>3 DEF VersionInv, VersionFacts

LEMMA VersionCorrect == Spec => []VersionInv
BY InitVersion, VersionStep, PTL DEF Spec

\* Tokens of the current version carry the current role.
THEOREM RoleFollowsVersion == Spec => []VersionFixesRole
<1>1. VersionInv => VersionFixesRole
  BY DEF VersionInv, VersionFacts, VersionFixesRole, Current
<1> QED
  BY VersionCorrect, <1>1, PTL

\* A session that has ended does not come back, and disabling a user ends its
\* sessions in the transaction that disables it.
THEOREM EndedSessionsStayEnded == Spec => EndedStaysEnded
<1>1. ASSUME VersionInv, VersionInv', [Next]_vars, NEW s \in Made
      PROVE  /\ Over(s) => Over(s)'
             /\ Usable(s) => Usable(s)' \/ Over(s)'
  <2> DEFINE u == row[s].owner
  <2>0. TypeOK /\ TypeOK' /\ VersionFacts
    BY <1>1 DEF VersionInv
  <2>1. /\ row'[s] = row[s] /\ u \in Users /\ row[s].claim \in Claim
        /\ s \in live' => s \in live
        /\ s \in expired => s \in expired'
    BY <1>1, <2>0, RowsStay, MadeHasRow
  <2>2. status[u] # "NONE" /\ row[s].claim.version <= version[u]
    BY <2>0 DEF VersionFacts, Current
  <2>3. Grows(u)
    BY <1>1, <2>0, <2>1, <2>2, UserStep
  <2>4. row[s].claim.version \in Nat /\ version[u] \in Nat /\ version'[u] \in Nat
    BY <2>0, <2>1 DEF TypeOK, Claim
  <2>5. Over(s) => Over(s)'
    BY <2>1, <2>2, <2>3, <2>4 DEF Over, Grows
  <2>6. Usable(s) => Usable(s)' \/ Over(s)'
    BY <2>1, <2>2, <2>3, <2>4 DEF Over, Usable, Grows
  <2> QED
    BY <2>5, <2>6
<1>2. VersionInv /\ VersionInv' /\ [Next]_vars
          => [\A s \in Made :
                 /\ Over(s) => Over(s)'
                 /\ Usable(s) => Usable(s)' \/ Over(s)']_vars
  BY <1>1
<1> QED
  BY VersionCorrect, <1>2, PTL DEF Spec, EndedStaysEnded

-----------------------------------------------------------------------------
(* Administrators *)

\* One call at a time holds the active administrators, and nobody it holds stops
\* being one.
LockFacts ==
    /\ \A c, d \in Locking : c = d
    /\ \A c \in Locking : admins[c] \subseteq ActiveAdmins

AdminInv == TypeOK /\ AdminRemains /\ LockFacts

LEMMA InitAdmin == Init => AdminInv
<1> SUFFICES ASSUME Init PROVE AdminInv
  OBVIOUS
<1>1. FirstAdmin \in ActiveAdmins
  BY UsersAssumption DEF Init, ActiveAdmins
<1>2. Locking = {}
  BY DEF Init, Locking
<1> QED
  BY <1>1, <1>2, InitType DEF AdminInv, AdminRemains, LockFacts

\* A set with more than one element has one besides u.
LEMMA AnotherOne ==
    ASSUME NEW S \in SUBSET Users, NEW u, ~(Cardinality(S) <= 1)
    PROVE  S \ {u} # {}
<1>1. IsFiniteSet(S)
  BY UsersAssumption, FS_Subset
<1>2. Cardinality(S) \in Nat
  BY <1>1, FS_CardinalityType
<1>3. SUFFICES ASSUME S \ {u} = {} PROVE FALSE
  OBVIOUS
<1>4. Cardinality(S \ {u}) = 0
  BY <1>3, FS_EmptySet
<1>5. Cardinality(S \ {u}) = IF u \in S THEN Cardinality(S) - 1 ELSE Cardinality(S)
  BY <1>1, FS_RemoveElement
<1> QED
  BY <1>2, <1>4, <1>5

\* A call that has the lock takes at most its own user from the administrators,
\* and only if another one is left.
LEMMA CommitStep ==
    ASSUME AdminInv, NEW c \in Calls, CommitRole(c) \/ CommitDisable(c)
    PROVE  /\ ActiveAdmins \ {user[c]} \subseteq ActiveAdmins'
           /\ AdminRemains'
           /\ Locking' = {}
<1>0. TypeOK /\ ActiveAdmins # {} /\ LockFacts /\ user[c] \in Users /\ admins[c] \in SUBSET Users
  BY DEF AdminInv, AdminRemains, TypeOK
<1>1. ~LastAdmin(c) /\ c \in Locking
  BY DEF CommitRole, CommitDisable, Step, Locking
<1>2. ActiveAdmins \ {user[c]} \subseteq ActiveAdmins'
  <2>1. CASE CommitRole(c)
    BY <1>0, <2>1 DEF CommitRole, ActiveAdmins, TypeOK
  <2>2. CASE CommitDisable(c)
    BY <1>0, <2>2 DEF CommitDisable, ActiveAdmins, TypeOK
  <2> QED
    BY <2>1, <2>2
<1>3. Locking' = {}
  <2>1. pc'[c] \in {"done", "revoke"} /\ \A d \in Calls \ {c} : pc'[d] = pc[d]
    BY <1>0 DEF CommitRole, CommitDisable, Step, Goto, TypeOK
  <2> QED
    BY <1>0, <1>1, <2>1 DEF LockFacts, Locking
<1>4. ActiveAdmins \ {user[c]} # {}
  <2>1. CASE user[c] \notin ActiveAdmins
    BY <1>0, <2>1
  <2>2. CASE user[c] \in ActiveAdmins
    <3>1. admins[c] \ {user[c]} # {}
      BY <1>0, <1>1, <2>2, AnotherOne DEF LastAdmin
    <3>2. admins[c] \subseteq ActiveAdmins
      BY <1>0, <1>1 DEF LockFacts
    <3> QED
      BY <3>1, <3>2
  <2> QED
    BY <2>1, <2>2
<1>5. AdminRemains'
  BY <1>2, <1>4 DEF AdminRemains
<1> QED
  BY <1>2, <1>3, <1>5

\* Every other step keeps the administrators, and takes the lock only if it is free.
LEMMA OthersKeepAdmins ==
    ASSUME TypeOK, [Next]_vars,
           \A c \in Calls : ~CommitRole(c) /\ ~CommitDisable(c)
    PROVE  /\ ActiveAdmins \subseteq ActiveAdmins'
           /\ \/ Locking' \subseteq Locking /\ admins' = admins
              \/ \E c \in Calls :
                    /\ Locking = {} /\ Locking' \subseteq {c}
                    /\ admins'[c] = ActiveAdmins
<1> DEFINE Kept ==
        /\ ActiveAdmins \subseteq ActiveAdmins'
        /\ Locking' \subseteq Locking /\ admins' = admins
<1>0. /\ pc \in [Calls -> Working \cup {"idle", "done", "over"}]
      /\ role \in [Users -> ActorRole]
      /\ status \in [Users -> UserStatus \cup {"NONE"}]
      /\ admins \in [Calls -> SUBSET Users]
  BY DEF TypeOK
<1> USE <1>0 DEF userVars, sessionVars, callVars, Begin, Step, Goto, Locking, ActiveAdmins
<1>1. ASSUME NEW c \in Calls, Start(c) PROVE Kept
  <2>1. ASSUME NEW u \in Users, LoginRead(c, u) \/ ChangePassword(c, u) \/ ResetPassword(c, u)
        PROVE  Kept
    BY <2>1 DEF LoginRead, ChangePassword, ResetPassword
  <2>2. ASSUME NEW u \in Users, RevokeSessions(c, u) \/ Demote(c, u) \/ Disable(c, u) PROVE Kept
    BY <2>2 DEF RevokeSessions, Demote, Disable
  <2>3. ASSUME NEW u \in Users, Promote(c, u) PROVE Kept
    BY <2>3 DEF Promote
  <2>4. ASSUME NEW s \in Sessions, RefreshRead(c, s) PROVE Kept
    BY <2>4 DEF RefreshRead
  <2> QED
    BY <1>1, <2>1, <2>2, <2>3, <2>4 DEF Start
<1>2. ASSUME NEW c \in Calls, Continue(c), ~LockAdmins(c), ~CommitRole(c), ~CommitDisable(c)
      PROVE  Kept
  BY <1>2 DEF Continue, LoginFailure, LoginSuccess, Issue, Rotate, RotateExpired, RotateReused,
              RevokeFamily, IncrementVersion, Replace, RevokeUser, Protected
<1>3. ASSUME NEW c \in Calls, LockAdmins(c)
      PROVE  /\ ActiveAdmins' = ActiveAdmins
             /\ Locking = {} /\ Locking' \subseteq {c}
             /\ admins'[c] = ActiveAdmins
  BY <1>3 DEF LockAdmins
<1>4. ASSUME NEW c \in Calls, Abandon(c) PROVE Kept
  BY <1>4 DEF Abandon
<1>5. ASSUME NEW u \in Users, Enable(u) \/ LockExpires(u) PROVE Kept
  BY <1>5 DEF Enable, LockExpires
<1>6. ASSUME NEW u \in Users, NEW r \in ActorRole, CreateUser(u, r) PROVE Kept
  BY <1>6 DEF CreateUser
<1>7. ASSUME NEW s \in Sessions, Logout(s) \/ Expire(s) PROVE Kept
  BY <1>7 DEF Logout, Expire
<1>8. ASSUME UNCHANGED vars PROVE Kept
  BY <1>8 DEF vars
<1>9. Kept \/ \E c \in Calls : LockAdmins(c)
  <2> HIDE DEF Kept
  <2> QED
    BY <1>1, <1>2, <1>4, <1>5, <1>6, <1>7, <1>8 DEF Next
<1> QED
  BY <1>3, <1>9

LEMMA AdminStep == AdminInv /\ [Next]_vars => AdminInv'
<1> SUFFICES ASSUME AdminInv, [Next]_vars PROVE AdminInv'
  OBVIOUS
<1>0. TypeOK /\ TypeOK' /\ AdminRemains /\ LockFacts
  BY TypeStep DEF AdminInv
<1>1. CASE \E c \in Calls : CommitRole(c) \/ CommitDisable(c)
  <2>1. AdminRemains' /\ Locking' = {}
    BY <1>1, CommitStep
  <2> QED
    BY <1>0, <2>1 DEF AdminInv, LockFacts
<1>2. CASE \A c \in Calls : ~CommitRole(c) /\ ~CommitDisable(c)
  <2>1. /\ ActiveAdmins \subseteq ActiveAdmins'
        /\ \/ Locking' \subseteq Locking /\ admins' = admins
           \/ \E c \in Calls :
                 /\ Locking = {} /\ Locking' \subseteq {c}
                 /\ admins'[c] = ActiveAdmins
    BY <1>0, <1>2, OthersKeepAdmins
  <2>2. AdminRemains'
    BY <1>0, <2>1 DEF AdminRemains
  <2>3. LockFacts'
    BY <1>0, <2>1 DEF LockFacts
  <2> QED
    BY <1>0, <2>2, <2>3 DEF AdminInv
<1> QED
  BY <1>1, <1>2

\* The last active administrator is never demoted or disabled, even by calls that
\* run at the same time.
THEOREM AnAdminRemains == Spec => []AdminRemains
<1>1. AdminInv => AdminRemains
  BY DEF AdminInv
<1> QED
  BY InitAdmin, AdminStep, <1>1, PTL DEF Spec
=============================================================================
