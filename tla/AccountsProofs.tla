--------------------------- MODULE AccountsProofs ---------------------------
(***************************************************************************)
(* Proofs about Accounts, for any users, tokens, requests and changes.     *)
(***************************************************************************)
EXTENDS Accounts, TLAPS

(* A request holds the fields of the stage it is in. *)
LEMMA Stages ==
    ASSUME NEW q \in Request
    PROVE  /\ q.op = "login"  => q \in LoginRequest
           /\ q.op = "asked"  => q \in AskedRequest
           /\ q.op = "update" => q \in UpdateRequest
           /\ q.op = "write"  => q \in WriteRequest
           /\ q.op = "reset"  => q \in ResetRequest
  BY DEF Request, Idle, LoginRequest, AskedRequest, UpdateRequest,
         WriteRequest, ResetRequest

(* What update_user writes is a row. *)
LEMMA ChangedIsRow ==
    ASSUME NEW row \in Row, NEW change \in Changes
    PROVE  Changed(row, change) \in Row
  <1>1. change \in Change
    BY AccountsAssumption DEF AccountsAssumption
  <1>2. /\ change.role \in Roles \cup {"keep"}
        /\ change.permissions \in {"with", "without", "keep"}
        /\ change.active \in {"on", "off", "keep"}
    BY <1>1 DEF Change
  <1>3. (IF change.role = "keep" THEN row.role ELSE change.role) \in Roles
    BY <1>2 DEF Row
  <1>4. (IF change.permissions # "keep" THEN change.permissions = "with"
         ELSE IF change.role # "keep" THEN Preset(change.role)
         ELSE row.manages) \in BOOLEAN
    BY <1>2 DEF Row, Preset
  <1>5. (IF change.active = "keep" THEN row.active
         ELSE change.active = "on") \in BOOLEAN
    BY <1>2 DEF Row
  <1> QED
    BY <1>3, <1>4, <1>5 DEF Changed, Row

-----------------------------------------------------------------------------
(* Type correctness: each action changes the parts it names to parts of     *)
(* their types.                                                             *)

LEMMA InitTyped == Init => TypeOK
<1> SUFFICES ASSUME Init PROVE TypeOK
  OBVIOUS
<1>1. [role |-> "admin", manages |-> TRUE, active |-> TRUE] \in Row
  BY AccountsAssumption DEF AccountsAssumption, Row
<1>2. Idle \in Request
  BY DEF Request
<1> QED
  BY <1>1, <1>2 DEF Init, TypeOK

LEMMA NextTyped == TypeOK /\ [Next]_vars => TypeOK'
<1> SUFFICES ASSUME TypeOK, [Next]_vars PROVE TypeOK'
  OBVIOUS
<1> USE DEF TypeOK
<1>0. Idle \in Request
  BY DEF Request
<1>1. ASSUME NEW r \in Requests, NEW u \in Users, NEW t \in Tokens, BeginLogin(r, u, t)
      PROVE  TypeOK'
  <2>1. [op |-> "login", user |-> u, token |-> t] \in Request
    BY DEF Request, LoginRequest
  <2> QED
    BY <1>1, <2>1 DEF BeginLogin, Carry
<1>2. ASSUME NEW r \in Requests, FinishLogin(r)
      PROVE  TypeOK'
  <2>1. request[r] \in LoginRequest
    BY <1>2, Stages DEF FinishLogin
  <2>2. [token |-> request[r].token, user |-> request[r].user] \in Session
    BY <2>1 DEF LoginRequest, Session
  <2> QED
    BY <1>0, <1>2, <2>2 DEF FinishLogin, Finish
<1>3. ASSUME NEW r \in Requests, NEW by \in Users, NEW u \in Users,
             NEW change \in Changes, BeginUpdate(r, by, u, change)
      PROVE  TypeOK'
  <2>1. [op |-> "asked", user |-> u, change |-> change] \in Request
    BY DEF Request, AskedRequest
  <2> QED
    BY <1>3, <2>1 DEF BeginUpdate, Carry
<1>4. ASSUME NEW r \in Requests, LoadUpdate(r)
      PROVE  TypeOK'
  <2> DEFINE q == request[r]
             new == [op |-> "update", user |-> q.user, change |-> q.change,
                     loaded |-> user[q.user]]
  <2>1. q \in AskedRequest
    BY <1>4, Stages DEF LoadUpdate
  <2>2. q.user \in Users /\ q.change \in Changes
    BY <2>1 DEF AskedRequest
  <2>3. user[q.user] \in Row
    BY <1>4, <2>2 DEF LoadUpdate, Exists, NoUser
  <2>4. new \in Request
    BY <2>2, <2>3 DEF Request, UpdateRequest
  <2> QED
    BY <1>4, <2>4 DEF LoadUpdate
<1>5. ASSUME NEW r \in Requests, GuardUpdate(r)
      PROVE  TypeOK'
  <2> DEFINE q == request[r]
             new == [op |-> "write", user |-> q.user, change |-> q.change,
                     loaded |-> q.loaded, admins |-> Admins]
  <2>1. q \in UpdateRequest
    BY <1>5, Stages DEF GuardUpdate
  <2>2. Admins \subseteq Users
    BY DEF Admins
  <2>3. new \in Request
    BY <2>1, <2>2 DEF Request, UpdateRequest, WriteRequest
  <2> QED
    BY <1>5, <2>3 DEF GuardUpdate
<1>6. ASSUME NEW r \in Requests, WriteUpdate(r)
      PROVE  TypeOK'
  <2> DEFINE q == request[r]
             new == Changed(q.loaded, q.change)
  <2>1. q \in WriteRequest
    BY <1>6, Stages DEF WriteUpdate
  <2>2. q.user \in Users /\ q.loaded \in Row /\ q.change \in Changes
    BY <2>1 DEF WriteRequest
  <2>3. new \in Row
    BY <2>2, ChangedIsRow
  <2>4. user' = [user EXCEPT ![q.user] = new]
    BY <1>6 DEF WriteUpdate
  <2>5. user' \in [Users -> Row \cup {NoUser}]
    <3> HIDE DEF new
    <3> QED BY <2>2, <2>3, <2>4
  <2>6. request' \in [Requests -> Request]
    BY <1>0, <1>6 DEF WriteUpdate, Finish
  <2>7. sessions' \subseteq Session /\ late' \subseteq Tokens
    BY <1>6 DEF WriteUpdate, Revoke
  <2>8. raced' \in BOOLEAN
    BY <1>6 DEF WriteUpdate
  <2> QED
    BY <2>5, <2>6, <2>7, <2>8
<1>7. ASSUME NEW r \in Requests, NEW by \in Users, NEW u \in Users, BeginReset(r, by, u)
      PROVE  TypeOK'
  <2>1. [op |-> "reset", user |-> u] \in Request
    BY DEF Request, ResetRequest
  <2> QED
    BY <1>7, <2>1 DEF BeginReset, Carry
<1>8. ASSUME NEW r \in Requests, FinishReset(r)
      PROVE  TypeOK'
  BY <1>0, <1>8 DEF FinishReset, Revoke, Finish
<1>9. ASSUME NEW r \in Requests, Abandon(r)
      PROVE  TypeOK'
  BY <1>0, <1>9 DEF Abandon, Finish
<1>10. ASSUME NEW s \in sessions, Logout(s)
       PROVE  TypeOK'
  BY <1>10 DEF Logout
<1>11. ASSUME NEW by \in Users, NEW u \in Users, NEW change \in Changes,
              CreateUser(by, u, change)
       PROVE  TypeOK'
  <2> DEFINE manages == IF change.permissions = "keep" THEN Preset(change.role)
                                                       ELSE change.permissions = "with"
  <2>1. change.role \in Roles
    BY <1>11, AccountsAssumption DEF CreateUser, AccountsAssumption, Change
  <2>2. manages \in BOOLEAN
    BY DEF Preset
  <2>3. [role |-> change.role, manages |-> manages, active |-> TRUE] \in Row
    BY <2>1, <2>2 DEF Row
  <2> QED
    BY <1>11, <2>3 DEF CreateUser
<1>12. CASE UNCHANGED vars
  BY <1>12 DEF vars
<1> QED
  BY <1>1, <1>2, <1>3, <1>4, <1>5, <1>6, <1>7, <1>8, <1>9, <1>10, <1>11, <1>12
     DEF Next, Login, UpdateUser, ResetPassword

(* The state has its type: in particular no handler carries the row of a    *)
(* user that does not exist.                                                *)
THEOREM TypeCorrect == Spec => []TypeOK
  BY InitTyped, NextTyped, PTL DEF Spec

-----------------------------------------------------------------------------
(* Why an admin remains: an update that retires an admin has seen another   *)
(* one, and unless what it saw has changed that one is still there when it  *)
(* writes.                                                                  *)

GuardHolds == \A r \in Requests :
    LET q == request[r]
    IN  q.op = "write" /\ Retires(q.loaded, Changed(q.loaded, q.change))
        => q.admins \ {q.user} # {}

AdminInv == TypeOK /\ GuardHolds /\ AdminRemains

LEMMA InitAdmin == Init => AdminInv
<1> SUFFICES ASSUME Init PROVE AdminInv
  OBVIOUS
<1>1. Bootstrap \in Admins
  BY AccountsAssumption DEF AccountsAssumption, Init, Admins
<1>2. GuardHolds
  BY DEF Init, GuardHolds, Idle
<1> QED
  BY <1>1, <1>2, InitTyped DEF AdminInv, AdminRemains

(* A step that leaves the running writes as they are, or ends them, keeps   *)
(* GuardHolds.                                                              *)
LEMMA WritesKept ==
  ASSUME GuardHolds,
         \A r \in Requests : request'[r].op = "write" => request'[r] = request[r]
  PROVE  GuardHolds'
BY DEF GuardHolds

LEMMA NextGuard == AdminInv /\ [Next]_vars => GuardHolds'
<1> SUFFICES ASSUME AdminInv, [Next]_vars PROVE GuardHolds'
  OBVIOUS
<1> USE DEF AdminInv
<1>1. ASSUME NEW r \in Requests, Login(r) PROVE GuardHolds'
  BY <1>1, WritesKept DEF Login, BeginLogin, FinishLogin, Carry, Finish, Idle, TypeOK
<1>2. ASSUME NEW r \in Requests, NEW by \in Users, NEW u \in Users,
             NEW change \in Changes, BeginUpdate(r, by, u, change)
      PROVE  GuardHolds'
  BY <1>2, WritesKept DEF BeginUpdate, Carry, TypeOK
<1>3. ASSUME NEW r \in Requests, LoadUpdate(r) PROVE GuardHolds'
  BY <1>3, WritesKept DEF LoadUpdate, TypeOK
<1>4. ASSUME NEW r \in Requests, GuardUpdate(r) PROVE GuardHolds'
  <2> DEFINE q == request[r]
             new == [op |-> "write", user |-> q.user, change |-> q.change,
                     loaded |-> q.loaded, admins |-> Admins]
  <2>1. request' = [request EXCEPT ![r] = new]
    BY <1>4 DEF GuardUpdate
  <2>2. Retires(new.loaded, Changed(new.loaded, new.change))
           => new.admins \ {new.user} # {}
    BY <1>4 DEF GuardUpdate
  <2> QED
    <3> HIDE DEF new
    <3> QED BY <2>1, <2>2 DEF GuardHolds, TypeOK
<1>5. ASSUME NEW r \in Requests, WriteUpdate(r) PROVE GuardHolds'
  BY <1>5, WritesKept DEF WriteUpdate, Finish, Idle, TypeOK
<1>6. ASSUME NEW r \in Requests, ResetPassword(r) PROVE GuardHolds'
  BY <1>6, WritesKept DEF ResetPassword, BeginReset, FinishReset, Carry, Finish, Idle, TypeOK
<1>7. ASSUME NEW r \in Requests, Abandon(r) PROVE GuardHolds'
  BY <1>7, WritesKept DEF Abandon, Finish, Idle, TypeOK
<1>8. CASE UNCHANGED request
  BY <1>8, WritesKept
<1> QED
  BY <1>1, <1>2, <1>3, <1>4, <1>5, <1>6, <1>7, <1>8
     DEF Next, UpdateUser, Logout, CreateUser, vars

(* The write of an update that relied on nothing that has changed leaves    *)
(* an admin.                                                                *)
LEMMA WriteLeavesAdmin ==
  ASSUME AdminInv, NEW r \in Requests, WriteUpdate(r), ~raced'
  PROVE  Admins' # {}
<1> DEFINE q == request[r]
           new == Changed(q.loaded, q.change)
<1>1. /\ user' = [user EXCEPT ![q.user] = new]
      /\ ~raced /\ user[q.user] = q.loaded /\ Admins = q.admins
      /\ q.op = "write"
  BY DEF WriteUpdate
<1>2. q.user \in Users
  BY <1>1, Stages DEF AdminInv, TypeOK, WriteRequest
<1>3. user \in [Users -> Row \cup {NoUser}]
  BY DEF AdminInv, TypeOK
<1>4. CASE Retires(q.loaded, new)
  <2>1. PICK a \in Admins : a # q.user
    BY <1>1, <1>4 DEF AdminInv, GuardHolds
  <2>2. user'[a] = user[a]
    BY <1>1, <1>3, <2>1 DEF Admins
  <2> QED
    BY <2>1, <2>2 DEF Admins
<1>5. CASE ~Retires(q.loaded, new)
  <2>1. PICK a \in Admins : TRUE
    BY <1>1 DEF AdminInv, AdminRemains
  <2>2. CASE a = q.user
    <3>1. new.role = "admin" /\ new.active
      BY <1>1, <1>5, <2>1, <2>2 DEF Admins, Retires
    <3>2. user'[a] = new
      BY <1>1, <1>2, <1>3, <2>2
    <3> QED
      BY <1>2, <2>2, <3>1, <3>2 DEF Admins
  <2>3. CASE a # q.user
    <3>1. user'[a] = user[a]
      BY <1>1, <1>3, <2>1, <2>3 DEF Admins
    <3> QED
      BY <2>1, <3>1 DEF Admins
  <2> QED
    BY <2>2, <2>3
<1> QED
  BY <1>4, <1>5

(* A new account takes no admin away. *)
LEMMA CreateLeavesAdmin ==
  ASSUME AdminInv, NEW by \in Users, NEW u \in Users, NEW change \in Changes,
         CreateUser(by, u, change), ~raced'
  PROVE  Admins' # {}
<1>1. PICK a \in Admins : TRUE
  BY DEF CreateUser, AdminInv, AdminRemains
<1>2. user[u].role = "none" /\ user[a].role = "admin" /\ a \in Users
  BY DEF CreateUser, Exists, Admins
<1>3. user'[a] = user[a]
  BY <1>2 DEF CreateUser, AdminInv, TypeOK
<1> QED
  BY <1>1, <1>3 DEF Admins

LEMMA NextAdmin == AdminInv /\ [Next]_vars => AdminInv'
<1> SUFFICES ASSUME AdminInv, [Next]_vars PROVE AdminInv'
  OBVIOUS
<1>1. TypeOK' /\ GuardHolds'
  BY NextTyped, NextGuard DEF AdminInv
<1>2. AdminRemains'
  <2> SUFFICES ASSUME ~raced' PROVE Admins' # {}
    BY DEF AdminRemains
  <2>1. ASSUME NEW r \in Requests, WriteUpdate(r) PROVE Admins' # {}
    BY <2>1, WriteLeavesAdmin
  <2>2. ASSUME NEW by \in Users, NEW u \in Users, NEW change \in Changes,
               CreateUser(by, u, change)
        PROVE  Admins' # {}
    BY <2>2, CreateLeavesAdmin
  <2>3. CASE UNCHANGED <<user, raced>>
    BY <2>3 DEF Admins, AdminInv, AdminRemains
  <2> QED
    BY <2>1, <2>2, <2>3
       DEF Next, Login, BeginLogin, FinishLogin, UpdateUser, BeginUpdate,
           LoadUpdate, GuardUpdate, ResetPassword, BeginReset, FinishReset,
           Abandon, Logout, vars
<1> QED
  BY <1>1, <1>2 DEF AdminInv

(* As long as no update of an account relied on rows changed since it read  *)
(* them, some admin is active.                                              *)
THEOREM AnAdminRemains == Spec => []AdminRemains
<1>1. AdminInv => AdminRemains
  BY DEF AdminInv
<1> QED
  BY InitAdmin, NextAdmin, <1>1, PTL DEF Spec

-----------------------------------------------------------------------------
(* Why a disabled account has no session: a login still under way for it is *)
(* known to be late, and no two logins carry the same token.                *)

LoginsKnown == \A r \in Requests :
    request[r].op = "login" /\ ~user[request[r].user].active
    => request[r].token \in late

SessionInv == TypeOK /\ LoginsKnown /\ DisabledHasNoSession

LEMMA InitSession == Init => SessionInv
<1> SUFFICES ASSUME Init PROVE SessionInv
  OBVIOUS
<1>1. \A r \in Requests : request[r].op = "idle"
  BY DEF Init, Idle
<1>2. LoginsKnown
  BY <1>1 DEF LoginsKnown
<1>3. DisabledHasNoSession
  BY DEF Init, DisabledHasNoSession
<1> QED
  BY <1>2, <1>3, InitTyped DEF SessionInv

(* Revoking covers the sessions and the logins of the account. *)
LEMMA RevokeCovers ==
  ASSUME NEW u \in Users, Revoke(u), SessionInv
  PROVE  /\ \A s \in sessions' : s \in sessions /\ s.user # u
         /\ late \subseteq late'
         /\ \A r \in Requests :
               request[r].op = "login" /\ request[r].user = u => request[r].token \in late'
<1>1. ASSUME NEW r \in Requests, request[r].op = "login", request[r].user = u
      PROVE  request[r].token \in late'
  <2>1. request[r] \in LoginRequest
    BY <1>1, Stages DEF SessionInv, TypeOK
  <2>2. /\ request[r].token \in Tokens
        /\ request[r] = [op |-> "login", user |-> u, token |-> request[r].token]
    BY <1>1, <2>1 DEF LoginRequest
  <2> QED
    BY <2>2 DEF Revoke
<1> QED
  BY <1>1 DEF Revoke

LEMMA NextSession == SessionInv /\ [Next]_vars => SessionInv'
<1> SUFFICES ASSUME SessionInv, [Next]_vars PROVE SessionInv'
  OBVIOUS
<1>0. TypeOK'
  BY NextTyped DEF SessionInv
<1>t. TypeOK /\ LoginsKnown /\ DisabledHasNoSession
  BY DEF SessionInv
<1> DEFINE Good == LoginsKnown' /\ DisabledHasNoSession'
<1>1. ASSUME NEW r \in Requests, NEW u \in Users, NEW t \in Tokens, BeginLogin(r, u, t)
      PROVE  Good
  <2>1. DisabledHasNoSession'
    BY <1>1, <1>t DEF BeginLogin, DisabledHasNoSession
  <2>2. LoginsKnown'
    BY <1>1, <1>t DEF BeginLogin, Carry, LoginsKnown, TypeOK
  <2> QED
    BY <2>1, <2>2
<1>2. ASSUME NEW r \in Requests, FinishLogin(r)
      PROVE  Good
  <2>1. DisabledHasNoSession'
    BY <1>2, <1>t DEF FinishLogin, DisabledHasNoSession, LoginsKnown
  <2>2. LoginsKnown'
    BY <1>2, <1>t DEF FinishLogin, Finish, LoginsKnown, TypeOK, Idle
  <2> QED
    BY <2>1, <2>2
<1>3. ASSUME NEW r \in Requests, WriteUpdate(r)
      PROVE  Good
  <2> DEFINE q == request[r]
             new == Changed(q.loaded, q.change)
  <2>1. q.user \in Users
    BY <1>3, <1>t, Stages DEF WriteUpdate, TypeOK, WriteRequest
  <2>2. /\ user' = [user EXCEPT ![q.user] = new]
        /\ request' = [request EXCEPT ![r] = Idle]
        /\ IF new.active THEN UNCHANGED <<sessions, late>> ELSE Revoke(q.user)
    BY <1>3 DEF WriteUpdate, Finish
  <2>3. /\ user'[q.user] = new
        /\ \A u \in Users : u # q.user => user'[u] = user[u]
    BY <1>t, <2>1, <2>2 DEF TypeOK
  <2>4. \A p \in Requests : request'[p].op = "login" => request'[p] = request[p]
    BY <1>t, <2>2 DEF TypeOK, Idle
  <2>5. \A s \in sessions : s.user \in Users
    BY <1>t DEF TypeOK, Session
  <2>6. \A p \in Requests : request[p].op = "login" => request[p].user \in Users
    BY <1>t, Stages DEF TypeOK, LoginRequest
  <2> HIDE DEF q, new
  <2>7. CASE new.active
    BY <1>t, <2>2, <2>3, <2>4, <2>5, <2>6, <2>7 DEF LoginsKnown, DisabledHasNoSession
  <2>8. CASE ~new.active
    <3>1. /\ \A s \in sessions' : s \in sessions /\ s.user # q.user
          /\ late \subseteq late'
          /\ \A p \in Requests : request[p].op = "login" /\ request[p].user = q.user
                                 => request[p].token \in late'
      BY <2>1, <2>2, <2>8, RevokeCovers
    <3> QED
      BY <1>t, <2>3, <2>4, <2>5, <2>6, <3>1 DEF LoginsKnown, DisabledHasNoSession
  <2> QED
    BY <2>7, <2>8
<1>4. ASSUME NEW r \in Requests, FinishReset(r)
      PROVE  Good
  <2>1. request[r].user \in Users
    BY <1>4, <1>t, Stages DEF FinishReset, TypeOK, ResetRequest
  <2>2. (\A s \in sessions' : s \in sessions) /\ late \subseteq late'
    BY <1>4, <2>1, RevokeCovers DEF FinishReset
  <2>3. \A p \in Requests : request'[p].op = "login" => request'[p] = request[p]
    BY <1>4, <1>t DEF FinishReset, Finish, TypeOK, Idle
  <2> QED
    BY <1>4, <1>t, <2>2, <2>3 DEF FinishReset, LoginsKnown, DisabledHasNoSession
<1>5. ASSUME NEW s \in sessions, Logout(s)
      PROVE  Good
  BY <1>5, <1>t DEF Logout, LoginsKnown, DisabledHasNoSession
<1>6. ASSUME NEW by \in Users, NEW u \in Users, NEW change \in Changes,
             CreateUser(by, u, change)
      PROVE  Good
  <2>1. \A s \in sessions : s.user \in Users
    BY <1>t DEF TypeOK, Session
  <2>2. \A p \in Requests : request[p].op = "login" => request[p].user \in Users
    BY <1>t, Stages DEF TypeOK, LoginRequest
  <2>3. \A v \in Users : ~user'[v].active => ~user[v].active
    BY <1>6, <1>t DEF CreateUser, TypeOK
  <2> QED
    BY <1>6, <1>t, <2>1, <2>2, <2>3 DEF CreateUser, LoginsKnown, DisabledHasNoSession
<1>7. ASSUME UNCHANGED <<user, sessions, late>>,
             \A p \in Requests : request'[p].op = "login" => request'[p] = request[p]
      PROVE  Good
  BY <1>7, <1>t DEF LoginsKnown, DisabledHasNoSession
<1>8. ASSUME NEW r \in Requests, NEW by \in Users, NEW u \in Users,
             NEW change \in Changes, BeginUpdate(r, by, u, change)
      PROVE  Good
  BY <1>8, <1>7, <1>t DEF BeginUpdate, Carry, TypeOK
<1>9. ASSUME NEW r \in Requests, LoadUpdate(r)
      PROVE  Good
  BY <1>9, <1>7, <1>t DEF LoadUpdate, TypeOK
<1>10. ASSUME NEW r \in Requests, GuardUpdate(r)
       PROVE  Good
  BY <1>10, <1>7, <1>t DEF GuardUpdate, TypeOK
<1>11. ASSUME NEW r \in Requests, NEW by \in Users, NEW u \in Users, BeginReset(r, by, u)
       PROVE  Good
  BY <1>11, <1>7, <1>t DEF BeginReset, Carry, TypeOK
<1>12. ASSUME NEW r \in Requests, Abandon(r)
       PROVE  Good
  BY <1>12, <1>7, <1>t DEF Abandon, Finish, Idle, TypeOK
<1>13. ASSUME UNCHANGED vars
       PROVE  Good
  BY <1>13, <1>7 DEF vars
<1>14. Good
  BY <1>1, <1>2, <1>3, <1>4, <1>5, <1>6, <1>8, <1>9, <1>10, <1>11, <1>12, <1>13
     DEF Next, Login, UpdateUser, ResetPassword
<1> QED
  BY <1>0, <1>14 DEF SessionInv

(* A disabled account has no session, except one whose login verified the   *)
(* account before it was disabled and inserted the session after.           *)
THEOREM SessionsEndWithTheAccount == Spec => []DisabledHasNoSession
<1>1. SessionInv => DisabledHasNoSession
  BY DEF SessionInv
<1> QED
  BY InitSession, NextSession, <1>1, PTL DEF Spec


-----------------------------------------------------------------------------
(* What an update leaves alone.                                             *)

(* The columns Changed computes differ from the row only where asked.       *)
LEMMA ChangedAsAsked ==
  ASSUME NEW row \in Row, NEW change \in Changes
  PROVE  /\ Changed(row, change).role # row.role => change.role # "keep"
         /\ Changed(row, change).active # row.active => change.active # "keep"
         /\ Changed(row, change).manages # row.manages =>
               change.role # "keep" \/ change.permissions # "keep"
  BY DEF Changed

(* Only create_user and the write of update_user change a user, and the     *)
(* first only one that does not exist.                                      *)
LEMMA WhoChangesUsers ==
  ASSUME TypeOK, [Next]_vars, NEW u \in Users, Exists(u), user'[u] # user[u]
  PROVE  \E r \in Requests : WriteUpdate(r) /\ request[r].user = u
<1>1. CASE UNCHANGED vars
  BY <1>1 DEF vars
<1>2. ASSUME NEW r \in Requests, Login(r) \/ ResetPassword(r) \/ Abandon(r)
      PROVE  user' = user
  BY <1>2 DEF Login, BeginLogin, FinishLogin, ResetPassword, BeginReset,
              FinishReset, Abandon
<1>3. ASSUME NEW r \in Requests, UpdateUser(r)
      PROVE  user' = user \/ WriteUpdate(r)
  BY <1>3 DEF UpdateUser, BeginUpdate, LoadUpdate, GuardUpdate
<1>4. ASSUME NEW r \in Requests, WriteUpdate(r)
      PROVE  request[r].user = u
  BY <1>4 DEF WriteUpdate, TypeOK
<1>5. ASSUME NEW s \in sessions, Logout(s)
      PROVE  user' = user
  BY <1>5 DEF Logout
<1>6. ASSUME NEW by \in Users, NEW v \in Users, NEW change \in Changes,
             CreateUser(by, v, change)
      PROVE  user'[u] = user[u]
  BY <1>6 DEF CreateUser, TypeOK
<1>7. QED
  BY <1>1, <1>2, <1>3, <1>4, <1>5, <1>6 DEF Next

LEMMA WriteChangesAsAsked ==
  ASSUME TypeOK, NEW r \in Requests, WriteUpdate(r), ~raced',
         NEW u, u = request[r].user
  PROVE  /\ request[r].op = "write"
         /\ user'[u].role # user[u].role => request[r].change.role # "keep"
         /\ user'[u].active # user[u].active => request[r].change.active # "keep"
         /\ user'[u].manages # user[u].manages =>
               \/ request[r].change.role # "keep"
               \/ request[r].change.permissions # "keep"
<1>1. request[r] \in WriteRequest
  BY Stages DEF WriteUpdate, TypeOK
<1>2. /\ u \in Users /\ request[r].loaded \in Row
      /\ request[r].change \in Changes
  BY <1>1 DEF WriteRequest
<1>3. user[u] = request[r].loaded
  BY DEF WriteUpdate
<1>4. user'[u] = Changed(user[u], request[r].change)
  BY <1>2, <1>3 DEF WriteUpdate, TypeOK
<1>5. QED
  BY <1>2, <1>3, <1>4, ChangedAsAsked DEF WriteUpdate

(* A PATCH of one field never brings back an old value of another, unless   *)
(* the update relied on a row that had changed since it read it, whatever   *)
(* other handlers run beside it.                                            *)
THEOREM UpdatesDoAsAsked == Spec => NothingChangesUnasked
<1> DEFINE Asked == \A u \in Users : Exists(u) /\ user'[u] # user[u] /\ ~raced' =>
          \E r \in Requests :
             /\ request[r].op = "write" /\ request[r].user = u
             /\ LET change == request[r].change
                IN /\ user'[u].role # user[u].role => change.role # "keep"
                   /\ user'[u].active # user[u].active => change.active # "keep"
                   /\ user'[u].manages # user[u].manages =>
                         change.role # "keep" \/ change.permissions # "keep"
<1>1. TypeOK /\ [Next]_vars => Asked
  BY WhoChangesUsers, WriteChangesAsAsked
<1>2. QED
  BY <1>1, InitTyped, NextTyped, PTL DEF Spec, NothingChangesUnasked
=============================================================================
