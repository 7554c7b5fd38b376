------------------------------ MODULE Accounts ------------------------------
(***************************************************************************)
(* The accounts and sessions of services/case_manager.py.  Every handler   *)
(* is authorised by a session read beforehand; update_user, reset_password *)
(* and login then read the users table outside any transaction and write   *)
(* it, or the sessions table, in a later one.                              *)
(*                                                                         *)
(* Of a user's permissions only manage_users decides anything about        *)
(* accounts, so a row holds whether it is among them.  A login stands for  *)
(* one whose password was right when it was verified.  Sessions do not     *)
(* expire here: an expired token is one that is not used any more.         *)
(***************************************************************************)
CONSTANTS Users,      \* the usernames
          Roles,      \* ROLE_PRESETS
          Bootstrap,  \* the admin that init_db creates
          Tokens,     \* the session tokens
          Requests,   \* the handlers that may be running at once
          Changes     \* the updates of an account that may be asked for

(* The fields of a PATCH that are not given are "keep". *)
Change == [role        : Roles \cup {"keep"},
           permissions : {"with", "without", "keep"},
           active      : {"on", "off", "keep"}]

ASSUME AccountsAssumption == /\ Bootstrap \in Users
                             /\ "admin" \in Roles
                             /\ {"none", "keep"} \cap Roles = {}
                             /\ Changes \subseteq Change

VARIABLES user,       \* user[u]: the row of u in the table users
          sessions,   \* the rows of the table sessions
          request,    \* request[r]: what a running handler carries
          late,       \* history: tokens issued to a login that had verified
                      \* its account before the account's sessions were revoked
          raced       \* history: an update relied on rows changed since

vars == <<user, sessions, request, late, raced>>

Row == [role : Roles, manages : BOOLEAN, active : BOOLEAN]

NoUser == [role |-> "none", manages |-> FALSE, active |-> FALSE]

Session == [token : Tokens, user : Users]

Idle == [op |-> "idle"]

LoginRequest  == [op : {"login"}, user : Users, token : Tokens]
AskedRequest  == [op : {"asked"}, user : Users, change : Changes]
UpdateRequest == [op : {"update"}, user : Users, change : Changes, loaded : Row]
WriteRequest  == [op : {"write"}, user : Users, change : Changes, loaded : Row,
                  admins : SUBSET Users]
ResetRequest  == [op : {"reset"}, user : Users]

Request == {Idle} \cup LoginRequest \cup AskedRequest \cup UpdateRequest \cup WriteRequest
                  \cup ResetRequest

Exists(u) == user[u].role # "none"

Admins == {u \in Users : user[u].role = "admin" /\ user[u].active}

(* get_current_user and require("manage_users"). *)
Present(u) == user[u].active /\ \E s \in sessions : s.user = u
Manager(u) == Present(u) /\ user[u].manages

(* permissions_for_role: only the admin preset holds manage_users. *)
Preset(role) == role = "admin"

Init == /\ user = [u \in Users |->
                      IF u = Bootstrap
                      THEN [role |-> "admin", manages |-> TRUE, active |-> TRUE]
                      ELSE NoUser]
        /\ sessions = {}
        /\ request = [r \in Requests |-> Idle]
        /\ late = {}
        /\ raced = FALSE

-----------------------------------------------------------------------------
Carry(r, q) == request[r] = Idle /\ request' = [request EXCEPT ![r] = q]
Finish(r)   == request' = [request EXCEPT ![r] = Idle]

(* DELETE FROM sessions WHERE user_id = u. *)
Revoke(u) ==
    /\ sessions' = {s \in sessions : s.user # u}
    /\ late' = late \cup {t \in Tokens : \E r \in Requests :
                             request[r] = [op |-> "login", user |-> u, token |-> t]}

(* A handler ends without writing: an HTTPException, a busy database. *)
Abandon(r) == /\ request[r] # Idle
              /\ Finish(r)
              /\ UNCHANGED <<user, sessions, late, raced>>

(* login: the row is read and verified, then the session inserted. *)
BeginLogin(r, u, t) ==
    /\ user[u].active
    /\ \A s \in sessions : s.token # t
    /\ \A q \in Requests : request[q].op = "login" => request[q].token # t
    /\ Carry(r, [op |-> "login", user |-> u, token |-> t])
    /\ late' = late \ {t}
    /\ UNCHANGED <<user, sessions, raced>>

FinishLogin(r) ==
    /\ request[r].op = "login"
    /\ sessions' = sessions \cup {[token |-> request[r].token,
                                   user  |-> request[r].user]}
    /\ Finish(r)
    /\ UNCHANGED <<user, late, raced>>

Logout(s) == /\ user[s.user].active
             /\ sessions' = sessions \ {s}
             /\ UNCHANGED <<user, request, late, raced>>

(* create_user: one INSERT, refused by UNIQUE(username) for a taken name. *)
CreateUser(by, u, change) ==
    /\ Manager(by)
    /\ ~Exists(u)
    /\ change.role # "keep"
    /\ user' = [user EXCEPT ![u] =
                   [role    |-> change.role,
                    manages |-> IF change.permissions = "keep"
                                THEN Preset(change.role)
                                ELSE change.permissions = "with",
                    active  |-> TRUE]]
    /\ UNCHANGED <<sessions, request, late, raced>>

-----------------------------------------------------------------------------
(* update_user: authorised, then the row, then the count of the other       *)
(* admins, then the write of all three columns from what was read and asked.*)

ChangedActivating(row, change) ==      \* mutant of Changed
    [role    |-> IF change.role = "keep" THEN row.role ELSE change.role,
     manages |-> IF change.permissions # "keep" THEN change.permissions = "with"
                 ELSE IF change.role # "keep" THEN Preset(change.role)
                 ELSE row.manages,
     active  |-> change.active # "off"]

Changed(row, change) ==
    [role    |-> IF change.role = "keep" THEN row.role ELSE change.role,
     manages |-> IF change.permissions # "keep" THEN change.permissions = "with"
                 ELSE IF change.role # "keep" THEN Preset(change.role)
                 ELSE row.manages,
     active  |-> IF change.active = "keep" THEN row.active
                                           ELSE change.active = "on"]

BeginUpdate(r, by, u, change) ==
    /\ Manager(by)
    /\ Carry(r, [op |-> "asked", user |-> u, change |-> change])
    /\ UNCHANGED <<user, sessions, late, raced>>

LoadMissing(r) ==      \* mutant of LoadUpdate
    /\ request[r].op = "asked"
    /\ request' = [request EXCEPT ![r] =
                      [op |-> "update", user |-> request[r].user,
                       change |-> request[r].change,
                       loaded |-> user[request[r].user]]]
    /\ UNCHANGED <<user, sessions, late, raced>>

LoadUpdate(r) ==
    /\ request[r].op = "asked"
    /\ Exists(request[r].user)
    /\ request' = [request EXCEPT ![r] =
                      [op |-> "update", user |-> request[r].user,
                       change |-> request[r].change,
                       loaded |-> user[request[r].user]]]
    /\ UNCHANGED <<user, sessions, late, raced>>

(* Whether an update takes an admin out of service. *)
Retires(loaded, new) == loaded.role = "admin" /\ (new.role # "admin" \/ ~new.active)

GuardUpdateCountingSelf(r) ==      \* mutant of GuardUpdate
    /\ request[r].op = "update"
    /\ LET q == request[r]
       IN /\ Retires(q.loaded, Changed(q.loaded, q.change)) => Admins # {}
          /\ request' = [request EXCEPT ![r] =
                            [op |-> "write", user |-> q.user, change |-> q.change,
                             loaded |-> q.loaded, admins |-> Admins]]
    /\ UNCHANGED <<user, sessions, late, raced>>

(* "Cannot demote/disable the last active admin"; a refused update is       *)
(* abandoned.                                                               *)
GuardUpdate(r) ==
    /\ request[r].op = "update"
    /\ LET q == request[r]
       IN /\ Retires(q.loaded, Changed(q.loaded, q.change)) => Admins \ {q.user} # {}
          /\ request' = [request EXCEPT ![r] =
                            [op |-> "write", user |-> q.user, change |-> q.change,
                             loaded |-> q.loaded, admins |-> Admins]]
    /\ UNCHANGED <<user, sessions, late, raced>>

WriteUpdateKeepingSessions(r) ==      \* mutant of WriteUpdate
    /\ request[r].op = "write"
    /\ LET q == request[r]
       IN /\ user' = [user EXCEPT ![q.user] = Changed(q.loaded, q.change)]
          /\ raced' = (raced \/ user[q.user] # q.loaded \/ Admins # q.admins)
    /\ Finish(r)
    /\ UNCHANGED <<sessions, late>>

WriteUpdate(r) ==
    /\ request[r].op = "write"
    /\ LET q == request[r]
           new == Changed(q.loaded, q.change)
       IN /\ user' = [user EXCEPT ![q.user] = new]
          /\ raced' = (raced \/ user[q.user] # q.loaded \/ Admins # q.admins)
          /\ IF new.active THEN UNCHANGED <<sessions, late>> ELSE Revoke(q.user)
    /\ Finish(r)

(* reset_password, by an account manager or for oneself. *)
BeginReset(r, by, u) ==
    /\ Manager(by) \/ (Present(by) /\ by = u)
    /\ Exists(u)
    /\ Carry(r, [op |-> "reset", user |-> u])
    /\ UNCHANGED <<user, sessions, late, raced>>

FinishReset(r) == /\ request[r].op = "reset"
                  /\ Revoke(request[r].user)
                  /\ Finish(r)
                  /\ UNCHANGED <<user, raced>>

-----------------------------------------------------------------------------
Login(r) == \/ \E u \in Users, t \in Tokens : BeginLogin(r, u, t)
            \/ FinishLogin(r)

UpdateUser(r) ==
    \/ \E by, u \in Users, change \in Changes : BeginUpdate(r, by, u, change)
    \/ LoadUpdate(r) \/ GuardUpdate(r) \/ WriteUpdate(r)

ResetPassword(r) == \/ \E by, u \in Users : BeginReset(r, by, u)
                    \/ FinishReset(r)

Next == \/ \E r \in Requests : Login(r) \/ UpdateUser(r) \/ ResetPassword(r) \/ Abandon(r)
        \/ \E s \in sessions : Logout(s)
        \/ \E by, u \in Users, change \in Changes : CreateUser(by, u, change)

Spec == Init /\ [][Next]_vars

-----------------------------------------------------------------------------
(* The type of the state. *)
TypeOK == /\ user \in [Users -> Row \cup {NoUser}]
          /\ sessions \subseteq Session
          /\ request \in [Requests -> Request]
          /\ late \subseteq Tokens
          /\ raced \in BOOLEAN

(* There is always an active admin, as long as no update relied on rows     *)
(* that had changed since it read them: the guard of update_user is right.  *)
AdminRemains == ~raced => Admins # {}

(* A disabled account has no session, except one whose login verified the   *)
(* account before it was disabled and inserted the session after.           *)
DisabledHasNoSession ==
    \A s \in sessions : ~user[s.user].active => s.token \in late

(* An update changes only what it was asked to change: a PATCH of one field *)
(* does not bring back an old value of another, unless it relied on a row   *)
(* that had changed.                                                        *)
NothingChangesUnasked ==
    [][\A u \in Users : Exists(u) /\ user'[u] # user[u] /\ ~raced' =>
          \E r \in Requests :
             /\ request[r].op = "write" /\ request[r].user = u
             /\ LET change == request[r].change
                IN /\ user'[u].role # user[u].role => change.role # "keep"
                   /\ user'[u].active # user[u].active => change.active # "keep"
                   /\ user'[u].manages # user[u].manages =>
                         change.role # "keep" \/ change.permissions # "keep"]_vars

(* "the last active admin cannot be demoted or disabled" (CHANGELOG). *)
LastAdminStays == Admins # {}
=============================================================================
