------------------------------- MODULE Accounts -------------------------------
(***************************************************************************)
(* Accounts of users: sign-up and verification of the email address,       *)
(* login, refresh and logout, change and reset of the password, and the    *)
(* owner's management of users and roles.                                  *)
(*                                                                         *)
(* Code: src/auth/auth.service.ts, jwt.strategy.ts, common/guards.         *)
(*                                                                         *)
(* No handler but updateUser and assignRoles uses a transaction.  Each     *)
(* reads the account (Plan...), hashes or compares a password, and writes  *)
(* by the account's id (Commit...); what others do in between stays.       *)
(*                                                                         *)
(* One counter, serial, numbers accounts, codes, reset tokens, passwords,  *)
(* grants and logins in the order in which they come to be.  Codes and     *)
(* tokens are random in the code: different numbers, and nobody uses one   *)
(* that was not sent to him.  Nobody is too late in the model: that a code *)
(* or a token has expired only ever refuses a request.  A login generates  *)
(* its refresh token some time after it read the account, and stores it    *)
(* some time after that; the model numbers the login when it reads and     *)
(* keeps that, the password it compared and when it stored the token.      *)
(* Whoever may log in is taken to hold an access token, which lasts        *)
(* fifteen minutes and which refresh renews without a write.  Permissions, *)
(* names, roles that come and go and the throttling are left out.          *)
(***************************************************************************)
EXTENDS Integers

CONSTANTS
  Emails,        \* addresses
  Boss,          \* the address of the seeded owner
  Passwords,     \* passwords
  Roles,         \* names of active roles
  Owner,         \* the role OWNER
  Assigned,      \* sets of roles the owner may assign
  Requests,      \* requests that may be in flight at the same time
  MaxSerial      \* bound: things numbered, edits of users among them

ASSUME AccountAssumption ==
  /\ Boss \in Emails /\ Owner \in Roles
  /\ Passwords # {} /\ Assigned \subseteq SUBSET Roles
  /\ MaxSerial \in Nat

VARIABLES
  users,     \* the table users
  grants,    \* the table user_roles
  serial,    \* the last number given
  letters,   \* codes and reset tokens that were sent out
  req        \* what each request in flight keeps in memory

vars == <<users, grants, serial, letters, req>>

Tables == <<users, grants, serial>>

-----------------------------------------------------------------------------
(* Rows and requests.  Numbers are 0 for null.                             *)

\* The refresh token of an account, by the login that stored it: its number,
\* the password it compared, and the last event before it stored the token (0
\* when there is no token).
Session == [login: Nat, compared: Nat, stored: Nat]

NoSession == [login |-> 0, compared |-> 0, stored |-> 0]

UserRow == [id: Nat, email: Emails, password: Passwords, set: Nat,
            active: BOOLEAN, verified: BOOLEAN, invited: BOOLEAN,
            code: Nat, reset: Nat, session: Session]

GrantRow == [n: Nat, user: Nat, role: Roles]

Letter == [account: Nat, secret: Nat]

Idle == [op |-> "idle"]

SignupRequest == [op: {"signup"}, email: Emails, password: Passwords, old: Nat]
VerifyRequest == [op: {"verify"}, id: Nat, code: Nat]
IdRequest     == [op: {"resend", "forgot"}, id: Nat]
LoginRequest  == [op: {"login"}, id: Nat, login: Nat, compared: Nat]
SendRequest   == [op: {"send"}, id: Nat, code: Nat]
PassRequest   == [op: {"change", "reset"}, id: Nat, password: Passwords]
CreateRequest == [op: {"create"}, email: Emails, password: Passwords,
                  roles: SUBSET Roles]
AssignRequest == [op: {"assign"}, id: Nat, roles: SUBSET Roles]
WriteRequest  == [op: {"write"}, id: Nat, roles: SUBSET Roles,
                  seen: SUBSET GrantRow]

Request ==
  {Idle} \union SignupRequest \union VerifyRequest \union IdRequest
    \union LoginRequest \union SendRequest \union PassRequest \union CreateRequest
    \union AssignRequest \union WriteRequest

Submit(r, q)  == req[r] = Idle /\ req' = [req EXCEPT ![r] = q]
Proceed(r, q) == req' = [req EXCEPT ![r] = q]
Answer(r)     == req' = [req EXCEPT ![r] = Idle]

NextNumber == serial < MaxSerial /\ serial' = serial + 1

\* update where id: the row must still be there.
Update(id, F(_)) ==
  /\ \E u \in users : u.id = id
  /\ users' = {IF u.id = id THEN F(u) ELSE u : u \in users}

\* JwtStrategy.validate: the account exists and is active.
Signed(u) == u \in users /\ u.active /\ u.verified

\* RolesGuard on the routes of users and roles: the OWNER role, from the table.
OwnerActs ==
  \E u \in users : Signed(u) /\ \E g \in grants : g.user = u.id /\ g.role = Owner

-----------------------------------------------------------------------------
(* The seed has the roles and one owner.                                   *)

Init ==
  /\ users = {[id |-> 1, email |-> Boss, password |-> CHOOSE p \in Passwords : TRUE,
               set |-> 1, active |-> TRUE, verified |-> TRUE, invited |-> TRUE,
               code |-> 0, reset |-> 0, session |-> NoSession]}
  /\ grants = {[n |-> 1, user |-> 1, role |-> Owner]}
  /\ serial = 1
  /\ letters = {}
  /\ req = [r \in Requests |-> Idle]

-----------------------------------------------------------------------------
(* Sign-up.                                                                *)

\* The address is free, or has an account that was never verified.
PlanSignup(r, e, p) ==
  /\ \A u \in users : u.email = e => ~u.verified
  /\ \E old \in {0} \union {u.id : u \in {v \in users : v.email = e}} :
       /\ old = 0 => \A u \in users : u.email # e
       /\ Submit(r, [op |-> "signup", email |-> e, password |-> p, old |-> old])
  /\ UNCHANGED <<Tables, letters>>

\* The unverified account is deleted by its id, its grants with it; it fails
\* when the row is gone.
DropAccount(r) ==
  /\ req[r].op = "signup" /\ req[r].old # 0
  /\ \E u \in users : u.id = req[r].old
  /\ users' = {u \in users : u.id # req[r].old}
  /\ grants' = {g \in grants : g.user # req[r].old}
  /\ Proceed(r, [req[r] EXCEPT !.old = 0])
  /\ UNCHANGED <<serial, letters>>

\* Bug: no unique index on the address.
NoIndex(e, id) == TRUE

\* The unique index on users.email, when account id takes address e.
Unique(e, id) == \A u \in users : u.email = e => u.id = id

\* The new account, with its code; account and code share a number.
CreateAccount(r) ==
  /\ req[r].op = "signup" /\ req[r].old = 0
  /\ Unique(req[r].email, serial + 1)
  /\ NextNumber
  /\ users' = users \union
       {[id |-> serial', email |-> req[r].email, password |-> req[r].password,
         set |-> serial', active |-> TRUE, verified |-> FALSE,
         invited |-> FALSE, code |-> serial', reset |-> 0, session |-> NoSession]}
  /\ Proceed(r, [op |-> "send", id |-> serial', code |-> serial'])
  /\ UNCHANGED <<grants, letters>>

\* sendVerificationEmail, after the row is written; it may fail (Abort).
SendCode(r) ==
  /\ req[r].op = "send"
  /\ letters' = letters \union {[account |-> req[r].id, secret |-> req[r].code]}
  /\ Answer(r)
  /\ UNCHANGED Tables

\* resendVerification: a new code by id for an account not verified when read.
PlanResend(r, u) ==
  /\ ~u.verified
  /\ Submit(r, [op |-> "resend", id |-> u.id])
  /\ UNCHANGED <<Tables, letters>>

CommitResend(r) ==
  /\ req[r].op = "resend"
  /\ NextNumber
  /\ Update(req[r].id, LAMBDA u : [u EXCEPT !.code = serial'])
  /\ Proceed(r, [op |-> "send", id |-> req[r].id, code |-> serial'])
  /\ UNCHANGED <<grants, letters>>

-----------------------------------------------------------------------------
(* verifyEmail.                                                            *)

\* Bug: the code is not compared.
PlanVerifyAny(r, u, l) ==
  /\ ~u.verified /\ u.code # 0
  /\ Submit(r, [op |-> "verify", id |-> u.id, code |-> l.secret])
  /\ UNCHANGED <<Tables, letters>>

\* Somebody types the code of letter l for the address of account u.
PlanVerify(r, u, l) ==
  /\ ~u.verified /\ u.code # 0
  /\ l.secret = u.code
  /\ Submit(r, [op |-> "verify", id |-> u.id, code |-> l.secret])
  /\ UNCHANGED <<Tables, letters>>

\* Bug: a role the user has already is granted again.
GrantAny(id, rs, kept) == TRUE

\* The unique index on a user and a role.
Grantable(id, rs, kept) == \A g \in kept : g.user = id => g.role \notin rs

NewGrants(id, rs) == {[n |-> serial', user |-> id, role |-> x] : x \in rs}

\* One nested write: the account is verified and has its OWNER role.
CommitVerify(r) ==
  /\ req[r].op = "verify"
  /\ Grantable(req[r].id, {Owner}, grants)
  /\ NextNumber
  /\ Update(req[r].id, LAMBDA u : [u EXCEPT !.verified = TRUE, !.code = 0])
  /\ grants' = grants \union NewGrants(req[r].id, {Owner})
  /\ Answer(r)
  /\ UNCHANGED <<letters>>

-----------------------------------------------------------------------------
(* Sessions.  An account has one: the token stored last.                   *)

\* Bug: an account may log in before its address is verified.
PlanLoginAny(r, u, p) ==
  /\ u.active /\ u.password = p
  /\ NextNumber
  /\ Submit(r, [op |-> "login", id |-> u.id, login |-> serial', compared |-> u.set])
  /\ UNCHANGED <<users, grants, letters>>

\* login reads the account: active, verified, and the password that was read
\* is the one compared.
PlanLogin(r, u, p) ==
  /\ u.active /\ u.verified /\ u.password = p
  /\ NextNumber
  /\ Submit(r, [op |-> "login", id |-> u.id, login |-> serial', compared |-> u.set])
  /\ UNCHANGED <<users, grants, letters>>

\* The token of this login takes the place of the one that is there, whatever
\* happened to the password since it was read.
CommitLogin(r) ==
  /\ req[r].op = "login"
  /\ Update(req[r].id, LAMBDA u :
       [u EXCEPT !.session = [login |-> req[r].login, compared |-> req[r].compared,
                              stored |-> serial]])
  /\ Answer(r)
  /\ UNCHANGED <<grants, serial, letters>>

Logout(u) ==
  /\ Signed(u)
  /\ Update(u.id, LAMBDA v : [v EXCEPT !.session = NoSession])
  /\ UNCHANGED <<grants, serial, letters, req>>

-----------------------------------------------------------------------------
(* Passwords.                                                              *)

PlanChange(r, u, old, new) ==
  /\ Signed(u) /\ u.password = old
  /\ Submit(r, [op |-> "change", id |-> u.id, password |-> new])
  /\ UNCHANGED <<Tables, letters>>

\* forgotPassword stores a token for any account of the address.
PlanForgot(r, u) ==
  /\ Submit(r, [op |-> "forgot", id |-> u.id])
  /\ UNCHANGED <<Tables, letters>>

\* External: the mail with the link, a TODO in the code, is taken to arrive.
CommitForgot(r) ==
  /\ req[r].op = "forgot"
  /\ NextNumber
  /\ Update(req[r].id, LAMBDA u : [u EXCEPT !.reset = serial'])
  /\ letters' = letters \union {[account |-> req[r].id, secret |-> serial']}
  /\ Answer(r)
  /\ UNCHANGED grants

\* resetPassword finds the account by the token of letter l.
PlanReset(r, u, l, new) ==
  /\ u.reset = l.secret
  /\ Submit(r, [op |-> "reset", id |-> u.id, password |-> new])
  /\ UNCHANGED <<Tables, letters>>

\* Bug: the session outlives the password.
CommitPasswordOnly(r) ==
  /\ req[r].op \in {"change", "reset"}
  /\ NextNumber
  /\ Update(req[r].id, LAMBDA u :
       [u EXCEPT !.password = req[r].password, !.set = serial',
                 !.reset = IF req[r].op = "reset" THEN 0 ELSE @])
  /\ Answer(r)
  /\ UNCHANGED <<grants, letters>>

\* changePassword and resetPassword: the session ends with the password.
CommitPassword(r) ==
  /\ req[r].op \in {"change", "reset"}
  /\ NextNumber
  /\ Update(req[r].id, LAMBDA u :
       [u EXCEPT !.password = req[r].password, !.set = serial', !.session = NoSession,
                 !.reset = IF req[r].op = "reset" THEN 0 ELSE @])
  /\ Answer(r)
  /\ UNCHANGED <<grants, letters>>

-----------------------------------------------------------------------------
(* The owner manages users and roles.                                      *)

\* createUser: the address is free.
PlanCreate(r, e, p, rs) ==
  /\ OwnerActs /\ \A u \in users : u.email # e
  /\ Submit(r, [op |-> "create", email |-> e, password |-> p, roles |-> rs])
  /\ UNCHANGED <<Tables, letters>>

\* The column emailVerified is true unless it is set.
CommitCreate(r) ==
  /\ req[r].op = "create"
  /\ Unique(req[r].email, serial + 1)
  /\ NextNumber
  /\ users' = users \union
       {[id |-> serial', email |-> req[r].email, password |-> req[r].password,
         set |-> serial', active |-> TRUE, verified |-> TRUE,
         invited |-> TRUE, code |-> 0, reset |-> 0, session |-> NoSession]}
  /\ grants' = grants \union NewGrants(serial', req[r].roles)
  /\ Answer(r)
  /\ UNCHANGED <<letters>>

\* updateUser without roles: the address and whether the account is active.
EditUser(u, e, active) ==
  /\ OwnerActs
  /\ Unique(e, u.id)
  /\ NextNumber
  /\ Update(u.id, LAMBDA v : [v EXCEPT !.email = e, !.active = active])
  /\ UNCHANGED <<grants, letters, req>>

\* assignRoles, and updateUser with roles: the roles are looked up ...
PlanAssign(r, u, rs) ==
  /\ OwnerActs
  /\ Submit(r, [op |-> "assign", id |-> u.id, roles |-> rs])
  /\ UNCHANGED <<Tables, letters>>

\* ... deleteMany of the transaction sees the grants committed by then; of
\* two that see the same grants the second waits for the first, and finds
\* them deleted, but not the first one's new ones ...
SeeGrants(r) ==
  /\ req[r].op = "assign"
  /\ Proceed(r, [op |-> "write", id |-> req[r].id, roles |-> req[r].roles,
                 seen |-> {g \in grants : g.user = req[r].id}])
  /\ UNCHANGED <<Tables, letters>>

\* ... and the new grants are written; the account must still be there.
CommitAssign(r) ==
  /\ req[r].op = "write"
  /\ \E u \in users : u.id = req[r].id
  /\ Grantable(req[r].id, req[r].roles, grants \ req[r].seen)
  /\ NextNumber
  /\ grants' = (grants \ req[r].seen) \union NewGrants(req[r].id, req[r].roles)
  /\ Answer(r)
  /\ UNCHANGED <<users, letters>>

-----------------------------------------------------------------------------
\* The request fails where the code throws, or the server stops.
Abort(r) ==
  /\ req[r] # Idle
  /\ Answer(r)
  /\ UNCHANGED <<Tables, letters>>

Reading(r) ==
  \/ \E e \in Emails, p \in Passwords :
       \/ PlanSignup(r, e, p)
       \/ \E rs \in Assigned : PlanCreate(r, e, p, rs)
  \/ \E u \in users :
       \/ PlanResend(r, u)
       \/ PlanForgot(r, u)
       \/ \E p \in Passwords : PlanLogin(r, u, p)
       \/ \E p, q \in Passwords : PlanChange(r, u, p, q)
       \/ \E rs \in Assigned : PlanAssign(r, u, rs)
       \/ \E l \in letters : PlanVerify(r, u, l)
            \/ \E p \in Passwords : PlanReset(r, u, l, p)

Writing(r) ==
  \/ DropAccount(r) \/ CreateAccount(r) \/ SendCode(r)
  \/ CommitResend(r) \/ CommitVerify(r) \/ CommitLogin(r)
  \/ CommitForgot(r) \/ CommitPassword(r)
  \/ CommitCreate(r) \/ SeeGrants(r) \/ CommitAssign(r)
  \/ Abort(r)

AtOnce ==
  \E u \in users :
       \/ Logout(u)
       \/ \E e \in Emails, b \in BOOLEAN : EditUser(u, e, b)

Next == AtOnce \/ \E r \in Requests : Reading(r) \/ Writing(r)

Spec == Init /\ [][Next]_vars
=============================================================================
