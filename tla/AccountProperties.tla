-------------------------- MODULE AccountProperties --------------------------
(***************************************************************************)
(* What the accounts promise, and the invariant behind it.                 *)
(***************************************************************************)
EXTENDS Accounts

\* Rows and requests have their types, and numbers were given.
TypeOK ==
  /\ users \subseteq UserRow
  /\ grants \subseteq GrantRow
  /\ serial \in Nat
  /\ letters \subseteq Letter
  /\ req \in [Requests -> Request]

\* An address and a number belong to one account, whatever sign-ups,
\* invitations and edits are in flight at once (signup, createUser and
\* updateUser check the address before they write, or not at all).
OneAccountPerEmail ==
  \A u, v \in users : u.email = v.email \/ u.id = v.id => u = v

\* A verified account that signed up by itself had a code sent for this very
\* account, not for an earlier or later one of the same address (verifyEmail
\* reads by address and writes by id, signup deletes and creates anew).
VerifiedByItsCode ==
  \A u \in users : u.verified /\ ~u.invited =>
    \E l \in letters : l.account = u.id

\* The login of the stored token compared the account's present password, or
\* it read the account before the password was set and stored its token after.
Follows(u) ==
  \/ u.session.compared = u.set
  \/ u.session.login < u.set /\ u.set <= u.session.stored

\* A token got with an earlier password is of a login that was under way when
\* the password changed.  A change or a reset ends what was stored until then,
\* not what is on its way, though changePassword says that it invalidates all
\* sessions (login, changePassword, resetPassword).
OldSessionsOverlapped ==
  \A u \in users : u.session.stored # 0 => Follows(u)

\* Only a verified account has a session (login reads verified long before it
\* stores the token by id; sign-up deletes what is not verified).
SessionOfVerified == \A u \in users : u.session.stored # 0 => u.verified

\* Of an account that exists, each role once: two verifications of one code
\* at once, or an assignment beside one, do not grant a role twice, and a
\* deleted account leaves no roles behind.
OneGrantEach ==
  /\ \A g, h \in grants : g.user = h.user /\ g.role = h.role => g = h
  /\ \A g \in grants : \E u \in users : u.id = g.user

-----------------------------------------------------------------------------
\* Numbers in use were given before.
Numbered ==
  /\ \A u \in users : /\ u.id <= serial /\ u.set <= serial
                      /\ u.session.stored <= serial /\ u.code <= serial
  /\ \A g \in grants : g.user <= serial
  /\ \A l \in letters : l.secret <= serial

\* What a request remembers: a verification has a letter to its account, a
\* login's account was verified and stays so, and if its password is no longer
\* the one compared it was set later than it was read, a code about to be sent is
\* nobody else's.
SoundPlan(r) ==
  /\ req[r].op = "verify" => \E l \in letters : l.account = req[r].id
  /\ req[r].op = "login" =>
       /\ req[r].id <= serial /\ req[r].login <= serial
       /\ \A u \in users : u.id = req[r].id =>
            u.verified /\ (req[r].compared = u.set \/ req[r].login < u.set)
  /\ req[r].op = "send" =>
       /\ 0 < req[r].code /\ req[r].code <= serial
       /\ \A u \in users : u.code = req[r].code => u.id = req[r].id

PlansSound == \A r \in Requests : SoundPlan(r)

\* A code in the table was made for its account: letters with it say so.
CodesOwn ==
  \A u \in users, l \in letters : u.code # 0 /\ l.secret = u.code => l.account = u.id

AccountInv ==
  /\ TypeOK /\ Numbered /\ OneAccountPerEmail
  /\ PlansSound /\ CodesOwn
  /\ VerifiedByItsCode /\ OldSessionsOverlapped /\ SessionOfVerified
  /\ OneGrantEach
=============================================================================
