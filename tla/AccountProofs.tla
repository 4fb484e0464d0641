---------------------------- MODULE AccountProofs ----------------------------
(***************************************************************************)
(* The invariant of the accounts holds for any number of addresses, roles, *)
(* requests and numbers.                                                   *)
(***************************************************************************)
EXTENDS AccountProperties, TLAPS

USE DEF Request, SignupRequest, VerifyRequest, IdRequest, LoginRequest, SendRequest,
        PassRequest, CreateRequest, AssignRequest, WriteRequest, Idle,
        Session, NoSession

\* The seeded state has it.
LEMMA InitInv == Init => AccountInv
<1>. SUFFICES ASSUME Init PROVE AccountInv
  OBVIOUS
<1>. USE AccountAssumption DEF Init
<1>1. (CHOOSE p \in Passwords : TRUE) \in Passwords
  OBVIOUS
<1>. QED
  BY <1>1 DEF AccountInv, TypeOK, Numbered, OneAccountPerEmail, PlansSound, SoundPlan,
    CodesOwn, VerifiedByItsCode, OldSessionsOverlapped,
    Follows, SessionOfVerified, OneGrantEach, UserRow, GrantRow

\* A step that changes what one request remembers, and numbers it or does not,
\* keeps it if what it remembers is sound.
LEMMA MemoryStep ==
  ASSUME AccountInv, NEW r \in Requests, NEW q \in Request,
         req' = [req EXCEPT ![r] = q], UNCHANGED <<users, grants, letters>>,
         serial' \in Nat, serial <= serial',
         q.op = "verify" => \E l \in letters : l.account = q.id,
         q.op = "login" =>
           /\ q.id <= serial' /\ q.login <= serial'
           /\ \A u \in users : u.id = q.id =>
                u.verified /\ (q.compared = u.set \/ q.login < u.set),
         q.op = "send" =>
           0 < q.code /\ q.code <= serial /\ \A u \in users : u.code = q.code => u.id = q.id
  PROVE  AccountInv'
<1>. USE DEF AccountInv
<1>1. TypeOK'
  BY DEF TypeOK
<1>2. PlansSound'
  <2>. SUFFICES ASSUME NEW s \in Requests PROVE SoundPlan(s)'
    BY DEF PlansSound
  <2>1. CASE s = r
    BY <2>1 DEF SoundPlan, TypeOK
  <2>2. CASE s # r
    <3>1. req'[s] = req[s] /\ SoundPlan(s)
      BY <2>2 DEF TypeOK, PlansSound, SoundPlan
    <3>2. /\ req[s].op = "login" => req[s].id \in Nat /\ req[s].login \in Nat
          /\ req[s].op = "send" => req[s].code \in Nat
      BY DEF TypeOK
    <3>. QED
      BY <3>1, <3>2 DEF SoundPlan, TypeOK
  <2>. QED
    BY <2>1, <2>2
<1>3. Numbered'
  BY DEF TypeOK, Numbered, UserRow, GrantRow, Letter
<1>. QED
  BY <1>1, <1>2, <1>3 DEF OneAccountPerEmail, CodesOwn,
    VerifiedByItsCode, OldSessionsOverlapped, Follows, SessionOfVerified, OneGrantEach

LEMMA ReadingStep ==
  ASSUME AccountInv, NEW r \in Requests, Reading(r)
  PROVE  AccountInv'
<1>. USE AccountAssumption DEF Submit, Tables
<1>0. TypeOK /\ serial \in Nat /\ serial <= serial
  BY DEF AccountInv, TypeOK
<1>1. ASSUME NEW e \in Emails, NEW p \in Passwords, PlanSignup(r, e, p)
      PROVE  AccountInv'
  <2>1. PICK old \in {0} \union {u.id : u \in {v \in users : v.email = e}} :
          req' = [req EXCEPT ![r] = [op |-> "signup", email |-> e,
                                     password |-> p, old |-> old]]
    BY <1>1 DEF PlanSignup
  <2>2. old \in Nat
    BY <1>0 DEF TypeOK, UserRow
  <2>. QED
    BY <1>0, <1>1, <2>1, <2>2, MemoryStep DEF PlanSignup
<1>2. ASSUME NEW e \in Emails, NEW p \in Passwords, NEW rs \in Assigned,
             PlanCreate(r, e, p, rs)
      PROVE  AccountInv'
  BY <1>0, <1>2, MemoryStep DEF PlanCreate
<1>3. ASSUME NEW u \in users, PlanResend(r, u) \/ PlanForgot(r, u)
      PROVE  AccountInv'
  BY <1>0, <1>3, MemoryStep DEF PlanResend, PlanForgot, TypeOK, UserRow
<1>4. ASSUME NEW u \in users, NEW p \in Passwords, PlanLogin(r, u, p)
      PROVE  AccountInv'
  <2>. DEFINE q == [op |-> "login", id |-> u.id, login |-> serial', compared |-> u.set]
  <2>1. /\ req' = [req EXCEPT ![r] = q] /\ UNCHANGED <<users, grants, letters>>
        /\ serial' = serial + 1 /\ u.verified
    BY <1>4 DEF PlanLogin, NextNumber
  <2>2. u \in UserRow /\ u.id \in Nat /\ u.set \in Nat /\ u.id <= serial
    BY <1>0 DEF AccountInv, TypeOK, UserRow, Numbered
  <2>3. \A v \in users : v.id = u.id => v = u
    BY DEF AccountInv, OneAccountPerEmail
  <2>4. q \in LoginRequest /\ q.op = "login" /\ q.id <= serial'
        /\ q.login <= serial' /\ serial' \in Nat /\ serial <= serial'
    BY <1>0, <2>1, <2>2
  <2>5. \A v \in users : v.id = q.id => v.verified /\ q.compared = v.set
    BY <2>1, <2>3
  <2>. HIDE DEF q
  <2>. QED
    BY <2>1, <2>4, <2>5, MemoryStep
<1>5. ASSUME NEW u \in users, NEW p \in Passwords, NEW q \in Passwords,
             PlanChange(r, u, p, q)
      PROVE  AccountInv'
  BY <1>0, <1>5, MemoryStep DEF PlanChange, TypeOK, UserRow
<1>6. ASSUME NEW u \in users, NEW rs \in Assigned, PlanAssign(r, u, rs)
      PROVE  AccountInv'
  BY <1>0, <1>6, MemoryStep DEF PlanAssign, TypeOK, UserRow
<1>7. ASSUME NEW u \in users, NEW l \in letters, PlanVerify(r, u, l)
      PROVE  AccountInv'
  <2>1. l.account = u.id
    BY <1>7 DEF PlanVerify, AccountInv, CodesOwn
  <2>. QED
    BY <1>0, <1>7, <2>1, MemoryStep DEF PlanVerify, TypeOK, UserRow, Letter
<1>8. ASSUME NEW u \in users, NEW l \in letters, NEW p \in Passwords,
             PlanReset(r, u, l, p)
      PROVE  AccountInv'
  BY <1>0, <1>8, MemoryStep DEF PlanReset, TypeOK, UserRow
<1>. QED
  BY <1>1, <1>2, <1>3, <1>4, <1>5, <1>6, <1>7, <1>8 DEF Reading

-----------------------------------------------------------------------------
(* Writes.  The conjuncts that a step on one account can disturb.          *)

LEMMA DropStep ==
  ASSUME AccountInv, NEW r \in Requests, DropAccount(r) PROVE AccountInv'
<1>. USE DEF DropAccount, Proceed, AccountInv
<1>1. req[r] \in SignupRequest /\ [req[r] EXCEPT !.old = 0] \in SignupRequest
  BY DEF TypeOK
<1>2. TypeOK'
  BY <1>1 DEF TypeOK
<1>3. PlansSound'
  BY <1>1 DEF TypeOK, PlansSound, SoundPlan
<1>. QED
  BY <1>2, <1>3 DEF Numbered, OneAccountPerEmail, CodesOwn, VerifiedByItsCode,
    OldSessionsOverlapped, Follows, SessionOfVerified, OneGrantEach, TypeOK, UserRow, GrantRow

LEMMA CreateStep ==
  ASSUME AccountInv, NEW r \in Requests, CreateAccount(r) PROVE AccountInv'
<1>. USE DEF CreateAccount, Proceed, AccountInv, NextNumber, Unique
<1>1. req[r] \in SignupRequest
  BY DEF TypeOK
<1>. DEFINE row == [id |-> serial', email |-> req[r].email, password |-> req[r].password,
         set |-> serial', active |-> TRUE, verified |-> FALSE,
         invited |-> FALSE, code |-> serial', reset |-> 0, session |-> NoSession]
<1>2. row \in UserRow /\ serial \in Nat /\ serial' = serial + 1
  BY <1>1 DEF TypeOK, UserRow
<1>3. users' = users \union {row}
  OBVIOUS
<1>. DEFINE q == [op |-> "send", id |-> serial', code |-> serial']
<1>4. TypeOK'
  <2>1. q \in SendRequest /\ req' = [req EXCEPT ![r] = q]
    BY <1>2
  <2>. HIDE DEF q, row
  <2>2. users' \subseteq UserRow
    BY <1>2, <1>3 DEF TypeOK
  <2>. QED
    BY <1>2, <2>1, <2>2 DEF TypeOK
<1>5. \A u \in users : u.id \in Nat /\ u.id <= serial /\ u.code \in Nat
                      /\ u.code <= serial /\ u.set \in Nat /\ u.session \in Session
                      /\ u.set <= serial /\ u.session.stored <= serial
  BY DEF TypeOK, UserRow, Numbered
<1>6. \A l \in letters : l.secret \in Nat /\ l.secret <= serial
  BY DEF TypeOK, Letter, Numbered
<1>7. Numbered'
  BY <1>2, <1>3, <1>5, <1>6 DEF Numbered, TypeOK, GrantRow
<1>8. OneAccountPerEmail'
  <2>1. row.id = serial + 1 /\ row.email = req[r].email
    BY <1>2
  <2>2. \A u \in users : u.id # row.id /\ u.email # row.email
    BY <1>2, <1>5, <2>1
  <2>. HIDE DEF row
  <2>. QED
    BY <1>3, <2>2 DEF OneAccountPerEmail
<1>9. PlansSound'
  BY <1>2, <1>3, <1>5 DEF TypeOK, PlansSound, SoundPlan
<1>10. CodesOwn'
  BY <1>2, <1>3, <1>5, <1>6 DEF CodesOwn
<1>. QED
  BY <1>3, <1>4, <1>7, <1>8, <1>9, <1>10 DEF VerifiedByItsCode,
    OldSessionsOverlapped, Follows, SessionOfVerified, OneGrantEach

LEMMA SendStep ==
  ASSUME AccountInv, NEW r \in Requests, SendCode(r) PROVE AccountInv'
<1>. USE DEF SendCode, Answer, AccountInv, Tables
<1>1. req[r] \in SendRequest
  BY DEF TypeOK
<1>2. TypeOK'
  BY <1>1 DEF TypeOK, Letter
<1>3. PlansSound'
  BY <1>1 DEF TypeOK, PlansSound, SoundPlan
<1>4. CodesOwn' /\ Numbered'
  BY <1>1 DEF CodesOwn, PlansSound, SoundPlan, Numbered
<1>. QED
  BY <1>2, <1>3, <1>4 DEF OneAccountPerEmail, VerifiedByItsCode,
    OldSessionsOverlapped, Follows, SessionOfVerified, OneGrantEach

LEMMA ResendStep ==
  ASSUME AccountInv, NEW r \in Requests, CommitResend(r) PROVE AccountInv'
<1>. USE DEF CommitResend, Update, Proceed, AccountInv, NextNumber
<1>1. req[r] \in IdRequest
  BY DEF TypeOK
<1>2. serial \in Nat /\ serial' = serial + 1
  BY DEF TypeOK
<1>3. \A v \in users' : \E u \in users :
        v = IF u.id = req[r].id THEN [u EXCEPT !.code = serial'] ELSE u
  OBVIOUS
<1>. DEFINE q == [op |-> "send", id |-> req[r].id, code |-> serial']
<1>4. TypeOK'
  <2>1. q \in SendRequest /\ req' = [req EXCEPT ![r] = q]
    BY <1>1, <1>2
  <2>2. users' \subseteq UserRow /\ serial' \in Nat
    BY <1>2, <1>3 DEF TypeOK, UserRow
  <2>. HIDE DEF q
  <2>. QED
    BY <2>1, <2>2 DEF TypeOK
<1>5. \A u \in users : u.id \in Nat /\ u.id <= serial /\ u.code \in Nat
                      /\ u.code <= serial /\ u.set \in Nat /\ u.session \in Session
                      /\ u.set <= serial /\ u.session.stored <= serial
  BY DEF TypeOK, UserRow, Numbered
<1>6. \A l \in letters : l.secret \in Nat /\ l.secret <= serial
  BY DEF TypeOK, Letter, Numbered
<1>7. Numbered'
  BY <1>2, <1>3, <1>5, <1>6 DEF Numbered, TypeOK, GrantRow, UserRow
<1>8. OneAccountPerEmail'
  BY <1>2, <1>3, <1>5 DEF OneAccountPerEmail, TypeOK, UserRow
<1>9. PlansSound'
  BY <1>2, <1>3, <1>5 DEF TypeOK, PlansSound, SoundPlan, UserRow
<1>10. CodesOwn'
  BY <1>2, <1>3, <1>5, <1>6 DEF CodesOwn, TypeOK, UserRow
<1>11. OneGrantEach'
  <2>1. ASSUME NEW u \in users PROVE \E v \in users' : v.id = u.id
    <3>. DEFINE v == IF u.id = req[r].id THEN [u EXCEPT !.code = serial'] ELSE u
    <3>1. v \in users'
      OBVIOUS
    <3>2. v.id = u.id
      BY DEF UserRow
    <3>. QED
      BY <3>1, <3>2
  <2>2. grants' = grants
    OBVIOUS
  <2>. HIDE DEF CommitResend, AccountInv
  <2>3. OneGrantEach
    BY DEF AccountInv
  <2>. QED
    BY <2>1, <2>2, <2>3 DEF OneGrantEach
<1>12. \A v \in users' : \E u \in users :
         v.id = u.id /\ v.verified = u.verified /\ v.invited = u.invited
           /\ v.set = u.set /\ v.session = u.session
  BY <1>3 DEF TypeOK, UserRow
<1>13. letters' = letters /\ VerifiedByItsCode /\ OldSessionsOverlapped
       /\ SessionOfVerified
  OBVIOUS
<1>14. VerifiedByItsCode' /\ OldSessionsOverlapped' /\ SessionOfVerified'
  <2>. HIDE DEF CommitResend, AccountInv, q
  <2>1. VerifiedByItsCode'
    BY <1>12, <1>13 DEF VerifiedByItsCode
  <2>2. OldSessionsOverlapped'
    BY <1>12, <1>13 DEF OldSessionsOverlapped, Follows
  <2>3. SessionOfVerified'
    BY <1>12, <1>13 DEF SessionOfVerified
  <2>. QED
    BY <2>1, <2>2, <2>3
<1>. QED
  BY <1>4, <1>7, <1>8, <1>9, <1>10, <1>11, <1>14

\* Every account goes from u to f[u], which keeps its number, its verification
\* and what sessions, codes and addresses promise; requests only end.
LEMMA UpdateStep ==
  ASSUME AccountInv, NEW f \in [users -> UserRow], users' = {f[u] : u \in users},
         serial' \in Nat, serial <= serial',
         letters \subseteq letters', letters' \subseteq Letter,
         \A l \in letters' \ letters : serial < l.secret /\ l.secret <= serial',
         req' \in [Requests -> Request],
         \A r \in Requests : req'[r] = req[r] \/ req'[r] = Idle,
         \A u \in users :
           /\ f[u].id = u.id /\ f[u].set <= serial' /\ f[u].session.stored <= serial'
           /\ f[u].code \in {0, u.code} /\ (u.verified => f[u].verified)
           /\ f[u].verified /\ ~f[u].invited =>
                (u.verified /\ ~u.invited) \/ \E l \in letters : l.account = u.id
           /\ f[u].session.stored # 0 => Follows(f[u]) /\ f[u].verified
           /\ f[u].set = u.set \/ serial < f[u].set,
         \A u, v \in users : f[u].email = f[v].email => u.id = v.id,
         grants' \subseteq GrantRow, \A g \in grants' : g.user <= serial',
         OneGrantEach'
  PROVE  AccountInv'
<1>. USE DEF AccountInv
<1>1. TypeOK'
  BY DEF TypeOK
<1>2. \A u \in users : /\ u.id \in Nat /\ u.id <= serial /\ u.code \in Nat
                       /\ u.code <= serial /\ f[u] \in UserRow
  BY DEF TypeOK, UserRow, Numbered
<1>3. \A v \in users' : \E u \in users : v = f[u]
  OBVIOUS
<1>4. \A l \in letters : l.secret \in Nat /\ l.secret <= serial
  BY DEF TypeOK, Letter, Numbered
<1>5. Numbered'
  <2>1. \A l \in letters' : l.secret <= serial'
    BY <1>4 DEF TypeOK, Letter
  <2>2. \A v \in users' : /\ v.id <= serial' /\ v.set <= serial'
                          /\ v.session.stored <= serial' /\ v.code <= serial'
    BY <1>2, <1>3 DEF TypeOK
  <2>. QED
    BY <2>1, <2>2 DEF Numbered
<1>6. OneAccountPerEmail'
  BY <1>2, <1>3 DEF OneAccountPerEmail
<1>7. PlansSound'
  <2>. SUFFICES ASSUME NEW r \in Requests, req'[r] = req[r], req[r] # Idle
       PROVE  SoundPlan(r)'
    BY DEF PlansSound, SoundPlan
  <2>1. SoundPlan(r)
    BY DEF PlansSound
  <2>2. /\ req[r].op = "login" =>
             req[r].id \in Nat /\ req[r].login \in Nat /\ req[r].compared \in Nat
        /\ req[r].op = "send" => req[r].code \in Nat
    BY DEF TypeOK
  <2>3. \A u \in users : u.id \in Nat /\ u.set \in Nat /\ f[u].set \in Nat
    BY <1>2 DEF TypeOK, UserRow
  <2>4. req[r].op = "login" =>
          /\ req[r].id <= serial' /\ req[r].login <= serial'
          /\ \A v \in users' : v.id = req[r].id =>
               v.verified /\ (req[r].compared = v.set \/ req[r].login < v.set)
    BY <1>3, <2>1, <2>2, <2>3 DEF SoundPlan, TypeOK
  <2>5. req[r].op = "send" =>
          /\ 0 < req[r].code /\ req[r].code <= serial'
          /\ \A v \in users' : v.code = req[r].code => v.id = req[r].id
    BY <1>2, <1>3, <2>1, <2>2 DEF SoundPlan, TypeOK
  <2>6. req[r].op = "verify" => \E l \in letters' : l.account = req[r].id
    BY <2>1 DEF SoundPlan
  <2>. QED
    BY <2>4, <2>5, <2>6 DEF SoundPlan
<1>8. CodesOwn'
  BY <1>2, <1>3, <1>4 DEF CodesOwn, TypeOK, Letter
<1>. QED
  BY <1>1, <1>2, <1>3, <1>5, <1>6, <1>7, <1>8 DEF VerifiedByItsCode,
    OldSessionsOverlapped, Follows, SessionOfVerified

\* The rows an update of one account leads to; each account is still there.
LEMMA KeptGrants ==
  ASSUME NEW f \in [users -> UserRow], users' = {f[u] : u \in users},
         \A u \in users : f[u].id = u.id, OneGrantEach, grants' = grants
  PROVE  OneGrantEach'
BY DEF OneGrantEach

LEMMA VerifyStep ==
  ASSUME AccountInv, NEW r \in Requests, CommitVerify(r) PROVE AccountInv'
<1>. USE DEF AccountInv
<1>1. req[r] \in VerifyRequest /\ serial \in Nat /\ serial' = serial + 1
  BY DEF TypeOK, CommitVerify, NextNumber
<1>. DEFINE f == [u \in users |-> IF u.id = req[r].id
                    THEN [u EXCEPT !.verified = TRUE, !.code = 0] ELSE u]
<1>2. f \in [users -> UserRow]
  <2>1. \A u \in UserRow : [u EXCEPT !.verified = TRUE, !.code = 0] \in UserRow
    BY DEF UserRow
  <2>2. users \subseteq UserRow
    BY DEF TypeOK
  <2> QED BY <2>1, <2>2
<1>3. users' = {f[u] : u \in users}
  BY DEF CommitVerify, Update
<1>4. \A u \in users :
           /\ f[u].id = u.id /\ f[u].set <= serial' /\ f[u].session.stored <= serial'
           /\ f[u].code \in {0, u.code} /\ (u.verified => f[u].verified)
           /\ f[u].verified /\ ~f[u].invited =>
                (u.verified /\ ~u.invited) \/ \E l \in letters : l.account = u.id
           /\ f[u].session.stored # 0 => Follows(f[u]) /\ f[u].verified
           /\ f[u].set = u.set \/ serial < f[u].set
           /\ f[u].email = u.email
  BY <1>1 DEF TypeOK, UserRow, Numbered, PlansSound, SoundPlan, OldSessionsOverlapped,
    Follows, SessionOfVerified, CommitVerify
<1>5. grants' = grants \union {[n |-> serial', user |-> req[r].id, role |-> Owner]}
  BY DEF CommitVerify, NewGrants
<1>6. \E u \in users : u.id = req[r].id
  BY DEF CommitVerify, Update
<1>7. grants' \subseteq GrantRow /\ \A g \in grants' : g.user <= serial'
  BY <1>1, <1>5, <1>6, AccountAssumption DEF TypeOK, GrantRow, Numbered, UserRow
<1>8. OneGrantEach'
  <2>1. \A g, h \in grants' : g.user = h.user /\ g.role = h.role => g = h
    BY <1>5 DEF OneGrantEach, CommitVerify, Grantable
  <2>2. \A g \in grants' : \E u \in users : u.id = g.user
    BY <1>5, <1>6 DEF OneGrantEach
  <2>. HIDE DEF f
  <2>3. \A u \in users : \E v \in users' : v.id = u.id
    BY <1>3, <1>4
  <2>. QED
    BY <2>1, <2>2, <2>3 DEF OneGrantEach
<1>9. /\ req' \in [Requests -> Request] /\ letters' = letters
      /\ \A s \in Requests : req'[s] = req[s] \/ req'[s] = Idle
  BY DEF TypeOK, CommitVerify, Answer
<1>10. \A u, v \in users : f[u].email = f[v].email => u.id = v.id
  <2>1. \A u, v \in users : u.email = v.email => u.id = v.id
    BY DEF OneAccountPerEmail
  <2>2. \A u \in users : f[u].email = u.email
    BY <1>4
  <2>. QED
    BY <2>1, <2>2
<1>11. letters \subseteq Letter /\ serial <= serial'
  BY <1>1 DEF TypeOK
<1>. HIDE DEF f, AccountInv
<1>12. \A u \in users :
           /\ f[u].id = u.id /\ f[u].set <= serial' /\ f[u].session.stored <= serial'
           /\ f[u].code \in {0, u.code} /\ (u.verified => f[u].verified)
           /\ f[u].verified /\ ~f[u].invited =>
                (u.verified /\ ~u.invited) \/ \E l \in letters : l.account = u.id
           /\ f[u].session.stored # 0 => Follows(f[u]) /\ f[u].verified
           /\ f[u].set = u.set \/ serial < f[u].set
  BY <1>4
<1>. QED
  BY <1>1, <1>2, <1>3, <1>7, <1>8, <1>9, <1>10, <1>11, <1>12, UpdateStep

LEMMA LoginStep ==
  ASSUME AccountInv, NEW r \in Requests, CommitLogin(r) PROVE AccountInv'
<1>. USE DEF AccountInv
<1>1. /\ req[r] \in LoginRequest /\ req[r].op = "login"
      /\ serial \in Nat /\ serial' = serial
  BY DEF TypeOK, CommitLogin
<1>. DEFINE token == [login |-> req[r].login, compared |-> req[r].compared,
                     stored |-> serial]
<1>. DEFINE f == [u \in users |-> IF u.id = req[r].id
                    THEN [u EXCEPT !.session = token] ELSE u]
<1>2. f \in [users -> UserRow]
  <2>0. token \in Session
    BY <1>1
  <2>. HIDE DEF token
  <2>1. \A u \in UserRow : [u EXCEPT !.session = token] \in UserRow
    BY <2>0 DEF UserRow
  <2>2. users \subseteq UserRow
    BY DEF TypeOK
  <2>. QED
    BY <2>1, <2>2
<1>3. users' = {f[u] : u \in users}
  BY DEF CommitLogin, Update
<1>4. \A u \in users :
           /\ f[u].id = u.id /\ f[u].set <= serial' /\ f[u].session.stored <= serial'
           /\ f[u].code \in {0, u.code} /\ (u.verified => f[u].verified)
           /\ (f[u].verified = u.verified) /\ (f[u].invited = u.invited)
           /\ f[u].session.stored # 0 => Follows(f[u]) /\ f[u].verified
           /\ f[u].set = u.set \/ serial < f[u].set
  BY <1>1 DEF TypeOK, UserRow, Numbered, PlansSound, SoundPlan, OldSessionsOverlapped,
    Follows, SessionOfVerified
<1>5. \A u, v \in users : f[u].email = f[v].email => u.id = v.id
  BY <1>1 DEF OneAccountPerEmail, TypeOK, UserRow
<1>6. grants' \subseteq GrantRow /\ \A g \in grants' : g.user <= serial'
  BY <1>1 DEF CommitLogin, TypeOK, GrantRow, Numbered
<1>7. /\ req' \in [Requests -> Request]
      /\ \A s \in Requests : req'[s] = req[s] \/ req'[s] = Idle
  BY DEF TypeOK, CommitLogin, Answer
<1>8. /\ letters \subseteq letters' /\ letters' \subseteq Letter
      /\ \A l \in letters' \ letters : serial < l.secret /\ l.secret <= serial'
  BY <1>1 DEF TypeOK, Letter, CommitLogin
<1>. HIDE DEF f
<1>9. OneGrantEach'
  BY <1>2, <1>3, <1>4, KeptGrants DEF CommitLogin
<1>. QED
  BY <1>1, <1>2, <1>3, <1>4, <1>5, <1>6, <1>7, <1>8, <1>9, UpdateStep DEF TypeOK

LEMMA ForgotStep ==
  ASSUME AccountInv, NEW r \in Requests, CommitForgot(r) PROVE AccountInv'
<1>. USE DEF AccountInv
<1>1. /\ req[r] \in IdRequest
      /\ serial \in Nat /\ serial' = serial + 1
  BY DEF TypeOK, CommitForgot, NextNumber
<1>. DEFINE f == [u \in users |-> IF u.id = req[r].id
                    THEN [u EXCEPT !.reset = serial'] ELSE u]
<1>2. f \in [users -> UserRow]
  <2>1. \A u \in UserRow : [u EXCEPT !.reset = serial'] \in UserRow
    BY <1>1 DEF UserRow
  <2>2. users \subseteq UserRow
    BY DEF TypeOK
  <2> QED BY <2>1, <2>2
<1>3. users' = {f[u] : u \in users}
  BY DEF CommitForgot, Update
<1>4. \A u \in users :
           /\ f[u].id = u.id /\ f[u].set <= serial' /\ f[u].session.stored <= serial'
           /\ f[u].code \in {0, u.code} /\ (u.verified => f[u].verified)
           /\ (f[u].verified = u.verified) /\ (f[u].invited = u.invited)
           /\ f[u].session.stored # 0 => Follows(f[u]) /\ f[u].verified
           /\ f[u].set = u.set \/ serial < f[u].set
  BY <1>1 DEF TypeOK, UserRow, Numbered, PlansSound, SoundPlan, OldSessionsOverlapped,
    Follows, SessionOfVerified
<1>5. \A u, v \in users : f[u].email = f[v].email => u.id = v.id
  BY <1>1 DEF OneAccountPerEmail, TypeOK, UserRow
<1>6. grants' \subseteq GrantRow /\ \A g \in grants' : g.user <= serial'
  BY <1>1 DEF CommitForgot, TypeOK, GrantRow, Numbered
<1>7. /\ req' \in [Requests -> Request]
      /\ \A s \in Requests : req'[s] = req[s] \/ req'[s] = Idle
  BY DEF TypeOK, CommitForgot, Answer
<1>8. /\ letters \subseteq letters' /\ letters' \subseteq Letter
      /\ \A l \in letters' \ letters : serial < l.secret /\ l.secret <= serial'
  BY <1>1 DEF TypeOK, Letter, CommitForgot
<1>. HIDE DEF f
<1>9. OneGrantEach'
  BY <1>2, <1>3, <1>4, KeptGrants DEF CommitForgot
<1>10. \A u \in users :
           /\ f[u].id = u.id /\ f[u].set <= serial' /\ f[u].session.stored <= serial'
           /\ f[u].code \in {0, u.code} /\ (u.verified => f[u].verified)
           /\ f[u].verified /\ ~f[u].invited =>
                (u.verified /\ ~u.invited) \/ \E l \in letters : l.account = u.id
           /\ f[u].session.stored # 0 => Follows(f[u]) /\ f[u].verified
           /\ f[u].set = u.set \/ serial < f[u].set
  BY <1>4
<1>. HIDE DEF AccountInv
<1>. QED
  BY <1>1, <1>2, <1>3, <1>5, <1>6, <1>7, <1>8, <1>9, <1>10, UpdateStep

LEMMA PasswordStep ==
  ASSUME AccountInv, NEW r \in Requests, CommitPassword(r) PROVE AccountInv'
<1>. USE DEF AccountInv
<1>1. /\ req[r] \in PassRequest
      /\ serial \in Nat /\ serial' = serial + 1
  BY DEF TypeOK, CommitPassword, NextNumber
<1>. DEFINE f == [u \in users |-> IF u.id = req[r].id
                    THEN [u EXCEPT !.password = req[r].password, !.set = serial', !.session = NoSession,
                              !.reset = IF req[r].op = "reset" THEN 0 ELSE @] ELSE u]
<1>2. f \in [users -> UserRow]
  <2>. SUFFICES ASSUME NEW u \in users PROVE f[u] \in UserRow
    OBVIOUS
  <2>1. u \in UserRow /\ req[r].password \in Passwords
    BY <1>1 DEF TypeOK
  <2>. DEFINE v == [u EXCEPT !.password = req[r].password, !.set = serial']
              x == IF req[r].op = "reset" THEN 0 ELSE u.reset
  <2>2. v \in UserRow /\ v.reset = u.reset
    <3>. DEFINE p == req[r].password
                n == serial'
    <3>1. p \in Passwords /\ n \in Nat
      BY <1>1, <2>1
    <3>. HIDE DEF f, p, n
    <3>2. [u EXCEPT !.password = p, !.set = n] \in UserRow
      BY <2>1, <3>1 DEF UserRow
    <3>3. [u EXCEPT !.password = p, !.set = n].reset = u.reset
      BY <2>1 DEF UserRow
    <3>. QED
      BY <3>2, <3>3 DEF p, n
  <2>3. x \in Nat
    BY <2>1 DEF UserRow
  <2>4. f[u] = IF u.id = req[r].id THEN [v EXCEPT !.session = NoSession, !.reset = x] ELSE u
    BY <2>1, <2>2 DEF UserRow
  <2>. HIDE DEF f, v, x
  <2>5. [v EXCEPT !.session = NoSession, !.reset = x] \in UserRow
    BY <2>2, <2>3 DEF UserRow
  <2>. QED
    BY <2>1, <2>4, <2>5
<1>3. users' = {f[u] : u \in users}
  BY DEF CommitPassword, Update
<1>4. \A u \in users :
           /\ f[u].id = u.id /\ f[u].set <= serial' /\ f[u].session.stored <= serial'
           /\ f[u].code \in {0, u.code} /\ (u.verified => f[u].verified)
           /\ (f[u].verified = u.verified) /\ (f[u].invited = u.invited)
           /\ f[u].session.stored # 0 => Follows(f[u]) /\ f[u].verified
           /\ f[u].set = u.set \/ serial < f[u].set
  BY <1>1 DEF TypeOK, UserRow, Numbered, PlansSound, SoundPlan, OldSessionsOverlapped,
    Follows, SessionOfVerified
<1>5. \A u, v \in users : f[u].email = f[v].email => u.id = v.id
  BY <1>1 DEF OneAccountPerEmail, TypeOK, UserRow
<1>6. grants' \subseteq GrantRow /\ \A g \in grants' : g.user <= serial'
  BY <1>1 DEF CommitPassword, TypeOK, GrantRow, Numbered
<1>7. /\ req' \in [Requests -> Request]
      /\ \A s \in Requests : req'[s] = req[s] \/ req'[s] = Idle
  BY DEF TypeOK, CommitPassword, Answer
<1>8. /\ letters \subseteq letters' /\ letters' \subseteq Letter
      /\ \A l \in letters' \ letters : serial < l.secret /\ l.secret <= serial'
  BY <1>1 DEF TypeOK, Letter, CommitPassword
<1>. HIDE DEF f
<1>9. OneGrantEach'
  BY <1>2, <1>3, <1>4, KeptGrants DEF CommitPassword
<1>10. \A u \in users :
           /\ f[u].id = u.id /\ f[u].set <= serial' /\ f[u].session.stored <= serial'
           /\ f[u].code \in {0, u.code} /\ (u.verified => f[u].verified)
           /\ f[u].verified /\ ~f[u].invited =>
                (u.verified /\ ~u.invited) \/ \E l \in letters : l.account = u.id
           /\ f[u].session.stored # 0 => Follows(f[u]) /\ f[u].verified
           /\ f[u].set = u.set \/ serial < f[u].set
  BY <1>4
<1>. HIDE DEF AccountInv
<1>. QED
  BY <1>1, <1>2, <1>3, <1>5, <1>6, <1>7, <1>8, <1>9, <1>10, UpdateStep

LEMMA LogoutStep ==
  ASSUME AccountInv, NEW w \in users, Logout(w) PROVE AccountInv'
<1>. USE DEF AccountInv
<1>. DEFINE f == [u \in users |-> IF u.id = w.id THEN [u EXCEPT !.session = NoSession] ELSE u]
<1>1. f \in [users -> UserRow]
  <2>1. \A u \in UserRow : [u EXCEPT !.session = NoSession] \in UserRow
    BY DEF UserRow
  <2>2. users \subseteq UserRow
    BY DEF TypeOK
  <2>. QED
    BY <2>1, <2>2
<1>2. users' = {f[u] : u \in users}
  BY DEF Logout, Update
<1>3. \A u \in users :
           /\ f[u].id = u.id /\ f[u].set <= serial /\ f[u].session.stored <= serial
           /\ f[u].code = u.code /\ f[u].verified = u.verified
           /\ f[u].invited = u.invited /\ f[u].email = u.email
           /\ f[u].session.stored # 0 => Follows(f[u]) /\ f[u].verified
           /\ f[u].set = u.set \/ serial < f[u].set
  BY DEF TypeOK, UserRow, Numbered, OldSessionsOverlapped,
    Follows, SessionOfVerified
<1>4. \A u, v \in users : f[u].email = f[v].email => u.id = v.id
  BY <1>3 DEF OneAccountPerEmail
<1>. HIDE DEF f
<1>5. OneGrantEach'
  BY <1>1, <1>2, <1>3, KeptGrants DEF Logout
<1>. QED
  BY <1>1, <1>2, <1>3, <1>4, <1>5, UpdateStep DEF TypeOK, Numbered, Logout

LEMMA EditStep ==
  ASSUME AccountInv, NEW w \in users, NEW e \in Emails, NEW b \in BOOLEAN,
         EditUser(w, e, b)
  PROVE  AccountInv'
<1>. USE DEF AccountInv
<1>1. serial \in Nat /\ serial' = serial + 1
  BY DEF TypeOK, EditUser, NextNumber
<1>. DEFINE f == [u \in users |-> IF u.id = w.id
                    THEN [u EXCEPT !.email = e, !.active = b] ELSE u]
<1>2. f \in [users -> UserRow]
  <2>1. \A u \in UserRow : [u EXCEPT !.email = e, !.active = b] \in UserRow
    BY DEF UserRow
  <2>2. users \subseteq UserRow
    BY DEF TypeOK
  <2> QED BY <2>1, <2>2
<1>3. users' = {f[u] : u \in users}
  BY DEF EditUser, Update
<1>4. \A u \in users :
           /\ f[u].id = u.id /\ f[u].set <= serial' /\ f[u].session.stored <= serial'
           /\ f[u].code = u.code /\ f[u].verified = u.verified
           /\ f[u].invited = u.invited
           /\ f[u].email = IF u.id = w.id THEN e ELSE u.email
           /\ f[u].session.stored # 0 => Follows(f[u]) /\ f[u].verified
           /\ f[u].set = u.set \/ serial < f[u].set
  BY <1>1 DEF TypeOK, UserRow, Numbered, OldSessionsOverlapped,
    Follows, SessionOfVerified
<1>5. \A u, v \in users : f[u].email = f[v].email => u.id = v.id
  <2>1. \A u, v \in users : u.email = v.email => u.id = v.id
    BY DEF OneAccountPerEmail
  <2>2. \A u \in users : u.email = e => u.id = w.id
    BY DEF EditUser, Unique
  <2>3. \A u \in users : f[u].email = IF u.id = w.id THEN e ELSE u.email
    BY <1>4
  <2>. HIDE DEF f, AccountInv
  <2>. QED
    BY <2>1, <2>2, <2>3
<1>6. \A g \in grants : g.user <= serial'
  BY <1>1 DEF TypeOK, GrantRow, Numbered
<1>. HIDE DEF f
<1>7. OneGrantEach'
  BY <1>2, <1>3, <1>4, KeptGrants DEF EditUser
<1>8. \A u \in users :
      /\ f[u].id = u.id /\ f[u].set <= serial' /\ f[u].session.stored <= serial'
      /\ f[u].code \in {0, u.code} /\ (u.verified => f[u].verified)
      /\ f[u].verified /\ ~f[u].invited =>
           (u.verified /\ ~u.invited) \/ \E l \in letters : l.account = u.id
      /\ f[u].session.stored # 0 => Follows(f[u]) /\ f[u].verified
      /\ f[u].set = u.set \/ serial < f[u].set
  BY <1>4
<1>9. /\ grants' = grants /\ letters' = letters /\ req' = req
      /\ grants \subseteq GrantRow /\ letters \subseteq Letter
      /\ req \in [Requests -> Request] /\ serial <= serial' /\ serial' \in Nat
  BY <1>1 DEF TypeOK, EditUser
<1>. QED
  BY <1>2, <1>3, <1>5, <1>6, <1>7, <1>8, <1>9, UpdateStep

LEMMA AbortStep ==
  ASSUME AccountInv, NEW r \in Requests, Abort(r) PROVE AccountInv'
<1>1. Idle \in Request /\ Idle.op = "idle" /\ serial \in Nat /\ serial <= serial
  BY DEF AccountInv, TypeOK
<1>2. req' = [req EXCEPT ![r] = Idle] /\ UNCHANGED <<Tables, letters>>
  BY DEF Abort, Answer
<1>. HIDE DEF Idle
<1>. QED
  BY <1>1, <1>2, MemoryStep DEF Tables

LEMMA SeeStep ==
  ASSUME AccountInv, NEW r \in Requests, SeeGrants(r) PROVE AccountInv'
<1>1. req[r] \in AssignRequest /\ grants \subseteq GrantRow
  BY DEF AccountInv, TypeOK, SeeGrants
<1>2. {g \in grants : g.user = req[r].id} \in SUBSET GrantRow
  BY <1>1
<1>. DEFINE q == [op |-> "write", id |-> req[r].id, roles |-> req[r].roles,
                  seen |-> {g \in grants : g.user = req[r].id}]
<1>3. q \in WriteRequest /\ q.op = "write" /\ serial \in Nat /\ serial <= serial
  BY <1>1, <1>2 DEF AccountInv, TypeOK
<1>4. req' = [req EXCEPT ![r] = q] /\ UNCHANGED <<Tables, letters>>
  BY DEF SeeGrants, Proceed
<1>. HIDE DEF q
<1>. QED
  BY <1>3, <1>4, MemoryStep DEF Tables

\* An assignment removes what it saw and adds one row per role.
LEMMA AssignStep ==
  ASSUME AccountInv, NEW r \in Requests, CommitAssign(r) PROVE AccountInv'
<1>. USE DEF AccountInv
<1>1. req[r] \in WriteRequest /\ serial \in Nat /\ serial' = serial + 1
  BY DEF TypeOK, CommitAssign, NextNumber
<1>. DEFINE f == [u \in users |-> u]
            new == NewGrants(req[r].id, req[r].roles)
<1>2. f \in [users -> UserRow] /\ users' = {f[u] : u \in users}
  BY DEF TypeOK, CommitAssign
<1>3. grants' = (grants \ req[r].seen) \union new
  BY DEF CommitAssign
<1>4. PICK w \in users : w.id = req[r].id
  BY DEF CommitAssign
<1>5. w.id \in Nat /\ w.id <= serial
  BY DEF TypeOK, UserRow, Numbered
<1>6. \A g \in new : /\ g \in GrantRow /\ g.user = w.id /\ g.n = serial'
                     /\ g.role \in req[r].roles
  BY <1>1, <1>4, <1>5 DEF NewGrants, GrantRow
<1>. HIDE DEF new
<1>7. grants' \subseteq GrantRow /\ \A g \in grants' : g.user <= serial'
  BY <1>1, <1>3, <1>5, <1>6 DEF TypeOK, GrantRow, Numbered
<1>8. OneGrantEach'
  <2>1. \A g, h \in new : g.role = h.role => g = h
    BY DEF new, NewGrants
  <2>2. \A g \in grants \ req[r].seen, h \in new : g.user = h.user => g.role # h.role
    BY <1>4, <1>6 DEF CommitAssign, Grantable
  <2>3. \A g, h \in grants' : g.user = h.user /\ g.role = h.role => g = h
    BY <1>3, <2>1, <2>2 DEF OneGrantEach
  <2>4. \A g \in grants' : \E u \in users : u.id = g.user
    BY <1>3, <1>4, <1>6 DEF OneGrantEach
  <2>5. users' = users
    BY DEF CommitAssign
  <2>. QED
    BY <2>3, <2>4, <2>5 DEF OneGrantEach
<1>9. /\ req' \in [Requests -> Request] /\ letters' = letters
      /\ \A s \in Requests : req'[s] = req[s] \/ req'[s] = Idle
  BY DEF TypeOK, CommitAssign, Answer
<1>10. \A u \in users :
           /\ f[u] = u /\ u.set <= serial' /\ u.session.stored <= serial'
           /\ u.session.stored # 0 => Follows(u) /\ u.verified
  BY <1>1 DEF TypeOK, UserRow, Numbered, OldSessionsOverlapped,
    Follows, SessionOfVerified
<1>11. \A u, v \in users : u.email = v.email => u.id = v.id
  BY DEF OneAccountPerEmail
<1>12. \A u \in users :
      /\ f[u].id = u.id /\ f[u].set <= serial' /\ f[u].session.stored <= serial'
      /\ f[u].code \in {0, u.code} /\ (u.verified => f[u].verified)
      /\ f[u].verified /\ ~f[u].invited =>
           (u.verified /\ ~u.invited) \/ \E l \in letters : l.account = u.id
      /\ f[u].session.stored # 0 => Follows(f[u]) /\ f[u].verified
      /\ f[u].set = u.set \/ serial < f[u].set
  BY <1>10
<1>13. \A u, v \in users : f[u].email = f[v].email => u.id = v.id
  BY <1>10, <1>11
<1>14. letters \subseteq Letter /\ serial <= serial'
  BY <1>1 DEF TypeOK
<1>. HIDE DEF f
<1>. QED
  BY <1>1, <1>2, <1>7, <1>8, <1>9, <1>12, <1>13, <1>14, UpdateStep

\* An invited account comes with a new number, and its grants with it.
LEMMA InviteStep ==
  ASSUME AccountInv, NEW r \in Requests, CommitCreate(r) PROVE AccountInv'
<1>. USE DEF AccountInv
<1>1. req[r] \in CreateRequest /\ serial \in Nat /\ serial' = serial + 1
  BY DEF TypeOK, CommitCreate, NextNumber
<1>. DEFINE row == [id |-> serial', email |-> req[r].email, password |-> req[r].password,
         set |-> serial', active |-> TRUE, verified |-> TRUE,
         invited |-> TRUE, code |-> 0, reset |-> 0, session |-> NoSession]
            new == NewGrants(serial', req[r].roles)
<1>2. /\ row \in UserRow /\ row.id = serial + 1 /\ row.email = req[r].email
      /\ row.verified /\ row.invited /\ row.code = 0 /\ row.set = serial + 1
      /\ row.session.stored = 0
  BY <1>1 DEF UserRow
<1>3. /\ users' = users \union {row} /\ grants' = grants \union new
      /\ letters' = letters
  BY DEF CommitCreate
<1>4. /\ req' \in [Requests -> Request]
      /\ \A s \in Requests : req'[s] = req[s] \/ req'[s] = Idle
  BY DEF TypeOK, CommitCreate, Answer
<1>5. \A g \in new : /\ g \in GrantRow /\ g.user = serial + 1
                     /\ g.role \in req[r].roles
  BY <1>1 DEF NewGrants, GrantRow
<1>6. \A g, h \in new : g.role = h.role => g = h
  BY DEF NewGrants
<1>7. \A u \in users : u.email # row.email
  <2>1. \A u \in users : u.id \in Nat /\ u.id <= serial
    BY DEF TypeOK, UserRow, Numbered
  <2>2. \A u \in users : u.email = req[r].email => u.id = serial + 1
    BY DEF CommitCreate, Unique
  <2>. QED
    BY <1>1, <1>2, <2>1, <2>2
<1>. HIDE DEF row, new
<1>8. TypeOK'
  BY <1>1, <1>2, <1>3, <1>4, <1>5 DEF TypeOK
<1>9. Numbered'
  BY <1>1, <1>2, <1>3, <1>5 DEF Numbered, TypeOK, UserRow, GrantRow, Letter
<1>10. OneAccountPerEmail'
  BY <1>1, <1>2, <1>3, <1>7 DEF OneAccountPerEmail, TypeOK, UserRow, Numbered
<1>11. PlansSound'
  <2>. SUFFICES ASSUME NEW s \in Requests, req'[s] = req[s], req[s] # Idle
       PROVE  SoundPlan(s)'
    BY <1>3, <1>4 DEF PlansSound, SoundPlan
  <2>1. SoundPlan(s)
    BY DEF PlansSound
  <2>2. /\ req[s].op = "login" => req[s].id \in Nat /\ req[s].login \in Nat
        /\ req[s].op = "send" => req[s].code \in Nat
    BY DEF TypeOK
  <2>. QED
    BY <1>1, <1>2, <1>3, <2>1, <2>2 DEF SoundPlan
<1>12. CodesOwn' /\ VerifiedByItsCode' /\ OldSessionsOverlapped' /\ SessionOfVerified'
  BY <1>2, <1>3 DEF CodesOwn, VerifiedByItsCode, OldSessionsOverlapped,
    Follows, SessionOfVerified
<1>13. OneGrantEach'
  <2>1. \A g \in grants : g.user # serial + 1
    BY <1>1 DEF TypeOK, GrantRow, Numbered
  <2>. QED
    BY <1>2, <1>3, <1>5, <1>6, <2>1 DEF OneGrantEach
<1>. QED
  BY <1>8, <1>9, <1>10, <1>11, <1>12, <1>13

-----------------------------------------------------------------------------
LEMMA StepInv == AccountInv /\ [Next]_vars => AccountInv'
<1>. SUFFICES ASSUME AccountInv, [Next]_vars PROVE AccountInv'
  OBVIOUS
<1>1. CASE AtOnce
  BY <1>1, LogoutStep, EditStep DEF AtOnce
<1>2. ASSUME NEW r \in Requests, Reading(r) PROVE AccountInv'
  BY <1>2, ReadingStep
<1>3. ASSUME NEW r \in Requests, Writing(r) PROVE AccountInv'
  BY <1>3, DropStep, CreateStep, SendStep, ResendStep, VerifyStep, LoginStep,
    ForgotStep, PasswordStep, InviteStep, SeeStep, AssignStep, AbortStep DEF Writing
<1>4. CASE UNCHANGED vars
  BY <1>4 DEF vars, AccountInv, TypeOK, Numbered, OneAccountPerEmail, PlansSound, SoundPlan,
    CodesOwn, VerifiedByItsCode, OldSessionsOverlapped, SessionOfVerified, OneGrantEach
<1>. QED
  BY <1>1, <1>2, <1>3, <1>4 DEF Next

\* Addresses are unique, old sessions overlapped, roles are granted once, and
\* a verified account had a code of its own, whatever is in flight.
THEOREM AccountInvHolds == Spec => []AccountInv
<1>. QED
  BY InitInv, StepInv, PTL DEF Spec

\* One account per address (the unique index and every handler).
THEOREM OneAccountPerEmailHolds == Spec => []OneAccountPerEmail
<1>1. AccountInv => OneAccountPerEmail
  BY DEF AccountInv
<1>. QED
  BY <1>1, AccountInvHolds, PTL

\* No verification with the code of another account of the same address.
THEOREM VerifiedByItsCodeHolds == Spec => []VerifiedByItsCode
<1>1. AccountInv => VerifiedByItsCode
  BY DEF AccountInv
<1>. QED
  BY <1>1, AccountInvHolds, PTL

\* A changed password ends the session that was open, and what comes after it
\* from an older password is of a login that was under way.
THEOREM OldSessionsOverlappedHolds == Spec => []OldSessionsOverlapped
<1>1. AccountInv => OldSessionsOverlapped
  BY DEF AccountInv
<1>. QED
  BY <1>1, AccountInvHolds, PTL

\* No role twice, no role of nobody.
THEOREM OneGrantEachHolds == Spec => []OneGrantEach
<1>1. AccountInv => OneGrantEach
  BY DEF AccountInv
<1>. QED
  BY <1>1, AccountInvHolds, PTL
=============================================================================
