------------------------------ MODULE MCAccounts ------------------------------
(***************************************************************************)
(* Small instances of Accounts: the owner's address and one more.          *)
(***************************************************************************)
EXTENDS AccountProperties, TLC

CONSTANTS boss, mail, pw, owner, staff, r1, r2

OneRole == {{owner}, {staff}}

Both == Permutations({r1, r2})
=============================================================================
