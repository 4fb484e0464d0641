SPECIFICATION Spec
CONSTANTS
  boss = boss
  mail = mail
  pw = pw
  owner = owner
  staff = staff
  r1 = r1
  r2 = r2
  Emails = {boss, mail}
  Boss = boss
  Passwords = {pw}
  Roles = {owner, staff}
  Owner = owner
  Assigned <- OneRole
  Requests = {r1, r2}
  MaxSerial = 4
INVARIANTS AccountInv VerifiedByItsCode OldSessionsOverlapped OneGrantEach
CHECK_DEADLOCK FALSE
SYMMETRY Both
