CONSTANTS
  ann = ann
  Ann = Ann
  bob = bob
  Emails = {ann, Ann, bob}
  Canonical <- Lowercase
  Passwords = {p1}
  Salts = {s1, s2}
  Ephemerals = {x1, x2}
  Sessions = {b1, b2}
  Logins = {l1, l2}
  SingleUse = TRUE
  ZeroB = ZeroB
  ForeignB = ForeignB
  NoAccount = NoAccount
  NoSession = NoSession
  NoLogin = NoLogin
SPECIFICATION Spec
INVARIANT TypeOK
PROPERTY ImplementsMutualAuth
SYMMETRY Interchangeable
CHECK_DEADLOCK FALSE
