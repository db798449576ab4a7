CONSTANTS
  Accounts = {a1}
  Devices = {d1, d2}
  AccountOf <- OneAccount
  Vaults = {v1}
  Keys = {k1, k2, k3}
  Texts = {t1, t2}
  MaxVersion = 2
  Faithful = TRUE
  EpochCheck = TRUE
  Nobody = Nobody
  NoRow = NoRow
  NoHandle = NoHandle
  NoWalk = NoWalk
  NoText = NoText
  a1 = a1
  a2 = a2
  d1 = d1
  d2 = d2
SPECIFICATION Spec
INVARIANT TypeOK
INVARIANT StoredKeyAloneOpensHistory
PROPERTY ImplementsLog
SYMMETRY Interchangeable
