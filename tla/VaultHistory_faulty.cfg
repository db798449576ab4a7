CONSTANTS
  Accounts = {a1, a2}
  Devices = {d1, d2}
  AccountOf <- TwoAccounts
  Vaults = {v1, v2}
  Keys = {k1, k2, k3}
  Texts = {t1}
  MaxVersion = 2
  Faithful = FALSE
  EpochCheck = FALSE
  Nobody = Nobody
  NoRow = NoRow
  NoHandle = NoHandle
  NoWalk = NoWalk
  NoText = NoText
  a1 = a1
  a2 = a2
  d1 = d1
  d2 = d2
SPECIFICATION Spec
INVARIANT PulledTextWasPushed
INVARIANT HandleKeyIsOwn
SYMMETRY Interchangeable
CONSTRAINT FewUploads
