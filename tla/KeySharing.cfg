CONSTANTS
  ann = ann
  bob = bob
  d1 = d1
  d2 = d2
  d3 = d3
  Accounts = {ann, bob}
  Devices = {d1, d2, d3}
  AccountOf <- Logins
  Seeds = {s1, s2}
  Keys = {k1, k2, kN}
  Draws = {r1, r2}
  NetworkKey = kN
  NetworkDraw = rN
  Zero = Zero
  Malformed = Malformed
  Nobody = Nobody
  NoKeypair = NoKeypair
  Nothing = Nothing
SPECIFICATION Spec
INVARIANT TypeOK
INVARIANT OpenedIsWhole
INVARIANT EitherPrimitiveSuffices
INVARIANT SharesStayReadable
PROPERTY ImplementsKeyGrants
CONSTRAINT Bounds
SYMMETRY Interchangeable
CHECK_DEADLOCK FALSE
