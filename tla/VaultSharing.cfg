\* Three users of one vault, its first key and two more, two versions.
CONSTANTS
  ann = ann
  bob = bob
  eve = eve
  k1 = k1
  k2 = k2
  k3 = k3
  Users <- MCUsers
  Creator = ann
  Keys <- MCKeys
  FirstKey = k1
  Vault = Vault
  Text = Text
  MaxVersion = 2
  MaxUploads = 4
  MaxOpen = 2
  Zero = Zero
  Malformed = Malformed
  Null = Null
  Nobody = Nobody
  NoRow = NoRow
  NoHandle = NoHandle
  NoWalk = NoWalk
SPECIFICATION Spec
SYMMETRY Interchangeable
CONSTRAINT Bounds
INVARIANTS
  TypeOK
  MembersOpenHistory
PROPERTIES
  ImplementsAccessList
