SPECIFICATION FairSpec
CONSTANTS
  Users = {u1, u2, u3, u4}
  i1 = i1
  i2 = i2
  Identities = {i1, i2}
  Addresses <- MCAddresses
  Profile <- MCProfile
  AdminEmail <- MCAdminEmail
  Empty <- MCEmpty
  Reqs = {r1, r2}
  NoUser = NoUser
  NoIdentity = NoIdentity
  NoEmail = NoEmail
  MaxDeletes = 1
  MaxFaults = 2
INVARIANTS Inv SameAccountAgain
PROPERTIES ImplementsDirectory KeepsGettingIn
