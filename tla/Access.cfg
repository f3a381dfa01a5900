SPECIFICATION FairSpec
CONSTANTS
  Users = {u1}
  Sids = {s1}
  Keys = {k1}
  Reqs = {r1, r2}
  NoUser = NoUser
  NoSid = NoSid
  NoKey = NoKey
  Forever = Forever
  KeyTimes = {1}
  Ttl = 1
  MaxTime = 2
INVARIANTS
  LoggedOutIsRefused
  RevokedKeyIsRefused
  Inv
PROPERTIES
  ImplementsLedger
  AbandonedIsReaped
  PeopleChangeKeys
