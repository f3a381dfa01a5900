SPECIFICATION Spec
CONSTANTS
  Users = {u1}
  Sites = {s1, s2}
  Domains = {d1}
  Reqs = {r1, r2}
  NoRow = NoRow
  NoId = NoId
  MaxEdits = 2
INVARIANTS SitesHaveOwners
PROPERTIES LostOnlyToOverlap PasswordsChangeByHolders DeletedStaysGone
SYMMETRY Symmetry
CHECK_DEADLOCK FALSE
