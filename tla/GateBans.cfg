SPECIFICATION Spec
CONSTANTS
  Sites = {w1}
  Ips = {i1}
  Sids = {s1}
  Reqs = {r1}
  Jobs = {j1}
  NoSite = NoSite
  NoIp = NoIp
  NoSid = NoSid
  NoBan = NoBan
  Forever = Forever
  Bodies = {"plain", "bad"}
  AgentScores = {0}
  BatchScores = {80}
  BanTimes = {1}
  Acts = {"delete", "ban", "unban", "restart"}
  Ttl = 0
  MaxTime = 1
  MaxFaults = 1
SYMMETRY Symmetry
INVARIANTS
  AutoBanNamesVisitor
PROPERTIES
  ImplementsLedger
