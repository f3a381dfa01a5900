SPECIFICATION FairSpec
CONSTANTS
  Sites = {w1}
  Ips = {i1}
  Sids = {s1}
  Reqs = {r1}
  Jobs = {j1}
  NoSite = NoSite
  NoIp = NoIp
  NoSid = NoSid
  NoBan = NoBan
  Forever = Forever
  Bodies = {"plain"}
  AgentScores = {0}
  BatchScores = {80}
  BanTimes = {}
  Acts = {"status", "delete", "unban"}
  Ttl = 0
  MaxTime = 1
  MaxFaults = 1
PROPERTIES
  StaleIsReaped
  VerdictIsCarriedOut
  ListingShutsOut
