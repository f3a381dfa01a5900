SPECIFICATION Spec
CONSTANTS
  Sites = {w1, w2}
  Ips = {i1}
  Sids = {s1, s2}
  Reqs = {r1}
  Jobs = {j1}
  NoSite = NoSite
  NoIp = NoIp
  NoSid = NoSid
  NoBan = NoBan
  Forever = Forever
  Bodies = {"plain", "captcha"}
  AgentScores = {0}
  BatchScores = {80}
  BanTimes = {}
  Acts = {"restart"}
  Ttl = 0
  MaxTime = 0
  MaxFaults = 0
SYMMETRY Symmetry
INVARIANTS
  AnswersNameOwnSite
  Inv
PROPERTIES
  SitesDoNotInterfere
