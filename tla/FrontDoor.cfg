SPECIFICATION FairFrontSpec
CONSTANTS
  Keys = {csrf}
  CSRF = csrf
  Reqs = {t1, t2}
  Boxes = {b1,b2,b3}
  NoBox = NoBox
  NoKey = NoKey
  Burst = 2
  Idle = 3
  MaxStall = 1
  Tokens = {c1,c2,c3}
  NoToken = NoToken
  MaxFaults = 1
INVARIANTS OnlyRacesGiveMore RefusedOnlyAfterTrouble
PROPERTY GetsThrough
