SPECIFICATION FairSpec
CONSTANTS
  Files = {f1}
  Users = {u1}
  Ups = {w1}
  Ops = {o1}
  NoFile = NoFile
  NoUser = NoUser
  Chunks = 1
  MaxFaults = 1
PROPERTY DeletionFinishes
CHECK_DEADLOCK FALSE
