SPECIFICATION FairSpec
CONSTANTS
  Files = {f1, f2}
  Users = {u1}
  Ups = {w1}
  Ops = {o1, o2}
  NoFile = NoFile
  NoUser = NoUser
  Chunks = 1
  MaxFaults = 1
INVARIANTS Inv AcknowledgedIsStored CompletedIsCounted
PROPERTIES ImplementsLedger AcknowledgedIsRecorded UploadsEnd ObjectDeletionFinishes
CHECK_DEADLOCK FALSE
