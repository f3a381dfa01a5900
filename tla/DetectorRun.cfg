SPECIFICATION Spec
CONSTANTS
  Agents <- MCAgents
  Batches <- MCBatches
INVARIANTS
  RiskIsPercent
  PersonIsAllowed
  RobotIsStopped
PROPERTIES
  EvidenceOnlyRaises
\* A run ends with its answer.
CHECK_DEADLOCK FALSE
