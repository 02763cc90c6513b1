SPECIFICATION Spec
CONSTANTS
  Versions = {v1, v2, v3}
  Accepted = {v1, v2}
  None = None
  Operators = {o1, o2}
  MaxCommands = 4
  MaxDrift = 1
SYMMETRY Alike
INVARIANTS ProductionAliasMatches AgentAliasMatches RollbackTargetExists ResolveFailsOnDriftOnly
PROPERTIES PreviousIsPredecessor ImplementsRelease
\* When all commands are used up, nothing is left to do.
CHECK_DEADLOCK FALSE
