SPECIFICATION Spec
CONSTANTS
  MaxIterationsPerAttempt = 3
  MaxRecoveryAttempts = 2
  MaxCalls = 1
INVARIANT GroundedWhenToolsUsed
