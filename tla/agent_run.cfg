SPECIFICATION FairSpec
CONSTANTS
  MaxIterationsPerAttempt = 3
  MaxRecoveryAttempts = 2
  MaxCalls = 2
INVARIANTS TurnsBounded CancelStopsAgent CallsAnswered CompletesVerified
PROPERTY RunEnds
