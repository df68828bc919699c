SPECIFICATION MCSpec
CONSTANTS
  Missions = {m1, m2}
  Clients = {c1, c2}
INVARIANT TypeOK
PROPERTIES ImplementsLifecycle RetryEnds CreatedIsTaken
