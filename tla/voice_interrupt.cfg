SPECIFICATION Spec
CONSTANTS
  Recognisers = {r1}
  MaxTexts = 2
  MaxOpens = 3
  MaxTimers = 1
  MaxMics = 2
  None = None
CHECK_DEADLOCK FALSE
PROPERTY InterruptHalts
