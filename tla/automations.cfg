SPECIFICATION MCSpec
CONSTANTS
  Automations = {a1, a2}
  Users = {u1, u2}
  Intervals = {0, 2}
  Day = 2
  Null = Null
  Blank = Blank
  Malformed = Malformed
  MaxTime = 3
  MaxFaults = 1
INVARIANTS RulesKept StopsFiring
PROPERTIES FiresSpaced DueFires
