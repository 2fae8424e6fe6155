\* Twelve rules in four zones, from New Year 2024 to the spring of 2025.
CONSTANTS
  None = None
  FirstYear = 2024
  FirstWeekday = 1
  FirstDay = 20
  LastDay = 440
  Rules <- MCRules
  Zones <- MCZones
SPECIFICATION DatesSpec
INVARIANTS TicksMatchBackfill BackfillResumes WeeklyDriftsOneDay
PROPERTY NextOccurrenceKept
CHECK_DEADLOCK FALSE
