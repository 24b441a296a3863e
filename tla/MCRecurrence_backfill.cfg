SPECIFICATION Spec
CONSTANTS
  first = first
  daily = daily
  other = other
  Definitions <- OneDefinition
  Rules <- TwoRules
  Due <- TheDue
  Start <- TheStart
  Until <- TheUntil
  Closes <- TheCloses
  Limits = {1}
  Scan = 2
  MaxDay = 3
  MaxTasks = 2
  MaxActs = 3
  MaxCrashes = 0
PROPERTIES
  BackfillStands
