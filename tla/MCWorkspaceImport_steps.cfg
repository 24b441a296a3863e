\* Two tabs, the import and two forks of it, two writes of other people.
CONSTANTS
  work = work
  part = part
  note = note
  folder = folder
  order = order
  Ids = {work, part, note, folder, order}
  NoId = NoId
  Orders <- TheOrders
  Selections <- MostSelections
  Tabs = {t1, t2}
  MaxJournals = 3
  MaxOthers = 2
  MaxStops = 1
SPECIFICATION Spec
SYMMETRY TabSymmetry
INVARIANTS
  StepsOnceInOrder
  JournalKnows
  ReviewedHead
  OneChain
  
PROPERTIES
  DecidedOverwrites
CHECK_DEADLOCK FALSE
