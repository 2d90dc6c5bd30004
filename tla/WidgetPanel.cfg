SPECIFICATION Spec
CONSTANTS
  s1 = s1
  s2 = s2
  f1 = f1
  Slots <- TwoSlots
  Files <- OneFile
  Links <- ToTickets
  TypedIn <- SavedAndNot
  Histories <- EarlierOne
  MaxCalls = 4
  MaxTexts = 2
  MaxEntries = 1
  MaxFaults = 1
SYMMETRY PanelSymmetry
INVARIANTS
  FieldsKept
  RaisedOnce
  DescriptionKept
  FilesKept
  AnswersFit
CHECK_DEADLOCK FALSE
