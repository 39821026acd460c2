SPECIFICATION MCSpec
CONSTANTS
  None = None
  Sessions = {s1, s2}
  Products = {pad, disc}
  Pad = pad
  Categories = {brakes, parts}
  Brakes = brakes
  Cars = {corolla, civic}
  Corolla = corolla
  ImageLists <- Lists
  MaxStock = 1
  MaxQuantity = 1
  MaxRequests = 2
  MaxCrashes = 1
  Users = {asker, fitter}
  Asker = asker
  Fitter = fitter
  Mechanics = {fitter, asker}
  Admins = {}
  Questions = {why, how}
  Why = why
SYMMETRY Interchangeable
INVARIANTS
  TypeOK
  AnswersMatchStatus
  NoLoneDuplicates
CHECK_DEADLOCK FALSE
