\* Two branches, four paths, three edits; it stops when those are made.
SPECIFICATION Spec
CONSTANTS
  parent = parent
  volume = volume
  sub = sub
  other = other
  Paths <- Containers
  Volume = volume
  AtOrAbove <- Nesting
  Default = Default
  config = config
  Initial <- Databases
  Objects = {config}
  OutOfBand = {}
  Branches = {b1, b2}
  Care = {"redirects", "staged", "current"}
  MaxEdits = 3
INVARIANTS TypeOK PodStarts
PROPERTIES RowsSurvive
CHECK_DEADLOCK FALSE
