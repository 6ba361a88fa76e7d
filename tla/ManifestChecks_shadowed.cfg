\* As ManifestChecks.cfg, with redirects that stay under the image's VOLUME.
SPECIFICATION Spec
CONSTANTS
  parent = parent
  volume = volume
  sub = sub
  other = other
  Paths <- Containers
  Volume = volume
  AtOrAbove <- Nesting
  Default = Default
  config = config
  Initial <- Databases
  Objects = {config}
  OutOfBand = {}
  Branches = {b1, b2}
  Care = {"staged", "current"}
  MaxEdits = 3
PROPERTIES RowsSurvive
CHECK_DEADLOCK FALSE
