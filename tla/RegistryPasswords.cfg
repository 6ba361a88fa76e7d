\* Two checkouts, two secrets of which one is set twice; every precaution.
SPECIFICATION Spec
CONSTANTS
  Checkouts = {c1, c2}
  Uses <- TwoSecrets
  LastPair = 3
  Care <- Precautions
  NoName = NoName
INVARIANTS TypeOK Exit0MeansInStep MainInStep NeverBehind
