\* Every step kept; a second checkout whose branch can go stale; Flux polls fairly.
SPECIFICATION FairSpec
CONSTANTS
  Keys = {k1, k2}
  Files = {f1}
  Config = Config
  Checkouts = {c1, c2}
  Rotators = {c1}
  Editors = {c2}
  InitKey = k1
  NoKey = NoKey
  Procedure <- AllSteps
INVARIANTS ClusterTypeOK CiphertextKeyStored NeverStalled ToolsCanRead RetiredReadsNothing
PROPERTIES DeclaredAfterRotated MainIsAtomic FluxCatchesUp
