\* Three renewals; the get of the Secret may fail, that of the ConfigMap answers.
SPECIFICATION FairSpec
CONSTANTS
  LastSerial = 3
  Answers = {"configmap"}
  NoHash = NoHash
  EmptyHash = EmptyHash
INVARIANTS TypeOK RecordedIsLoaded
PROPERTIES ServedIsCurrent
