\* The get of the ConfigMap may fail, that of the Secret answers.
SPECIFICATION Spec
CONSTANTS
  LastSerial = 2
  Answers = {"secret"}
  NoHash = NoHash
  EmptyHash = EmptyHash
INVARIANTS RecordedIsLoaded
