\* The daily run and one by hand on an account whose owner edits between runs.
SPECIFICATION FairSpec
CONSTANTS
  Accounts = {a1}
  Names = {own, other}
  Own = own
  Rules = {r1}
  Jobs = {j1, j2}
  Scheduled = {j1}
  Quiet = TRUE
  NoName = NoName
  NoBody = NoBody
  NoAccount = NoAccount
INVARIANTS TypeOK NothingSilent
PROPERTIES RulesSurvive UnmanagedUntouched ArchivingGoesOn ArchivesOrAlerts
