\* The owner saves between the job's GETSCRIPT and its PUTSCRIPT.
SPECIFICATION Spec
CONSTANTS
  Accounts = {a1}
  Names = {own}
  Own = own
  Rules = {r1, r2}
  Jobs = {j1}
  Scheduled = {j1}
  Quiet = FALSE
  NoName = NoName
  NoBody = NoBody
  NoAccount = NoAccount
PROPERTIES RefreshKeepsRules
