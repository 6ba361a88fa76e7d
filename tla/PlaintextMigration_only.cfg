\* verify --only one of two files.
SPECIFICATION Spec
CONSTANTS
  t1 = t1
  t2 = t2
  Files = {f1, f2}
  Dotenv = {f1}
  Texts = {t1, t2}
  Drafts <- MCDrafts
  Checkouts = {m1}
  Care = {"alone", "commit", "freeze"}
  None = None
INVARIANTS CleanIsTrue
