\* Two files, of which sops encrypts one as dotenv, two texts, every precaution.
SPECIFICATION Spec
CONSTANTS
  t1 = t1
  t2 = t2
  Files = {f1, f2}
  Dotenv = {f1}
  Texts = {t1, t2}
  Drafts <- MCDrafts
  Checkouts = {m1}
  Care = {"alone", "commit", "whole", "freeze"}
  None = None
INVARIANTS TypeOK CleanIsTrue
PROPERTIES DeletedIsHeld PristineKept
