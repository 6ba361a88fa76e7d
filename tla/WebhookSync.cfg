\* Two images, one visible repository, pages of two hooks of four, three tokens.
SPECIFICATION Spec
CONSTANTS
  app = app
  private = private
  r1 = r1
  r2 = r2
  Images <- TwoImages
  Repos = {r1, r2}
  Visible = {r1}
  NoRepo = NoRepo
  Publisher <- TwoSources
  Annotated <- OneAnnotated
  Derived <- OnePath
  PageSize = 2
  MaxHooks = 4
  MaxToken = 3
INVARIANTS TypeOK SummaryIsTrue OneHook
