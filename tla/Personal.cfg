CONSTANTS
  Links = {l1, l2, l3}
  Handlers = {h1, h2}
  Challenges = {c1, c2}
  Values = {1, 2}
SPECIFICATION Spec
CONSTRAINT QuietDeclarations
SYMMETRY Symmetry
INVARIANT CredentialsServeOnce MentionsHidden AccountsWatched
PROPERTY PlaceholdersStay
CHECK_DEADLOCK FALSE
