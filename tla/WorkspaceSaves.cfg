SPECIFICATION Spec
CONSTANTS
  Clients = {c1, c2}
  Handlers = {h1, h2}
  ThemeEdits = {t1}
  WidgetEdits = {w1}
  MaxRevision = 3
  None = None
SYMMETRY Symmetry
INVARIANTS NoLostUpdate NeverOlderThanRevision SavedIsShown RevisionsAudited
CHECK_DEADLOCK FALSE
