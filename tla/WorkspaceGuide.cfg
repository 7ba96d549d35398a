SPECIFICATION SpecGuide
CONSTANTS
  Clients = {c1, c2}
  Guides = {c1}
  Handlers = {h1, h2}
  ThemeEdits = {t1}
  WidgetEdits = {w1}
  MaxRevision = 3
  None = None
INVARIANT OthersEditsKept
CHECK_DEADLOCK FALSE
