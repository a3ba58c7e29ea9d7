SPECIFICATION SpecWithView
CONSTANTS
  Scanner = Scanner
  NoImage = NoImage
  Clients = {c1}
  PageLimit = 4
  CombineLimit = 3
  Scenes <- Everything
\* A deleted scan takes no more requests.
CHECK_DEADLOCK FALSE
INVARIANTS
  TypeOK
  IdleConsistent
  ServesDocument
PROPERTY ImplementsPageDoc
