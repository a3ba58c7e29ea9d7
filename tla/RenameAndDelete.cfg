SPECIFICATION Spec
CONSTANTS
  c1 = c1
  c2 = c2
  Scanner = Scanner
  NoImage = NoImage
  Clients = {c1, c2}
  CombineLimit = 2
  PageLimit = 2
  Scenes <- RenamesAndDeletes
INVARIANT IdleJobIsReadable
