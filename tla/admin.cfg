SPECIFICATION Spec
CONSTANTS
  Size = 2
  Runs = {1, 2, 3}
  Commands <- SixCommands
INVARIANTS
  TypeOK
  FileByRank
  DoneMeansEverywhere
  ListedNodesServe
