SPECIFICATION FairSpec
CONSTANTS
  MaxVectors = 2
  MaxEngines = 2
  MaxServers = 2
INVARIANTS TypeOK PredictionsWhole VectorsInOrder
CHECK_DEADLOCK FALSE
PROPERTIES NewVectorIsTaken ImplementsBoard
