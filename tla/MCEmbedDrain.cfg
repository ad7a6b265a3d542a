SPECIFICATION DrainSpec
CONSTANTS
  Rows = {"a", "b"}
  Drains = {"x", "y"}
  Batch = 2
  Ceiling = 2
  Attempts = 2
  Edited = {"a"}
  MaxText = 1
  MaxLate = 1
INVARIANTS
  VectorsAreOfTheirText
  OneDrainUnlessForgotten
PROPERTIES
  EveryDrainEnds
