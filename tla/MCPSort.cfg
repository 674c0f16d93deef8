CONSTANTS
  record_num = 4
  Asked = 3
  Freqs = {1, 2}
  PipeSize = 1
  MaxLost = 2

SPECIFICATION FairPSortSpec

INVARIANTS
  PSortTypeOK
  ChunksCover
  RecordsTravel
  ChildrenHeard
  MergesInOrder
  MergesEach

PROPERTIES
  ImplementsSort
  EverybodyEnds
