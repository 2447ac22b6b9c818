SPECIFICATION MediaSpec
CONSTANTS
  Capacity = 3
  Generations = 4
INVARIANTS
  QueuesSound
  PicturesExact
  PoolInv
  NoUseAfterRelease
  ClientSound
  ViewerSound
PROPERTIES
  AnswersForced
  OnlyLiveShown
CHECK_DEADLOCK FALSE
