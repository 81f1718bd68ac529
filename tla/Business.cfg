SPECIFICATION Spec
CONSTANTS
  a = a
  b = b
  NoItem = NoItem
  Msgs <- ThreeMsgs
  Texts <- TwoTexts
  Updates <- ChatUpdates
  BufferLimit = 2
  MaxUpdates = 4
  MaxFaults = 2
  MaxMinutes = 2
INVARIANTS
  CardTwiceNeedsSlip
  TaskTwiceNeedsFault
  ReadBeforePassed
PROPERTIES
  NoCardAfterReceipt
  CandidateWaits
  CandidateShown
  CatchesUp
CHECK_DEADLOCK FALSE
