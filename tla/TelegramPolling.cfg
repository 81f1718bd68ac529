SPECIFICATION Spec
CONSTANTS
  m1 = m1
  m2 = m2
  t0 = t0
  t1 = t1
  t2 = t2
  l1 = l1
  l2 = l2
  NoJob = NoJob
  Torn = Torn
  Messages <- TwoMessages
  Texts <- ThreeTexts
  Lines <- TwoLines
  Parsed <- Lines012
  Updates <- TextAndVoice
  MaxUpdates = 3
  MaxFaults = 2
INVARIANTS
  NothingLost
  VoiceDuplicatesNeedFaults
PROPERTIES
  ReceiptsKeepDeleted
  ImplementsIntake
  EveryUpdateIsHandled
CHECK_DEADLOCK FALSE
