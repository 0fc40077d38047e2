SPECIFICATION FairSpec
CONSTANT MaxFrame <- MCMaxFrame
INVARIANTS
  NoTearing
  NoLostWakeup
PROPERTIES
  ImplementsLatestFrame
  FrameShown
  NoticeTaken
  ShutdownEnds
CHECK_DEADLOCK FALSE
