SPECIFICATION MCSpec
CONSTANTS
  t1 = t1
  t2 = t2
  NoMedia = NoMedia
  Tunes <- MCTunes
  Files <- MCFiles
  StartFiles <- MCFiles
  MaxGeneration = 4
INVARIANTS
  PlayingTuneNamed
  EjectOffered
  TitleCurrent
