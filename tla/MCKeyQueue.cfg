SPECIFICATION FairSpec
CONSTANTS
  Key <- MCKey
  DigitKey <- MCDigitKey
  MaxSongs = 1
  MaxQueuedKeys = 4
PROPERTIES
  ImplementsKeyChannel
  BurstIsPrefix
  StopThenRestore
