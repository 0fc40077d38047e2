SPECIFICATION HostSpec
CONSTANTS
  HostKey <- MCHostKey
  Key <- MCKey
  DigitKey <- MCDigitKey
  MaxSongs = 2
  MaxQueuedKeys = 4
  MaxMessages = 6
INVARIANTS
  NothingStuck
  NoTapTwice
  ShiftedTogether
PROPERTY NoTapLost
CHECK_DEADLOCK FALSE
