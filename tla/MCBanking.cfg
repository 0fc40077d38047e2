SPECIFICATION BankSpec
CONSTANTS
  Image <- MCImage
  IoAddress <- MCIoAddress
  IoValue <- MCIoValue
INVARIANTS
  IndexExact
  EjectedIsGone
PROPERTIES
  EveryChangeRemaps
  NewCartBoots
