SPECIFICATION Spec
CONSTANTS
  NotANumber = NotANumber
  NoBorders = NoBorders
  Nothing = Nothing
  Word <- Words
  Numeral <- Numbers0to9
  Padded <- NoPadding
  Setup <- FallbackOnly
  Build <- Version
  MaxDataFields = 2
  EventData <- Data
  Calls <- Tracked
INVARIANT DeclaredIsHashed
