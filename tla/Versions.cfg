SPECIFICATION Spec
CONSTANTS
  bad = bad  pad1 = pad1  pad2 = pad2
  NotANumber = bad
  Padded <- PaddedParts
  NoBorders = NoBorders
  Nothing = Nothing
  Version <- Strings
  Published <- Lists
INVARIANTS TypeOK OneAccepts GatesAgree
PROPERTY NeverGoesBack
