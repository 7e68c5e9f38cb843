SPECIFICATION Spec
CONSTANTS
  Strings <- MCStrings
  StrLen <- MCStrLen
  Scalars <- MCScalars
  IntOf <- MCIntOf
  MaxText = 9
  NumKeys = {"port"}
  StrKeys = {"addr"}
  CmdNums = {0, 1}
  CmdStrs = {"cmd"}
  MaxOptions = 1
  Points <- MCPoints
  MaxChars = 2
  Beyond = {0, 48, 101, 34}
  Symbols = {48, 49, 101, 43, 45, 46}
  MaxSymbols = 5
  IntLimit = 1011
INVARIANT TypeOK
INVARIANT PassesAgree
INVARIANT BlocksFit
INVARIANT MemoryReturned
INVARIANT TreeIsText
INVARIANT StringsDecoded
INVARIANT EndIsSeen
INVARIANT NumbersRead
INVARIANT ConfigIsFirstOffer
PROPERTY StartupEnds
