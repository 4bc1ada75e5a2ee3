SPECIFICATION PureSpec
CONSTANTS
  Bits <- MCBits
  Size <- MCSize
  MaxBlocks = 8
  Null = Null
  Inputs <- MCInputs
  Queries <- MCQueries
  Rounds = 10
  Texts <- MCTexts
  Hosts4 <- MCHosts4
  Hosts6 <- MCHosts6
  NoAddress = NoAddress
INVARIANTS
  TypeOK
  CoversExactly
  CoverIsMinimal
  HostsMatchTheirNumber
  MeantIsDecoded
  CutLosesOnlyATail
  LoopsAreRefused
  QueryIsReadBack
  TextIsCanonical
  NarrowestScopeWins
CHECK_DEADLOCK FALSE
