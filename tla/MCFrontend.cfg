SPECIFICATION FrontendSpec
CONSTANTS
  Sources <- MCTexts
  OtherLetter <- MCLetters
  Keywords <- MCAllKeywords
  MaxNames = 2
  MaxItems = 2
  MaxBlock = 2
  MaxProgram = 3
INVARIANTS
  TypeOK
  InOrder
  NothingLost
  LinesRight
  OnOneLineInWindows
  NumbersClassified
  ReadOrReported
  ArraysHold
PROPERTIES
  EndsOrHangs
  StatementsAdvance
