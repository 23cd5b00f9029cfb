SPECIFICATION Spec
CONSTANTS
  Sources <- MCSources
  OtherLetter = {"r"}
  Keywords <- MCKeywords
INVARIANTS
  TypeOK
  InOrder
  NothingLost
  LinesRight
  OnOneLineInWindows
  NumbersClassified
PROPERTY
  EndsOrHangs
