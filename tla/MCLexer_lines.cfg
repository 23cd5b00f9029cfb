SPECIFICATION Spec
CONSTANTS
  Sources <- MCSources
  OtherLetter = {"r"}
  Keywords <- MCKeywords
INVARIANT OnOneLine
