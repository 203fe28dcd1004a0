SPECIFICATION InputsSpec
CONSTANTS
  MaxMessages = 4
  Texts <- MCTexts
  Leftover <- MCLeftover
  BufLen = 6
INVARIANTS BlocksWhole LostOnlyByClear TypeOK FirstLineDecides
PROPERTIES CuttingEnds AnswerFits FeedObeys
