CONSTANTS
  UsizeWidth = 8
  Messages <- MCMessages
SPECIFICATION Spec
INVARIANT ReadValuesAreWritten
INVARIANT ReaderOutcome
PROPERTY EveryReadReturns
