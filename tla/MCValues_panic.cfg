\* A node whose byte seven or eight lies inside a character is dialled.
SPECIFICATION MCSpec
CONSTANTS
    Items <- SomeItems
    MaxItems = 1
    Chars <- AllChars
    NodeLists <- SomeNodes
    Wide <- NotASCII
    MayEncrypt = FALSE
INVARIANTS
    ConversionReturns
CHECK_DEADLOCK FALSE
