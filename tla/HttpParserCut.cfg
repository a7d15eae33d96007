CONSTANTS
    Tokens <- MCTokens
    Messages <- MCMessages
    HeaderNames <- MCNames
    Numbers <- MCNumbers
    NumberOf <- MCNumberOf
    CutInLine = TRUE
    None = None
SPECIFICATION ParserSpec
INVARIANTS
    SkipsCR
CHECK_DEADLOCK FALSE
