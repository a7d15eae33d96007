CONSTANTS
    Tokens <- MCTokens
    Messages <- MCMessages
    HeaderNames <- MCNames
    Numbers <- MCNumbers
    NumberOf <- MCNumberOf
    CutInLine = FALSE
    None = None
SPECIFICATION ParserSpec
INVARIANTS
    CutsDoNotMatter
    ReadyInTime
CHECK_DEADLOCK FALSE
