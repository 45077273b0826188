SPECIFICATION Spec
CONSTANTS
    Letters <- MCLetters
    Decimals <- MCDecimals
    Superscripts <- MCSuperscripts
    Numerals <- MCNumerals
    Others <- MCOthers
    NonAscii <- MCNonAscii
    LongestInteger = 2
    Typed <- MCTyped
    Beginnings <- MCBeginnings
    LongestRest = 3
INVARIANTS
    ReadsByGrammar
    HeaderReadsBack
CHECK_DEADLOCK FALSE
