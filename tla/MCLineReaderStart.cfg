SPECIFICATION Spec
CONSTANTS
    LineWords = 40
    HTotal = 105
    Lines = 5
    VTotal = 11
INVARIANTS GoodPixelIsRight
