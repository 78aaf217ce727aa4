SPECIFICATION Spec
CONSTANTS
    Chars = {"c"}
    Words <- TwoWords
    History <- OneLine
    Dims <- BothDims
    DefaultDim <- Small
    RegLines = {3, 6}
    Toggles = {"code"}
    Resizes <- ShortCodeWindow
    TabSize = 2
    MaxText = 4
    MaxScript = 5
INVARIANTS
    CursorOnText
PROPERTIES
    EditorsImplemented
