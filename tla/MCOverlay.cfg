CONSTANTS
    Orders <- MCOrders
    Heights = {0, 1, 2, 3}
    Widths = {2, 4, 9}
    Inputs <- MCInputs
    HelpLines <- MCHelpLines
    Rune <- MCRune
    minWidth = 3
    splitWidth = 8
    treeMin = 3
    treeMax = 4
    horizontalStep = 2
    maxPromptDigits = 1
    Digits = {1}
    maxNodeID = 9
    TabWidth = 3
    Stride = 3
    MaxCluster = 3
SPECIFICATION OverlaySpec
INVARIANTS
    OverlayStaysOnText
