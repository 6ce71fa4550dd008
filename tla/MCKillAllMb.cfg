\* three shells: text operators on the same files, killallmb, commands being started
SPECIFICATION Spec
CONSTANTS
    Shells = {1, 2, 3}
    Lines <- MCLines
    Files = {"a", "b", "c"}
    Texts <- MCTexts
    Names <- MCNames
    Txt <- MCTxt
    Chars = {"x", "w", "y", " ", "z"}
    Blanks = {" "}
    Width = 2
    OpenFaults = 1
    CloseFaults = 1
    Terminals = {"t1", "t2"}
    Places <- MCPlaces
INVARIANTS OutcomeReported ReadsAContent KillallSpares KillallReaches
CHECK_DEADLOCK FALSE
