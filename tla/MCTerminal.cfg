SPECIFICATION Spec
CONSTANTS
    WIDTH = 2
    LINE_COUNT = 2
    Chars = {"x"}
    MaxLine = 2
    MaxState = 1
    BUF = 8
    MaxSaved = 3
    MaxCommands = 2
    MaxOther = 1
    OldTexts <- MCOldTexts
    Outputs <- MCOutputs
    EditorName <- MCEditorName
INVARIANTS VisibleIsExecuted EditorShowsText
PROPERTIES ImplementsEditor
CHECK_DEADLOCK FALSE
