SPECIFICATION EditSpec
CONSTANTS
    ItemTypes = {"login"}
    Editors = {"desktop"}
    Words = {"a"}
    FieldIds = {"f"}
    MaxHistory = 1
    MaxEdits = 2
    NoEdit = NoEdit
PROPERTY
    EditsKeepOthers
CHECK_DEADLOCK FALSE
