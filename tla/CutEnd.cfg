SPECIFICATION Spec
CONSTANTS
    Char <- Letters
    MethodNameTable <- Names
    Messages <- SomeMessages
    Junk <- BadTexts
    MaxSent = 3
    MaxLineLength = 6
    MaxMethodName = 4
INVARIANT IncompleteIsStored
CHECK_DEADLOCK FALSE
