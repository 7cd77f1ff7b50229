SPECIFICATION Spec
CONSTANTS
    Char <- Letters
    MethodNameTable <- Names
    Messages <- SomeMessages
    Junk <- BadTexts
    MaxSent = 3
    MaxLineLength = 6
    MaxMethodName = 4
INVARIANTS TypeOK OutputExact ThrowsOnlyOnJunk
CHECK_DEADLOCK FALSE
