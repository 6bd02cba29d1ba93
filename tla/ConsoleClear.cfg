CONSTANTS
    Width = 4
    Height = 3
    Lines = 6
    PromptWidth = 1
    MaxInput = 256
    Chars = {"x"}
    Outputs <- MCOutputs
SPECIFICATION Spec
INVARIANT
    EmptyLineIsBlank
