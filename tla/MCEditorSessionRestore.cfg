SPECIFICATION PromptSpec
CONSTANTS
    f1 = f1
    f2 = f2
    Field = {f1, f2}
    MaxEdit = 1
    Historic = Historic
    NoCanvas = NoCanvas
    Version <- MCVersion
INVARIANTS RestoreIsPublished
