CONSTANTS
    a = a
    Chars = {a}
    fb_width = 2
    fb_height = 3
    FontWidth = 1
    FontHeight = 1
    BUF_SIZE = 5
    Prompts <- MCPrompts
    Outputs <- MCOutputs
SPECIFICATION LineSpec
INVARIANTS LineOnScreen
