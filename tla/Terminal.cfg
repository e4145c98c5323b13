CONSTANTS
    Chars = {a}
    fb_width = 3
    fb_height = 2
    FontWidth = 2
    FontHeight = 1
    CURSOR_SIZE = 2
    Shape <- MCShape
    MouseMaxX = 2
    MouseMaxY = 1
SPECIFICATION Spec
INVARIANTS CursorOnScreen PointerRestoresText
