SPECIFICATION Spec
CONSTANTS
    Word = 16
    fW = 4
    fH = 3
    ClearMax = 3
    MaxPixels = 5
    MaxPerTick = 2
    Rects <- RectSet
INVARIANTS TypeOK PaintsInside RectIsClip TickBound
