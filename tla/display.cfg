\* Every placement of four pages in five frames, every cut into segments; the
\* panel may never report.  Three pixels by five, rows of twelve bytes that
\* cross the pages of sixteen.
SPECIFICATION ScanoutFairSpec
CONSTANTS
    Pages = 4
    Frames = {1, 2, 3, 4, 5}
    Entries = 6
    PanelTries = 2
    Width = 3
    Height = 5
    PageBytes = 16
    StrideUnit = 4
INVARIANTS ScanoutTypeOK WalkExact ScansOwnMemory AnswersAgree PixelOnScreen
PROPERTIES GoesOnline OnlyForward
CHECK_DEADLOCK FALSE
