SPECIFICATION Spec
CONSTANTS
    c1 = c1
    c2 = c2
    None = None
    Convs = {c1, c2}
    Start <- Two
    Sends = {x1, x2}
    Clicks = {k1}
    MaxPicks = 1
CHECK_DEADLOCK FALSE
SYMMETRY Symmetry
INVARIANT
    TranscriptIsActive
