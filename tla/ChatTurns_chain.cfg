SPECIFICATION Spec
CONSTANTS
    u1 = u1
    u2 = u2
    s1 = s1
    s2 = s2
    None = None
    Users = {u1}
    Sids = {s1}
    Turns = {t1, t2}
    Edits = {e1}
    Planner = TRUE
    MaxCrashes = 0
CHECK_DEADLOCK FALSE
SYMMETRY Symmetry
PROPERTIES
    PriorIsPrecedingAnswer
