SPECIFICATION MCSpec
CONSTANTS
    u1 = u1
    u2 = u2
    s1 = s1
    s2 = s2
    None = None
    Users = {u1, u2}
    Sids = {s1, s2}
    Turns = {t1, t2, t3}
    Edits = {e1}
    Planner = TRUE
    MaxCrashes = 1
CHECK_DEADLOCK FALSE
SYMMETRY Symmetry
CONSTRAINT Bound
INVARIANTS
    TypeOK
    MessagesHaveOwner
    QuestionBeforeAnswer
    SavedIsDurable
    PriorOfSameConversation
PROPERTIES
    TitleOnlyRenamed
    OnlySuccessMovesPrior
    FollowUpSeesAnswer
