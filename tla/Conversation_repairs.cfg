SPECIFICATION Spec
CONSTANTS
    v1 = v1
    v2 = v2
    None = None
    Values <- MCValues
    Tools <- MCTools
    Params <- MCParams
    Supports <- MCSupports
    Requires <- MCRequires
    Lists <- MCLists
    SkipStatus <- MCSkipStatus
    EntityOf <- MCEntityOf
    Questions <- MCQuestions
    Candidates <- MCCandidates
PROPERTY
    FollowUpKeepsRepairs
