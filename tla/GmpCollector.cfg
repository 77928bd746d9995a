SPECIFICATION Spec
CONSTANTS
    Labels <- MCLabels
    Values <- MCValues
    Empty = ""
    Sanitized <- MCSanitized
    Responses <- MCResponses
INVARIANTS
    FamiliesMatchResponse
    OneFamilyPerName
    NoLabelTwice
    SeriesStayApart
CHECK_DEADLOCK FALSE
