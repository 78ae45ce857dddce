CONSTANTS
    Requests <- MCRequests
    Replies <- MCReplies
SPECIFICATION Spec
INVARIANTS OnePerInput FirstErrorEndsCall EarlierResultsSurvive
CHECK_DEADLOCK FALSE
