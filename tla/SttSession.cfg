CONSTANTS
    MaxPushes = 3
    MaxFinishes = 3
    MaxSegments = 2
    Errors = {"Network", "Timeout", "RateLimited"}
SPECIFICATION Spec
INVARIANTS TypeOK AudioInOnePlace EventsMatchResult
CHECK_DEADLOCK FALSE
