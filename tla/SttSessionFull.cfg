CONSTANTS
    MaxPushes = 3
    MaxFinishes = 3
    MaxSegments = 2
    Errors = {"Network", "Timeout", "RateLimited"}
SPECIFICATION Spec
INVARIANTS FullTranscript
CHECK_DEADLOCK FALSE
