CONSTANTS
    Apis = {"fetch", "stream"}
    Urls <- MCUrls
    MaxAddrs = 2
    MsgSize = 2
    SizeText <- MCSizeText
    Responses <- MCResponses
CHECK_DEADLOCK FALSE
SPECIFICATION Spec
INVARIANTS NonSuccessIsMapped
