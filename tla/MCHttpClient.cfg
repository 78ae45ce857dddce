CONSTANTS
    Apis = {"fetch", "stream"}
    Urls <- MCUrls
    MaxAddrs = 2
    MsgSize = 2
    SizeText <- MCSizeText
    Responses <- MCResponses
CHECK_DEADLOCK FALSE
SPECIFICATION FairSpec
INVARIANTS TypeOK BodyInOrder SuccessIsWhole StreamsOnlySuccess
PROPERTIES ImplementsTransport Returns
