CONSTANTS
    Texts <- MCTexts
    Chunks <- MCChunks
    TransportErrors <- MCTransportErrors
    StatusErrors <- MCStatusErrors
    Streams <- MCStreams
SPECIFICATION StreamsSpec
INVARIANT EndsWithEvent
CHECK_DEADLOCK FALSE
