CONSTANTS
    Texts <- MCTexts
    Chunks <- MCChunks
    TransportErrors <- MCTransportErrors
    StatusErrors <- MCStatusErrors
    Streams <- MCStreams
SPECIFICATION StreamsSpec
INVARIANTS EventsOfBody DispatchesCompleteEvents
PROPERTIES ImplementsContract
CHECK_DEADLOCK FALSE
