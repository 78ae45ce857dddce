CONSTANTS
    UserTexts <- MCUserTexts
    Replies <- MCReplies
    MaxMessages = 2
    Transcript = 3
    PushSizes = {0, 3, 8}
    MaxEvents = 4
    Threads = {t1, t2}
    MaxClones = 3
    StepOptions <- MCStepOptions
    DimOptions <- MCDimOptions
    Dimensions <- MCDimensions
    Counts = {0, 1, 3}
    Inputs <- MCInputs
    Glossaries <- MCGlossaries
    MaxOut = 16
    Sizes = {0, 1, 2, 3, 4, 5, 6, 7, 8, 9, 10, 11, 100, 101}
    SpeakErrors <- MCSpeakErrors
SPECIFICATION FairSpec
INVARIANTS StreamMatchesChat ToolRequestedOnce PartialsGrow VoicesListed
    ProgressCompletes TypeOK Tiles OneLast
PROPERTIES ImplementsContract EntryReplacesAll TranslateEnds Returns
CHECK_DEADLOCK FALSE
