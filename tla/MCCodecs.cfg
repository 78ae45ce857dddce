CONSTANTS
    Values <- MCValues
    Texts <- MCTexts
    Strings <- MCStrings
    Points <- MCPoints
    Payloads <- MCPayloads
    Blanks <- MCBlanks
    Codes <- MCCodes
    Uploads <- MCUploads
    Turns <- MCTurns
SPECIFICATION Spec
INVARIANTS ReadsBack CutJsonIsRefused ParsesJson FenceStripped UploadArrives
    ConversationComesBack
CHECK_DEADLOCK FALSE
