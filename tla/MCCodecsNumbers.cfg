CONSTANTS
    Values <- MCValues
    Texts <- MCTexts
    Strings <- MCStrings
    Points <- MCPoints
    Payloads <- MCPayloads
    Blanks <- MCBlanks
    Codes <- MCCodes
    Uploads <- MCUploads
    Turns <- MCTurns
SPECIFICATION Spec
INVARIANT MalformedIsRefused
CHECK_DEADLOCK FALSE
