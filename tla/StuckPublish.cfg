SPECIFICATION Spec
CONSTANTS
    MaxTokens = 3
    OverlapTokens = 1
    l1 = l1
    l2 = l2
    l3 = l3
    Lessons = {l1}
    Kind <- OneUpload
    Texts <- SmallTexts
    Source <- OneSource
    Unencodable <- SpecialTexts
    Unstorable <- NulTexts
    NoText = NoText
    Slots = {a1, a2}
    NoSlot = NoSlot
    MaxLessons = 1
    MaxRuns = 2
    MaxTimeouts = 0
    MaxFaults = 0
    MaxReindexes = 0
    MaxRetries = 1
PROPERTY
    EveryPublishEnds
CHECK_DEADLOCK FALSE
