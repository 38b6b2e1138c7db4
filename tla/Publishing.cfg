SPECIFICATION Spec
CONSTANTS
    MaxTokens = 3
    OverlapTokens = 1
    l1 = l1
    l2 = l2
    l3 = l3
    Lessons = {l1, l2, l3}
    Kind <- GoodAndBad
    Texts <- SmallTexts
    Source <- Sources
    Unencodable <- SpecialTexts
    Unstorable <- NulTexts
    NoText = NoText
    Slots = {a1, a2}
    NoSlot = NoSlot
    MaxLessons = 1
    MaxRuns = 2
    MaxTimeouts = 1
    MaxFaults = 1
    MaxReindexes = 1
    MaxRetries = 1
INVARIANTS
    LessonsIndexedWhole
    UnprocessedOnlyAfterOverwrite
    AnnouncedIsPublished
PROPERTY
    PublishEnds
CHECK_DEADLOCK FALSE
