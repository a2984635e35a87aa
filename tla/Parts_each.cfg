CONSTANTS
    MaxRecordings = 2
    Starts = {"p1", "p2", "p3"}
    Programs = {"p1", "p2"}
    MaxEdits = 2
    MaxOutput = 2
    MaxWritten = 3
    MaxCommands = 2
    Instances = {"i1", "i2"}
    Days = {1, 2}
    Members = {"m1", "m2"}
    MaxRunCost = 2
    DailyLimit = 2
    MaxPaid = 6
    CutFiles = {"f", "g"}
    CutCalls = 2
    CutMishaps = 1
    ImageFiles = {"p", "q"}
    MaxImages = 2
    MaxBytes = 2
    MaxTotal = 3
    MaxChanges = 2
    MaxSends = 1
    LineLetters <- SomeLetters
    LineKeys <- SomeKeys
    LineCommands <- SomeCommands
    LineFiles <- SomeFiles
    LinePasted <- SomePasted
    LinePast <- SomePast
    MaxDraft = 3
    MaxEntered = 1
    AnswerFiles = 3
    AnswerLines = 5
    AnswerHits = {{}, {1}, {1, 2}, {1, 4}}
    PageLines = 2
    MaxResults = 2
    AnswerOutput = 3
    MaxLimit = 3
SPECIFICATION PartsSpec
CHECK_DEADLOCK FALSE
INVARIANTS
    RecordingsStayPrivate
    SpendingIsBounded
    InspectionLeavesNothing
    CommandsAreContained
    TextChangesAreTrue
    AnswerIsWhatIsLeft
    SettingsSurvive
    ImportedOnce
    CutRunIsToldRight
    CutIsTold
    ImagesSentAreAllowed
PROPERTY DraftIsKept
