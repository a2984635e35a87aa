\* Two models - one takes images and every thinking, the other neither -, two chats, one
\* image.  Five commands, starts included, and one failing write.
CONSTANTS
    Painter = Painter
    Writer = Writer
    High = High
    Default = Default
    C1 = C1
    C2 = C2
    Picture = Picture
    Unknown = Unknown
    None = None
    Models <- TwoModels
    Thinkings <- TwoThinkings
    Chats <- TwoChats
    Images <- OnePicture
    TakesImages <- OnlyPainter
    Allows <- OnlyPainterThinks
    MaxCommands = 5
    MaxFailures = 1
SPECIFICATION Spec
INVARIANTS
    SettingsFit
    ChatsKeepTheirSettings
CHECK_DEADLOCK FALSE
