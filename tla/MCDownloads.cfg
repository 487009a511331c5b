\* Every selection and content; the longest name that stays within the file
\* system's limit; two requests, half-second ticks, links of one second.
CONSTANTS
    NameLengths = {227}
    NameMax = 255
    Contents = {"words", "silence", "no_audio"}
    Requests = {r1, r2}
    DownloadTtl = 2
    TicksPerSecond = 2
    SigningTime = 1
    MaxTime = 5
SPECIFICATION DownloadsSpec
CHECK_DEADLOCK FALSE
INVARIANTS
    DownloadsTypeOK
    MessageIsUsable
    AnswersAreWhole
PROPERTIES
    LinksExpireWithTheCache
    RecordingsComplete
