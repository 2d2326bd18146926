SPECIFICATION FairSpec
CONSTANTS
    Hours = 2
    Minutes = 2
    Seconds = 3
    Noise <- MCNoise
    TicksPerSecond = 2
    TickWrap = 19
    Starts <- MCStarts
    Delay = 1
    MaxNow = 34
    MaxEvents = 3
    Radix = 2
    SegmentSize = 2
    Words = 2
    Order = 13
    Configs <- MCConfigs
    Rubbish <- MCRubbish
    Watched <- MCWatched
INVARIANT InterruptsFindTheirTasks
INVARIANT FiresAreSoftwareResets
INVARIANT KeyIsTheConfigured
INVARIANT ClockIsRight
INVARIANT LinesTellTheTime
PROPERTY ComesUp
