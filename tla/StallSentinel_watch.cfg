SPECIFICATION Spec
CONSTANTS
    Threshold = 3
    CheckInterval = 2
    MaxLive = 2
INVARIANTS
    SentinelTypeOK
    FlagSilencesOnlyItsEpisode
    SteadyNeverAlarms
PROPERTY HangReportedUnlessOutrun
