SPECIFICATION Spec
CONSTANTS
    Absent = Absent
    FirstRelease = FirstRelease
    Commit = {"earlier", "ready", "bound", "lock", "foreign"}
    Follows <- MCFollows
    Repository <- MCTree
    MainCheckout <- Good
    ClosingPages <- MCClosingPages
    EvidencePath <- MCEvidencePath
    Input <- MCInput
    RunId = {1, 2}
    NoRun = NoRun
    Earlier <- MCEarlier
    MaxReruns = 1
    MaxFaults = 1
    FinalId = {1, 2}
    Idle = Idle
    Named = {"earlier", "ready"}
    MaxCloseouts = 1
    Body <- MCBody
    JobId = {1, 2}
    NoIssue = NoIssue
    NoEvent = NoEvent
INVARIANTS
      PublishedWasQualified
    ProducerInstalls
    PublicNamespaceIsClean
    PublicReleaseIsWhole
PROPERTIES
    EveryRunEnds
    UnmetClosureIsUndone
    ImplementsCoordinatedRelease
CHECK_DEADLOCK FALSE
