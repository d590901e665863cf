SPECIFICATION Spec
CONSTANTS
    Absent = Absent
    FirstRelease = FirstRelease
    Commit = {"earlier", "ready", "bound", "lock", "foreign"}
    Follows <- MCFollows
    Repository <- MCTree
    MainCheckout <- Good
    ClosingPages <- MCClosingPages
    EvidencePath <- MCEvidencePath
    Input <- MCInput
    RunId = {1, 2}
    NoRun = NoRun
    Earlier <- MCEarlier
    MaxReruns = 1
    MaxFaults = 0
    FinalId = {1}
    Idle = Idle
    Named = {"earlier", "ready"}
    MaxCloseouts = 1
    Body <- MCBody
    JobId = {}
    NoIssue = NoIssue
    NoEvent = NoEvent
INVARIANT
    ArtifactsBoundToCommit
CHECK_DEADLOCK FALSE
