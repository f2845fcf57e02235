SPECIFICATION ReplaySpec
CONSTANTS
    Value = {"a", "line"}
    Docs <- MCDocs
    Steps = {2, 3}
    MaxFrames = 3
    Base = 3
    TicksPerMs = 2
    MaxMs = 4
    None = None
INVARIANTS ShowsTheMoment FramesKept
CHECK_DEADLOCK FALSE
