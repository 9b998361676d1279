CONSTANTS
    MaxShown = 2
    MaxRuns = 2
    Frames <- MCFrames
    Gap = 4
    Pauses = {2}
    MaxFrames = 2
    MaxEvents = 4
    Capacity = 1
    MaxPlays = 2
    MinGap = 3
    PollPeriod = 1
    MaxDelay = 1
SPECIFICATION Spec
INVARIANTS
    RecordingFaithful
    PlaybackShowsRecording
