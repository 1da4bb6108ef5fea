SPECIFICATION Spec
CONSTANTS
    Streams = {"m", "n", "v", "c"}
    App <- MCApp
    Kind <- MCKind
    Kinds <- MCKinds
    SourceKinds = {}
    VoiceKinds = {"voip", "call"}
    VoipKinds = {"voip"}
    Shared = {"m", "n", "v", "c"}
    Policy <- MCPolicy
    MaxQueued = 1
    Strategy <- MCStrategy
    Listeners = {"m", "n"}
    Silenceable = {"m"}
INVARIANTS
    NoConflict
    PreemptSilence
    DuckedIsQuiet
PROPERTIES
    OnlyStartLosesFocus
    ResumeSettles
CHECK_DEADLOCK FALSE
