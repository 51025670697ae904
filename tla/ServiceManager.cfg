SPECIFICATION FairSpec
CONSTANTS
    heartbeat_interval = 1
    heartbeat_timeout = 2
    bootstrap_timeout = 3
    bootstrap_progress_timeout = 2
    control_probe_interval = 1
    control_response_timeout = 2
    window = 4
    maximum_restarts = 2
    initial_backoff = 1
    maximum_backoff = 2
    maximum_jitter = 0
    MAX_FRAMES_PER_POLL = 2
    MaxGeneration = 2
    MaxTook = 1
    MaxQueue = 2
INVARIANTS
    SupervisionIsBounded
    SoundHostIsKept
PROPERTY
    FailedHostIsHandled
CHECK_DEADLOCK FALSE
