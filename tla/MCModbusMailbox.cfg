CONSTANTS
    WORD = 4
    Frames <- MCFrames
    RING = 4
    Surroundings <- MCSurroundings
    Measurements <- MCMeasurements
    FirstConfigs <- MCFirstConfigs
    BootUptime = 3
    MaxUptime = 4
    None = None
SPECIFICATION MailboxSpec
INVARIANTS
    NoRequestIsLost
    AnswersAreTrue
PROPERTY WritesAreAsked
