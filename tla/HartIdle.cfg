SPECIFICATION FairSpec
CONSTANTS
    Harts <- MCHarts
    Boot = 0
    MaxPosts = 2
INVARIANTS
    NoSleepOverRequest
    PublishedIsDelivered
PROPERTIES
    WorkIsDone
    StopIsReached
CHECK_DEADLOCK FALSE
