SPECIFICATION FairSpec
CONSTANTS
    Frames <- MCFrames
    CHUNK = 4
    MIRROR_ACCUM = 9
    SLAVE_ACCUM = 4
    MaxBytes = 12
    SLOTS = 2
    Addresses <- MCAddresses
    MaxFailures = 1
INVARIANTS TypeOK NothingMissed OnceInOrder DecodedWhenComplete CountersAreLru
PROPERTIES FeedsReturn
CHECK_DEADLOCK FALSE
