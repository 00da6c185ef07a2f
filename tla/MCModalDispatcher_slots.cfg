SPECIFICATION LiveSpec
CONSTANTS
    train = train
    data = data
    NoJob = NoJob
    NoKey = NoKey
    Jobs = {train}
    MaxAttempts = 2
    MaxSlots = 2
    SlotCount = 1
    IdlePollSlots = 1
    BatchSize = 2
    Training = {train}
    NeedsModal = {train}
    Keys = {data}
    KeyOf <- OneDataset
    MaxDisturbances = 1
INVARIANTS TypeOK SlotWorksOnWhatItHolds SessionHeldWhileNeeded DatasetsShared IdleExitLeavesNothing
PROPERTIES FreedIsReported EveryGrantEnds DemandedJobStarts
CHECK_DEADLOCK FALSE
