SPECIFICATION LiveSpec
CONSTANTS
    Jobs = {j1}
    Workers = {w1, w2}
    Handlers = {h1, h2}
    NoJob = NoJob
    NoWorker = NoWorker
    MaxAttempts = 2
    Epochs = {3}
    WorkerRevisions = {5}
INVARIANTS TypeOK AttemptIdentity SnapshotAgreesWithJob
PROPERTIES SupersededAttemptFrozen TerminalIsFinal DeadWorkerReleased EveryJobSettles
