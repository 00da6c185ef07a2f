SPECIFICATION Spec
CONSTANTS
    Jobs = {j1, j2}
    Workers = {w1, w2}
    Handlers = {h1, h2}
    NoJob = NoJob
    NoWorker = NoWorker
    MaxAttempts = 2
    Epochs = {}
    WorkerRevisions = {}
SYMMETRY JobSymmetry
INVARIANTS AssignmentMatched HoldersDistinct
PROPERTIES ImplementsJobQueue
