SPECIFICATION Spec
CONSTANTS
    Jobs = {1, 2}
    TranscodingWorkers = {t1, t2}
    UploadWorkers = {u1}
    TranscodingQueue = 1
    UploadQueue = 0
    TranscodingRetries = 2
    UploadRetries = 2
    MaxRestarts = 2
    MaxDbErrors = 1
    MaxRetry <- MCMaxRetry
    QueueSize <- MCQueueSize
SYMMETRY MCSymmetry
INVARIANTS
    TypeOK
    SingleClaim
    AttemptBound
    UploadKeepsOutput
    RawReleased
    NoLeakWithoutFaults
    SentOncePerLife
    NoRowForgotten
PROPERTY
    ImplementsLifecycle
