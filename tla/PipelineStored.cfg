SPECIFICATION Spec
CONSTANTS
    Jobs = {1, 2}
    TranscodingWorkers = {t1}
    UploadWorkers = {u1}
    TranscodingQueue = 1
    UploadQueue = 2
    TranscodingRetries = 10
    UploadRetries = 20
    MaxRestarts = 0
    MaxDbErrors = 0
    MaxRetry <- MCMaxRetry
    QueueSize <- MCQueueSize
INVARIANT
    SuccessMeansStored
