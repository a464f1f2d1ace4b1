SPECIFICATION FairSpec
CONSTANTS
    Jobs = {1, 2}
    TranscodingWorkers = {t1}
    UploadWorkers = {u1}
    TranscodingQueue = 1
    UploadQueue = 1
    TranscodingRetries = 2
    UploadRetries = 0
    MaxRestarts = 1
    MaxDbErrors = 0
    MaxRetry <- MCMaxRetry
    QueueSize <- MCQueueSize
PROPERTIES
    Settles
