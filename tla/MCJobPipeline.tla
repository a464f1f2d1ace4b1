--------------------------- MODULE MCJobPipeline ----------------------------
(* Small instances of JobPipeline for TLC.                                 *)
EXTENDS JobPipeline, TLC

CONSTANTS TranscodingRetries, UploadRetries, TranscodingQueue, UploadQueue

MCMaxRetry  == ("transcoding" :> TranscodingRetries) @@ ("upload" :> UploadRetries)
MCQueueSize == ("transcoding" :> TranscodingQueue) @@ ("upload" :> UploadQueue)

\* Workers of one pool are interchangeable.
MCSymmetry == Permutations(TranscodingWorkers) \cup Permutations(UploadWorkers)
=============================================================================
