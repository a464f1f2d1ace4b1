----------------------------- MODULE TempFiles ------------------------------
(***************************************************************************)
(* The temporary directory, as internal/service/temp.go changes it.  A     *)
(* recording has its raw track files (written by the capture session and   *)
(* named in file.track) and, per transcoding attempt, one output file with *)
(* a fresh random name.  The output of attempt k of row j is <<j, k>>: the *)
(* retry column only grows while the row is in the transcoding stage, so   *)
(* two attempts never share a name, as two calls of model.NewID do not.    *)
(***************************************************************************)
EXTENDS FileJobStore

VARIABLES
    rawFiles,   \* rows whose raw track files are on disk
    outFiles    \* transcoder outputs on disk, complete or partial

fileVars == <<rawFiles, outFiles>>

FilesInit == rawFiles = {} /\ outFiles = {}

\* Mutant of DeleteFile: the tracks are left alone.
DeletePathOnly(j, path) ==
    /\ outFiles' = outFiles \ {<<j, path>>}
    /\ UNCHANGED rawFiles

\* DeleteFile(file): an error and no removal when the file lists no track, else
\* every track and, when it is set, the path.  The error of a missing file is
\* returned and never acted on.
DeleteFile(j, path) ==
    IF jobTrack[j] = "none"
    THEN UNCHANGED fileVars
    ELSE /\ rawFiles' = rawFiles \ {j}
         /\ outFiles' = outFiles \ {<<j, path>>}

FilesTypeOK ==
    /\ rawFiles \subseteq Jobs
    /\ outFiles \subseteq Jobs \X Nat
=============================================================================
