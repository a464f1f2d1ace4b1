---------------------------- MODULE FileJobStore ----------------------------
(***************************************************************************)
(* The table webrtc_rec.file_jobs of one recorder instance, as             *)
(* internal/store/file_job.go reads and writes it.  One row per recording; *)
(* the row is the only thing about a recording that survives a restart     *)
(* besides the files in the temporary directory.                           *)
(*                                                                         *)
(* The columns are functions of the row's id.  A serial id grows with      *)
(* created_at, so "oldest first" is "lowest id first".  The columns error, *)
(* config and activity_at are written and never read, and are left out.    *)
(***************************************************************************)
EXTENDS Integers, FiniteSets

CONSTANT Jobs            \* ids of the rows, in the order of created_at

ASSUME JobsAssumption == Jobs \subseteq Nat

VARIABLES
    jobState,   \* is there a row, and is it idle (0) or active (1)?
    jobType,    \* column type
    jobRetry,   \* column retry: attempts begun in the row's current stage
    jobPath,    \* file.path: 0 for "", k for the output of attempt k
    jobTrack    \* file.track of the recording: it never changes once captured

rowVars == <<jobState, jobType, jobRetry, jobPath, jobTrack>>

Stages == {"transcoding", "upload"}

\* What file.track lists: nothing, data channels only, or audio or video.
TrackKinds == {"none", "data", "media"}

\* "absent": never inserted.  "refused": the insert reported an error and did
\* not commit.  "gone": deleted.
RowStates == {"absent", "refused", "idle", "active", "gone"}

Exists(j) == jobState[j] \in {"idle", "active"}

StoreInit ==
    /\ jobState = [j \in Jobs |-> "absent"]
    /\ jobType  = [j \in Jobs |-> "transcoding"]
    /\ jobRetry = [j \in Jobs |-> 0]
    /\ jobPath  = [j \in Jobs |-> 0]
    /\ jobTrack = [j \in Jobs |-> "none"]

\* Rows are inserted in the order of their ids.
NextId(j) == /\ jobState[j] = "absent"
             /\ \A k \in Jobs : k < j => jobState[k] # "absent"

\* insert ...: state and retry take the defaults of the table, 0 and 0.
Create(j) ==
    /\ jobState' = [jobState EXCEPT ![j] = "idle"]
    /\ UNCHANGED <<jobType, jobRetry, jobPath>>

\* where state = 0 and instance = @instance and type = @type
IdleOf(st) == {j \in Jobs : jobState[j] = "idle" /\ jobType[j] = st}

\* order by created_at limit @limit
Oldest(S, st, limit) ==
    /\ S \subseteq IdleOf(st)
    /\ Cardinality(S) <= limit
    /\ S # IdleOf(st) => Cardinality(S) = limit
    /\ \A j \in S, k \in IdleOf(st) \ S : j < k

\* Mutant of Fetch: set state = @state is missing.
FetchKeepsIdle(S) ==
    /\ jobRetry' = [j \in Jobs |-> IF j \in S THEN jobRetry[j] + 1 ELSE jobRetry[j]]
    /\ UNCHANGED <<jobState, jobType, jobPath, jobTrack>>

\* The update half of Fetch: the selected rows become active and count one more
\* attempt, before anybody has started it.
Fetch(S) ==
    /\ jobState' = [j \in Jobs |-> IF j \in S THEN "active" ELSE jobState[j]]
    /\ jobRetry' = [j \in Jobs |-> IF j \in S THEN jobRetry[j] + 1 ELSE jobRetry[j]]
    /\ UNCHANGED <<jobType, jobPath, jobTrack>>

\* update ... where id = @id writes nothing when the row is not there.
SetError(j) ==
    /\ jobState' = [jobState EXCEPT ![j] = IF Exists(j) THEN "idle" ELSE @]
    /\ UNCHANGED <<jobType, jobRetry, jobPath, jobTrack>>

\* Mutant of Update: the parameters state and type are swapped.
UpdateSwapped(j, type, path, retry) ==
    /\ jobState' = [jobState EXCEPT ![j] = type]
    /\ jobType'  = [jobType  EXCEPT ![j] = "idle"]
    /\ UNCHANGED <<jobPath, jobRetry, jobTrack>>

\* Update(JobIdle, &uploadJob): one statement writes state, type, file and retry.
Update(j, type, path, retry) ==
    /\ jobState' = [jobState EXCEPT ![j] = IF Exists(j) THEN "idle" ELSE @]
    /\ jobType'  = [jobType  EXCEPT ![j] = IF Exists(j) THEN type ELSE @]
    /\ jobPath'  = [jobPath  EXCEPT ![j] = IF Exists(j) THEN path ELSE @]
    /\ jobRetry' = [jobRetry EXCEPT ![j] = IF Exists(j) THEN retry ELSE @]
    /\ UNCHANGED jobTrack

Delete(j) ==
    /\ jobState' = [jobState EXCEPT ![j] = IF Exists(j) THEN "gone" ELSE @]
    /\ UNCHANGED <<jobType, jobRetry, jobPath, jobTrack>>

\* Every row of the instance, whatever its state or type, becomes idle; the
\* retry counter is kept.
Reset ==
    /\ jobState' = [j \in Jobs |-> IF Exists(j) THEN "idle" ELSE jobState[j]]
    /\ UNCHANGED <<jobType, jobRetry, jobPath, jobTrack>>

StoreTypeOK ==
    /\ jobState \in [Jobs -> RowStates]
    /\ jobType  \in [Jobs -> Stages]
    /\ jobRetry \in [Jobs -> Nat]
    /\ jobPath  \in [Jobs -> Nat]
    /\ jobTrack \in [Jobs -> TrackKinds]
=============================================================================
