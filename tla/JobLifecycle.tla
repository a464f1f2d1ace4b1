---------------------------- MODULE JobLifecycle ----------------------------
(***************************************************************************)
(* What the job pipeline promises about a recording: it is transcoded,     *)
(* then uploaded, and it leaves the pipeline only when it was delivered or *)
(* when the stage it is in was tried as often as configured.  There are no *)
(* workers, no files, no crashes and no lost answers at this level.        *)
(***************************************************************************)
EXTENDS Integers

CONSTANTS Jobs, MaxRetry

VARIABLES
    stage,      \* "new", "transcoding", "upload" or "settled"
    tries,      \* attempts begun in the current stage
    delivered   \* was an upload completed?

lifeVars == <<stage, tries, delivered>>

LifeInit ==
    /\ stage = [j \in Jobs |-> "new"]
    /\ tries = [j \in Jobs |-> 0]
    /\ delivered = [j \in Jobs |-> FALSE]

Accept(j) ==
    /\ stage[j] = "new"
    /\ stage' = [stage EXCEPT ![j] = "transcoding"]
    /\ UNCHANGED <<tries, delivered>>

Refuse(j) ==
    /\ stage[j] = "new"
    /\ stage' = [stage EXCEPT ![j] = "settled"]
    /\ UNCHANGED <<tries, delivered>>

\* An attempt begins for every recording of S, all in the same stage.
Attempt(S, st) ==
    /\ \A j \in S : stage[j] = st
    /\ tries' = [j \in Jobs |-> IF j \in S THEN tries[j] + 1 ELSE tries[j]]
    /\ UNCHANGED <<stage, delivered>>

\* Only an attempt can move a recording on, and uploading counts anew.
Promote(j) ==
    /\ stage[j] = "transcoding" /\ tries[j] > 0
    /\ stage' = [stage EXCEPT ![j] = "upload"]
    /\ tries' = [tries EXCEPT ![j] = 0]
    /\ UNCHANGED delivered

Deliver(j) ==
    /\ stage[j] = "upload" /\ tries[j] > 0
    /\ delivered' = [delivered EXCEPT ![j] = TRUE]
    /\ UNCHANGED <<stage, tries>>

\* Nothing is given up early.
Settle(j) ==
    /\ \/ stage[j] \in {"transcoding", "upload"} /\ tries[j] > 0
          /\ tries[j] >= MaxRetry[stage[j]]
       \/ stage[j] = "upload" /\ delivered[j]
    /\ stage' = [stage EXCEPT ![j] = "settled"]
    /\ tries' = [tries EXCEPT ![j] = 0]
    /\ UNCHANGED delivered

LifeNext ==
    \/ \E j \in Jobs : Accept(j) \/ Refuse(j) \/ Promote(j) \/ Deliver(j) \/ Settle(j)
    \/ \E S \in SUBSET Jobs, st \in {"transcoding", "upload"} : Attempt(S, st)

Spec == LifeInit /\ [][LifeNext]_lifeVars
=============================================================================
