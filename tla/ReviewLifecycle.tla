--------------------------- MODULE ReviewLifecycle ---------------------------
(***************************************************************************)
(* What a review job promises to whoever watches it: the statuses come in  *)
(* one order and none is skipped; a failure may come at any time until an  *)
(* outcome has been announced; an announced outcome is the job's status,   *)
(* and stays it, until the job is deleted.                                 *)
(***************************************************************************)
CONSTANTS After(_),     \* the status that follows a status
          Stages,       \* the statuses that have a successor
          NoJob         \* the job does not exist, or no longer

VARIABLES status,       \* the job's status as stored, or NoJob
          created,      \* has the job been created?
          told          \* the last outcome announced: "none" or a terminal status

vars == <<status, created, told>>

Outcomes == {"COMPLETED", "FAILED"}

Init == status = NoJob /\ created = FALSE /\ told = "none"

Create ==
  /\ ~created
  /\ created' = TRUE
  /\ status' = "PENDING"
  /\ UNCHANGED told

Advance ==
  /\ status \in Stages
  /\ status' = After(status)
  /\ told = "none"
  /\ UNCHANGED <<created, told>>

Fail ==
  /\ created /\ status # NoJob
  /\ told = "none"
  /\ status' = "FAILED"
  /\ UNCHANGED <<created, told>>

Delete ==
  /\ created
  /\ status' = NoJob
  /\ UNCHANGED <<created, told>>

\* Once the job is gone, an announcement already on its way may still arrive.
Announce ==
  /\ created
  /\ told' \in Outcomes
  /\ status \in {told', NoJob}
  /\ UNCHANGED <<status, created>>

Next == Create \/ Advance \/ Fail \/ Delete \/ Announce

Spec == Init /\ [][Next]_vars
=============================================================================
