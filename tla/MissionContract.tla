-------------------------- MODULE MissionContract --------------------------
(***************************************************************************)
(* What the task engine promises about a mission that one executor works   *)
(* on undisturbed (aivyx-task/src/engine.rs, types.rs): the status moves   *)
(* from Planned through Executing to one end, completed work is kept, a    *)
(* mission is Completed exactly when all its work is done, and one whose   *)
(* plan can be carried out does end.                                       *)
(***************************************************************************)
VARIABLES
    status,    \* the status of the stored mission, "none" before planning
    work,      \* the steps the mission consists of
    done       \* those that are completed

vars == <<status, work, done>>

Init == status = "none" /\ work = {} /\ done = {}

(* The planner returns a plan with at least one step. *)
Plan ==
    /\ status = "none"
    /\ status' = "planned"
    /\ work' # {}
    /\ done' = {}

(* Steps complete, revisions add steps, nothing is undone or dropped. *)
Work ==
    /\ status \in {"planned", "executing"}
    /\ status' = "executing"
    /\ work \subseteq work'
    /\ done \subseteq done'
    /\ done' \subseteq work'

Complete ==
    /\ status = "executing"
    /\ done = work
    /\ status' = "completed"
    /\ UNCHANGED <<work, done>>

Fail ==
    /\ status = "executing"
    /\ done # work
    /\ status' = "failed"
    /\ UNCHANGED <<work, done>>

Next == Plan \/ Work \/ Complete \/ Fail

Spec == Init /\ [][Next]_vars

(* A mission does not stay in execution for ever. *)
Ends == []<>(status # "executing")
=============================================================================
