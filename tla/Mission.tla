------------------------------ MODULE Mission ------------------------------
(***************************************************************************)
(* The data of a mission (aivyx-task/src/types.rs) and the pure operations *)
(* the task engine applies to its steps (types.rs, dag.rs, and the step    *)
(* rewriting inside engine.rs).                                            *)
(*                                                                         *)
(* A step keeps what decides control flow: its kind, its dependencies, its *)
(* status, its retry counter and what kind of result it holds.  Prompts,   *)
(* descriptions, tool hints and timestamps are left out.  Steps are        *)
(* numbered from 1 here and from 0 in the code.                            *)
(***************************************************************************)
EXTENDS Integers, Sequences

TaskStatuses ==
    {"none", "planned", "executing", "completed", "failed", "cancelled"}

(* Planning is never stored: the mission is saved only once it is Planned. *)
(* Verifying is never assigned by the engine.                              *)

IsTerminal(status) == status \in {"completed", "failed", "cancelled"}

StepStatuses == {"pending", "running", "completed", "failed", "skipped"}

(* Approval steps come in two kinds: a "gate" has                          *)
(* auto_approve_on_timeout = false, an "autogate" has it true.             *)
Kinds == {"execute", "reflect", "gate", "autogate"}

Results == {"none", "text", "rejected", "approved"}

(* target and left are those of a Reflect step: the step it reviews and    *)
(* max_depth - current_depth.                                              *)
StepRecord ==
    [kind    : Kinds,
     deps    : SUBSET Nat,
     target  : Nat,
     left    : Nat,
     status  : StepStatuses,
     retries : Nat,
     result  : Results]

MissionRecord == [status : TaskStatuses, steps : Seq(StepRecord)]

(* The key "task:{id}" is absent from the store. *)
NoMission == [status |-> "none", steps |-> <<>>]

NewStep(kind, target, left) ==
    [kind    |-> kind,
     deps    |-> {},
     target  |-> target,
     left    |-> left,
     status  |-> "pending",
     retries |-> 0,
     result  |-> "none"]

-----------------------------------------------------------------------------
(* Step selection *)

(* Mission::execution_mode *)
IsDag(steps) == \E i \in DOMAIN steps : steps[i].deps # {}

UnfinishedWithoutFailed(steps) ==
    {i \in DOMAIN steps : steps[i].status \in {"pending", "running"}}

(* What next_pending_step looks for: a Failed step counts as unfinished. *)
Unfinished(steps) ==
    {i \in DOMAIN steps : steps[i].status \in {"pending", "running", "failed"}}

(* i is the step Mission::next_pending_step returns. *)
IsNext(steps, i) ==
    /\ i \in Unfinished(steps)
    /\ \A k \in DOMAIN steps : k < i => k \notin Unfinished(steps)

ReadyOnAnyDependency(steps) ==
    {i \in DOMAIN steps :
        /\ steps[i].status = "pending"
        /\ \/ steps[i].deps = {}
           \/ \E d \in steps[i].deps :
                 d \in DOMAIN steps /\ steps[d].status = "completed"}

(* dag::ready_steps *)
Ready(steps) ==
    {i \in DOMAIN steps :
        /\ steps[i].status = "pending"
        /\ \A d \in steps[i].deps :
              d \in DOMAIN steps /\ steps[d].status = "completed"}

AllTerminal(steps) ==
    \A i \in DOMAIN steps :
        steps[i].status \in {"completed", "skipped", "failed"}

AnyFailed(steps) == \E i \in DOMAIN steps : steps[i].status = "failed"

-----------------------------------------------------------------------------
(* The dependency graph *)

(* After n rounds of Kahn's algorithm: the steps whose dependencies were   *)
(* all consumed in earlier rounds.                                         *)
Consumed(steps) ==
    LET round[n \in 0 .. Len(steps)] ==
            IF n = 0
            THEN {}
            ELSE {i \in DOMAIN steps : steps[i].deps \subseteq round[n - 1]}
    IN  round[Len(steps)]

(* dag::validate_dag accepts the plan. *)
ValidDag(steps) ==
    /\ \A i \in DOMAIN steps : steps[i].deps \subseteq (DOMAIN steps \ {i})
    /\ Consumed(steps) = DOMAIN steps

(* The steps that transitively depend on i, i included. *)
Downstream(steps, i) ==
    LET reach[n \in 0 .. Len(steps)] ==
            IF n = 0
            THEN {i}
            ELSE {j \in DOMAIN steps :
                    j \in reach[n - 1] \/ steps[j].deps \cap reach[n - 1] # {}}
    IN  reach[Len(steps)]

-----------------------------------------------------------------------------
(* Step rewriting *)

Mark(steps, S, status) ==
    [i \in DOMAIN steps |->
        IF i \in S THEN [steps[i] EXCEPT !.status = status] ELSE steps[i]]

CompleteStep(steps, i, result) ==
    [steps EXCEPT ![i] = [steps[i] EXCEPT !.status = "completed",
                                           !.result = result]]

SkipDirectDependents(steps, i) ==
    Mark(steps,
         {j \in DOMAIN steps :
             i \in steps[j].deps /\ steps[j].status \in {"pending", "running"}},
         "skipped")

(* dag::skip_downstream *)
SkipDownstream(steps, i) ==
    Mark(steps,
         {j \in Downstream(steps, i) \ {i} :
             steps[j].status \in {"pending", "running"}},
         "skipped")

(* A failed attempt that may be repeated. *)
RetryStep(steps, i) ==
    [steps EXCEPT ![i] = [steps[i] EXCEPT !.status = "pending",
                                           !.retries = steps[i].retries + 1]]

FailStep(steps, i) ==
    [steps EXCEPT ![i] = [steps[i] EXCEPT !.status = "failed",
                                           !.retries = steps[i].retries + 1]]

ReviseWithSameDepth(steps, i) ==
    CompleteStep(steps, i, "rejected")
      \o << NewStep("execute", 0, 0),
            NewStep("reflect", Len(steps) + 1, steps[i].left) >>

(* A Reflect step that rejected its target with depth left: it is          *)
(* completed, and a retry step and a review of that retry are appended.    *)
Revise(steps, i) ==
    CompleteStep(steps, i, "rejected")
      \o << NewStep("execute", 0, 0),
            NewStep("reflect", Len(steps) + 1, steps[i].left - 1) >>

(* TaskEngine::cancel skips what has not been executed. *)
CancelSteps(steps) ==
    Mark(steps,
         {i \in DOMAIN steps : steps[i].status \in {"pending", "running"}},
         "skipped")

CompletedSteps(steps) == {i \in DOMAIN steps : steps[i].status = "completed"}

=============================================================================
