--------------------------- MODULE MissionEngine ---------------------------
(***************************************************************************)
(* One mission of the task engine (aivyx-task/src/engine.rs): the record   *)
(* in the encrypted store, the executors that work on copies of it, and    *)
(* the handlers (routes/tasks.rs, cmd/task.rs) that create, resume, cancel *)
(* and delete it.  Missions share nothing but the file of the store, so    *)
(* one is enough; what another one does to the file's lock is a fault.     *)
(*                                                                         *)
(* An executor is one call of execute_mission or execute_mission_stream.   *)
(* It loads the mission, then works on its private copy and saves the      *)
(* whole copy at each checkpoint.  Nothing in the engine keeps two         *)
(* executors, or an executor and a cancel or delete handler, off the same  *)
(* mission; only the lock on the file does, if the store takes one         *)
(* (StoreIsExclusive).  Every open, load and save of the store is a step.  *)
(*                                                                         *)
(* The audit log, progress events and outcome records are written after    *)
(* the state they describe and never read back by the engine; left out.    *)
(***************************************************************************)
EXTENDS Mission

CONSTANTS
    Executors,    \* background tasks and CLI processes that can execute
    Plans,        \* the plans parse_plan_response may return
    MaxRetries,   \* Mission.max_step_retries
    MaxSteps,     \* bound on the length of a mission, revisions included
    Counted,      \* the steps whose attempts are counted (history only)
    Creators,     \* how a created mission is executed: set of callers
    Resumers,     \* how a resumed mission is executed: set of callers
    StoreIsExclusive, \* an open handle on tasks.db keeps others from opening it
    Budget        \* bound on resumes, cancels, deletes and faults

Handlers == {"resume", "cancel", "delete", "fault"}

(* stream: execute_mission_stream instead of execute_mission;              *)
(* channel: the caller passes a channel adapter.                           *)
Callers == [stream : BOOLEAN, channel : BOOLEAN]
NoCaller == [stream |-> FALSE, channel |-> FALSE]

(* A plan as parse_plan_response builds it: at least one step, all of them *)
(* pending and untried.  Dependencies, kinds and targets are the model's.  *)
IsPlan(steps) ==
    /\ steps \in Seq(StepRecord)
    /\ steps # <<>>
    /\ \A i \in DOMAIN steps :
          /\ steps[i].status = "pending"
          /\ steps[i].retries = 0
          /\ steps[i].result = "none"

ASSUME PlansAssumption == \A p \in Plans : IsPlan(p)
ASSUME RetriesAssumption == MaxRetries \in Nat
ASSUME MaxStepsAssumption == MaxSteps \in Nat /\ Counted \subseteq Nat
ASSUME CallersAssumption == Creators \subseteq Callers /\ Resumers \subseteq Callers
ASSUME ExclusiveAssumption == StoreIsExclusive \in BOOLEAN
ASSUME BudgetAssumption == Budget \in [Handlers -> Nat]

VARIABLES
    stored,     \* the mission in the store, NoMission when absent
    born,       \* create_mission has returned its task id
    up,         \* the process is running
    answering,  \* a create or resume handler has not yet dropped its store
    pc,         \* what each executor does next
    copy,       \* each executor's private mission
    caller,     \* each executor's caller
    cur,        \* the step a sequential executor is on
    inflight,   \* the steps a DAG executor has in its JoinSet
    cancelling, \* the mission a cancel handler has loaded and not yet saved
    starts,     \* history: agent turns begun, per step
    left        \* what is left of Budget

store == <<stored, born, up, answering>>
local == <<copy, caller, cur, inflight>>
vars  == <<stored, born, up, answering, pc, copy, caller, cur, inflight,
           cancelling, starts, left>>

PCs == {"idle", "open", "load", "begin", "dispatch", "seq", "turn", "approval",
        "dag", "join", "dagfail"}

TypeOK ==
    /\ stored \in MissionRecord
    /\ born \in BOOLEAN
    /\ up \in BOOLEAN
    /\ answering \in BOOLEAN
    /\ pc \in [Executors -> PCs]
    /\ copy \in [Executors -> MissionRecord]
    /\ caller \in [Executors -> Callers]
    /\ cur \in [Executors -> Nat]
    /\ inflight \in [Executors -> SUBSET Nat]
    /\ cancelling \in MissionRecord
    /\ starts \in [Counted -> Nat]
    /\ left \in [Handlers -> Nat]

Init ==
    /\ stored = NoMission
    /\ born = FALSE
    /\ up = TRUE
    /\ answering = FALSE
    /\ pc = [e \in Executors |-> "idle"]
    /\ copy = [e \in Executors |-> NoMission]
    /\ caller = [e \in Executors |-> NoCaller]
    /\ cur = [e \in Executors |-> 0]
    /\ inflight = [e \in Executors |-> {}]
    /\ cancelling = NoMission
    /\ starts = [i \in Counted |-> 0]
    /\ left = Budget

-----------------------------------------------------------------------------
(* Helpers *)

steps(e) == copy[e].steps

Spend(h) == left[h] > 0 /\ left' = [left EXCEPT ![h] = @ - 1]

Goto(e, label) == pc' = [pc EXCEPT ![e] = label]

(* The call returns, with Ok or with an error: its copy is dropped. *)
Return(e) ==
    /\ Goto(e, "idle")
    /\ caller' = [caller EXCEPT ![e] = NoCaller]
    /\ copy' = [copy EXCEPT ![e] = NoMission]
    /\ cur' = [cur EXCEPT ![e] = 0]
    /\ inflight' = [inflight EXCEPT ![e] = {}]

(* Executor e changes its copy and saves it. *)
Checkpoint(e, mission) ==
    /\ copy' = [copy EXCEPT ![e] = mission]
    /\ stored' = mission

SaveAndReturn(e, mission) ==
    /\ stored' = mission
    /\ Return(e)

Began(S) == starts' = [i \in DOMAIN starts |->
                          IF i \in S THEN starts[i] + 1 ELSE starts[i]]

With(mission, newSteps) == [mission EXCEPT !.steps = newSteps]

-----------------------------------------------------------------------------
(* Entry points *)

(* EncryptedStore::open on tasks.db may succeed: nobody holds it, or the   *)
(* store lets handles coexist.  An executor holds it until its call        *)
(* returns, a handler until it does.                                       *)
Free ==
    StoreIsExclusive =>
        /\ ~answering
        /\ cancelling = NoMission
        /\ \A e \in Executors : pc[e] \in {"idle", "open"}

(* Executor e will run the mission: in the CLI on the engine at hand, in   *)
(* the server in a background task that opens the store anew while the     *)
(* handler still has its own handle.                                       *)
Launch(e, c) ==
    /\ caller' = [caller EXCEPT ![e] = c]
    /\ Goto(e, IF c.channel THEN "load" ELSE "open")
    /\ answering' = (StoreIsExclusive /\ ~c.channel)

(* TaskEngine::create_mission followed, in every caller, by the execution  *)
(* of the mission.                                                         *)
Create(e, c) ==
    /\ up /\ ~born /\ pc[e] = "idle" /\ Free
    /\ \E plan \in Plans :
          stored' = [status |-> "planned", steps |-> plan]
    /\ born' = TRUE
    /\ Launch(e, c)
    /\ UNCHANGED <<up, copy, cur, inflight, cancelling, starts, left>>

(* TaskEngine::resume, with the existence check of resume_task.  Neither   *)
(* looks at the status.                                                    *)
Resume(e, c) ==
    /\ up /\ born /\ pc[e] = "idle" /\ Free
    /\ stored # NoMission
    /\ Spend("resume")
    /\ Launch(e, c)
    /\ UNCHANGED <<stored, born, up, copy, cur, inflight, cancelling,
                   starts>>

(* The create or resume handler returns and drops its engine. *)
Answer ==
    /\ answering
    /\ answering' = FALSE
    /\ UNCHANGED <<stored, born, up, pc, local, cancelling, starts, left>>

(* The background task opens the store, or logs the error and ends. *)
OpenStore(e) ==
    /\ pc[e] = "open"
    /\ IF Free
       THEN Goto(e, "load") /\ UNCHANGED <<copy, caller, cur, inflight>>
       ELSE Return(e)
    /\ UNCHANGED <<store, cancelling, starts, left>>

LoadWithoutStatusCheck(e) ==
    /\ pc[e] = "load"
    /\ IF stored = NoMission
       THEN Return(e)
       ELSE /\ copy' = [copy EXCEPT ![e] = [stored EXCEPT !.status = "executing"]]
            /\ Goto(e, "begin")
            /\ UNCHANGED <<caller, cur, inflight>>
    /\ UNCHANGED <<stored, born, up, answering, cancelling, starts, left>>

(* execute_mission: load, refuse what is absent or terminal. *)
Load(e) ==
    /\ pc[e] = "load"
    /\ IF stored = NoMission \/ IsTerminal(stored.status)
       THEN Return(e)
       ELSE /\ copy' = [copy EXCEPT ![e] = [stored EXCEPT !.status = "executing"]]
            /\ Goto(e, "begin")
            /\ UNCHANGED <<caller, cur, inflight>>
    /\ UNCHANGED <<stored, born, up, answering, cancelling, starts, left>>

(* The first checkpoint: the mission is Executing. *)
Begin(e) ==
    /\ pc[e] = "begin"
    /\ stored' = copy[e]
    /\ Goto(e, "dispatch")
    /\ UNCHANGED <<born, up, answering, local, cancelling, starts, left>>

(* Choose the execution mode.  Streaming always runs step by step; a DAG   *)
(* that does not validate ends the call, the mission stays Executing.      *)
Dispatch(e) ==
    /\ pc[e] = "dispatch"
    /\ IF caller[e].stream \/ ~IsDag(steps(e))
       THEN Goto(e, "seq") /\ UNCHANGED <<copy, caller, cur, inflight>>
       ELSE IF ValidDag(steps(e))
            THEN Goto(e, "dag") /\ UNCHANGED <<copy, caller, cur, inflight>>
            ELSE Return(e)
    /\ UNCHANGED <<store, cancelling, starts, left>>

-----------------------------------------------------------------------------
(* Sequential execution: execute_sequential and execute_mission_stream *)

(* Approval gates are told apart by execute_sequential only. *)
IsApproval(e, i) ==
    ~caller[e].stream /\ steps(e)[i].kind \in {"gate", "autogate"}

(* build_step_prompt / build_reflection_prompt index the target step. *)
TargetMissing(e, i) ==
    /\ ~caller[e].stream
    /\ steps(e)[i].kind = "reflect"
    /\ steps(e)[i].target \notin DOMAIN steps(e)

(* The next step is marked Running and saved; then its turn, or the        *)
(* resolution of its approval, goes on.                                    *)
StartStep(e) ==
    /\ pc[e] = "seq"
    /\ \E i \in Unfinished(steps(e)) :
          /\ IsNext(steps(e), i)
          /\ ~TargetMissing(e, i)
          /\ Checkpoint(e, With(copy[e], Mark(steps(e), {i}, "running")))
          /\ cur' = [cur EXCEPT ![e] = i]
          /\ Goto(e, IF IsApproval(e, i) THEN "approval" ELSE "turn")
          /\ Began({k \in {i} : ~IsApproval(e, k)})
    /\ UNCHANGED <<born, up, answering, caller, inflight, cancelling, left>>

(* The target of a Reflect step is out of range: the task panics. *)
PanicOnTarget(e) ==
    /\ pc[e] = "seq"
    /\ \E i \in Unfinished(steps(e)) :
          IsNext(steps(e), i) /\ TargetMissing(e, i)
    /\ Return(e)
    /\ UNCHANGED <<store, cancelling, starts, left>>

(* execute_approval_step grants what has a channel or approves itself. *)
Approved(e) ==
    caller[e].channel \/ steps(e)[cur[e]].kind = "autogate"

(* execute_approval_step decides at once, then the loop goes on, also when *)
(* the mission has just been marked Failed.                                *)
ResolveApproval(e) ==
    /\ pc[e] = "approval"
    /\ IF Approved(e)
       THEN Checkpoint(e, With(copy[e],
                               CompleteStep(steps(e), cur[e], "approved")))
       ELSE Checkpoint(e, [status |-> "failed",
                           steps  |-> Mark(steps(e), {cur[e]}, "failed")])
    /\ Goto(e, "seq")
    /\ UNCHANGED <<born, up, answering, caller, cur, inflight, cancelling,
                   starts, left>>

MayReviseAtAnyDepth(e) ==
    /\ ~caller[e].stream
    /\ steps(e)[cur[e]].kind = "reflect"

(* The verdict on a Reflect step asks for a revision that is still allowed. *)
MayRevise(e) ==
    /\ ~caller[e].stream
    /\ steps(e)[cur[e]].kind = "reflect"
    /\ steps(e)[cur[e]].left > 0

(* The turn returned a text that completes the step. *)
TurnCompletes(e) ==
    /\ pc[e] = "turn"
    /\ Checkpoint(e, With(copy[e], CompleteStep(steps(e), cur[e], "text")))
    /\ Goto(e, "seq")
    /\ UNCHANGED <<born, up, answering, caller, cur, inflight, cancelling,
                   starts, left>>

(* The turn returned a verdict that rejects its target. *)
TurnRejects(e) ==
    /\ pc[e] = "turn"
    /\ MayRevise(e)
    /\ Len(steps(e)) + 2 <= MaxSteps
    /\ Checkpoint(e, With(copy[e], Revise(steps(e), cur[e])))
    /\ Goto(e, "seq")
    /\ UNCHANGED <<born, up, answering, caller, cur, inflight, cancelling,
                   starts, left>>

ExhaustedOneEarly(step) == step.retries + 1 >= MaxRetries

ExhaustedOneLate(step) == step.retries > MaxRetries

(* The attempt that has just failed was the last one. *)
Exhausted(step) == step.retries + 1 > MaxRetries

(* handle_step_failure, and the same lines of execute_mission_stream. *)
TurnFails(e) ==
    /\ pc[e] = "turn"
    /\ IF Exhausted(steps(e)[cur[e]])
       THEN /\ SaveAndReturn(e, [status |-> "failed",
                                 steps  |-> FailStep(steps(e), cur[e])])
       ELSE /\ Checkpoint(e, With(copy[e], RetryStep(steps(e), cur[e])))
            /\ Goto(e, "seq")
            /\ UNCHANGED <<caller, cur, inflight>>
    /\ UNCHANGED <<born, up, answering, cancelling, starts, left>>

(* No step is left: finalize_mission. *)
FinishSequential(e) ==
    /\ pc[e] = "seq"
    /\ Unfinished(steps(e)) = {}
    /\ SaveAndReturn(e, [copy[e] EXCEPT !.status = "completed"])
    /\ UNCHANGED <<born, up, answering, cancelling, starts, left>>

-----------------------------------------------------------------------------
(* DAG execution: execute_dag.  Step kinds play no part here. *)

(* All ready steps are marked Running, saved once and spawned. *)
StartBatch(e) ==
    /\ pc[e] = "dag"
    /\ Ready(steps(e)) # {}
    /\ Checkpoint(e, With(copy[e], Mark(steps(e), Ready(steps(e)), "running")))
    /\ inflight' = [inflight EXCEPT ![e] = Ready(steps(e))]
    /\ Began(Ready(steps(e)))
    /\ Goto(e, "join")
    /\ UNCHANGED <<born, up, answering, caller, cur, cancelling, left>>

(* join_next returned a step that succeeded: its result stays in memory. *)
JoinOk(e, i) ==
    /\ pc[e] = "join"
    /\ i \in inflight[e]
    /\ copy' = [copy EXCEPT ![e] =
                   With(copy[e], CompleteStep(steps(e), i, "text"))]
    /\ inflight' = [inflight EXCEPT ![e] = @ \ {i}]
    /\ UNCHANGED <<store, pc, caller, cur, cancelling, starts, left>>

(* join_next returned a step that failed, for good or for now. *)
JoinErr(e, i) ==
    /\ pc[e] = "join"
    /\ i \in inflight[e]
    /\ copy' = [copy EXCEPT ![e] =
                   With(copy[e], IF Exhausted(steps(e)[i])
                                 THEN SkipDownstream(FailStep(steps(e), i), i)
                                 ELSE RetryStep(steps(e), i))]
    /\ inflight' = [inflight EXCEPT ![e] = @ \ {i}]
    /\ UNCHANGED <<store, pc, caller, cur, cancelling, starts, left>>

(* The whole batch has been joined: the checkpoint after it. *)
SaveBatch(e) ==
    /\ pc[e] = "join"
    /\ inflight[e] = {}
    /\ stored' = copy[e]
    /\ Goto(e, IF AnyFailed(steps(e)) /\ AllTerminal(steps(e))
               THEN "dagfail" ELSE "dag")
    /\ UNCHANGED <<born, up, answering, local, cancelling, starts, left>>

(* The second save after a batch: some step failed and no step is left. *)
FailDag(e) ==
    /\ pc[e] = "dagfail"
    /\ SaveAndReturn(e, [copy[e] EXCEPT !.status = "failed"])
    /\ UNCHANGED <<born, up, answering, cancelling, starts, left>>

(* No step is ready and every step is terminal: finalize_mission. *)
FinishDag(e) ==
    /\ pc[e] = "dag"
    /\ Ready(steps(e)) = {}
    /\ AllTerminal(steps(e))
    /\ SaveAndReturn(e, [copy[e] EXCEPT !.status = "completed"])
    /\ UNCHANGED <<born, up, answering, cancelling, starts, left>>

(* No step is ready and some are not terminal. *)
Stuck(e) ==
    /\ pc[e] = "dag"
    /\ Ready(steps(e)) = {}
    /\ ~AllTerminal(steps(e))

DagSpins(e) == Stuck(e) /\ UNCHANGED vars

(* The "DAG deadlock" error: the mission stays Executing. *)
DagDeadlock(e) ==
    /\ Stuck(e)
    /\ Return(e)
    /\ UNCHANGED <<store, cancelling, starts, left>>

-----------------------------------------------------------------------------
(* Handlers that do not execute *)

(* TaskEngine::cancel, first half: load and refuse what is terminal. *)
CancelLoad ==
    /\ up /\ cancelling = NoMission /\ Free
    /\ stored # NoMission /\ ~IsTerminal(stored.status)
    /\ Spend("cancel")
    /\ cancelling' = [status |-> "cancelled", steps |-> CancelSteps(stored.steps)]
    /\ UNCHANGED <<store, pc, local, starts>>

(* Second half: save over whatever the store holds by then. *)
CancelSave ==
    /\ cancelling # NoMission
    /\ stored' = cancelling
    /\ cancelling' = NoMission
    /\ UNCHANGED <<born, up, answering, pc, local, starts, left>>

(* TaskEngine::delete_mission looks at nothing. *)
Delete ==
    /\ up /\ born /\ Free
    /\ Spend("delete")
    /\ stored' = NoMission
    /\ UNCHANGED <<born, up, answering, pc, local, cancelling, starts>>

-----------------------------------------------------------------------------
(* Faults *)

(* An error of a store open or save or of create_agent, a panic of a       *)
(* joined step or of parse_reflection_result, or an executor of another    *)
(* mission that holds the store ends one call; what it had not saved is    *)
(* lost.                                                                   *)
Abort(e) ==
    /\ pc[e] \notin {"idle", "load"}
    /\ Spend("fault")
    /\ Return(e)
    /\ UNCHANGED <<store, cancelling, starts>>

(* The process stops: only the store survives. *)
Crash ==
    /\ up
    /\ Spend("fault")
    /\ up' = FALSE
    /\ answering' = FALSE
    /\ pc' = [e \in Executors |-> "idle"]
    /\ copy' = [e \in Executors |-> NoMission]
    /\ cur' = [e \in Executors |-> 0]
    /\ inflight' = [e \in Executors |-> {}]
    /\ caller' = [e \in Executors |-> NoCaller]
    /\ cancelling' = NoMission
    /\ UNCHANGED <<stored, born, starts>>

(* It starts again.  Nothing calls recover_interrupted_tasks. *)
Restart ==
    /\ ~up
    /\ up' = TRUE
    /\ UNCHANGED <<stored, born, answering, pc, local, cancelling, starts,
                   left>>

-----------------------------------------------------------------------------
(* A step of a running executor. *)
Execute(e) ==
    \/ OpenStore(e)
    \/ Load(e)
    \/ Begin(e)
    \/ Dispatch(e)
    \/ StartStep(e)
    \/ PanicOnTarget(e)
    \/ ResolveApproval(e)
    \/ TurnCompletes(e)
    \/ TurnRejects(e)
    \/ TurnFails(e)
    \/ FinishSequential(e)
    \/ StartBatch(e)
    \/ \E i \in inflight[e] : JoinOk(e, i) \/ JoinErr(e, i)
    \/ SaveBatch(e)
    \/ FailDag(e)
    \/ FinishDag(e)
    \/ DagDeadlock(e)

Next ==
    \/ \E e \in Executors :
          \/ \E c \in Creators : Create(e, c)
          \/ \E c \in Resumers : Resume(e, c)
          \/ Execute(e)
          \/ Abort(e)
    \/ Answer
    \/ CancelLoad
    \/ CancelSave
    \/ Delete
    \/ Crash
    \/ Restart

Spec == Init /\ [][Next]_vars

(* The runtime keeps polling a spawned executor, an LLM turn ends, the     *)
(* handlers have no await left where they are cut here, and a stopped      *)
(* process is started again.  Nobody is obliged to resume, cancel or       *)
(* delete.                                                                 *)
FairSpec ==
    /\ Spec
    /\ \A e \in Executors : WF_vars(Execute(e))
    /\ WF_vars(Answer)
    /\ WF_vars(CancelSave)
    /\ WF_vars(Restart)

-----------------------------------------------------------------------------
(* Properties *)

(* Every mission record that a save can still put into the store. *)
Records == {stored, cancelling} \union {copy[e] : e \in Executors}

Started == {"running", "completed", "failed"}

(* What must be completed before step i may start. *)
Prerequisites(s, i) ==
    IF IsDag(s) THEN s[i].deps ELSE {k \in DOMAIN s : k < i}

InOrder(s) ==
    \A i \in DOMAIN s :
        s[i].status \in Started =>
            Prerequisites(s, i) \subseteq CompletedSteps(s)

(* No step of a mission starts before its prerequisites are Completed: the *)
(* earlier steps of a sequential mission, the dependencies of a DAG.  Holds*)
(* for what is stored and for every copy that may yet be stored, whatever  *)
(* executors, cancels, deletes, crashes and resumes interleave.            *)
OrderRespected == \A m \in Records : InOrder(m.steps)

(* A Completed sequential mission has Completed every step, those appended *)
(* by revisions included: no interleaving lets finalize_mission run over a *)
(* failed, skipped or unfinished step.                                     *)
SequentialCompletion ==
    \A m \in Records :
        m.status = "completed" /\ ~IsDag(m.steps) =>
            CompletedSteps(m.steps) = DOMAIN m.steps

(* A review that rejected its target and still had depth is never lost:    *)
(* the retry and the review of the retry, one level less deep, are in the  *)
(* same record, the one stored as well as every copy still to be stored.   *)
RevisionChain ==
    \A m \in Records : \A i \in DOMAIN m.steps :
        m.steps[i].result = "rejected" =>
            \E k \in DOMAIN m.steps :
                /\ k > i /\ k + 1 \in DOMAIN m.steps
                /\ m.steps[k].kind = "execute"
                /\ m.steps[k + 1].kind = "reflect"
                /\ m.steps[k + 1].target = k
                /\ m.steps[k + 1].left = m.steps[i].left - 1

(* A step is Failed only when its attempts are used up or when it is a     *)
(* refused approval gate, a used-up step is nothing but Failed, and a      *)
(* mission is Failed only when a step is.                                  *)
FailureJustified ==
    \A m \in Records :
        /\ m.status = "failed" => \E i \in DOMAIN m.steps :
              m.steps[i].status = "failed" \/ m.steps[i].kind = "gate"
        /\ \A i \in DOMAIN m.steps :
              /\ m.steps[i].retries <= MaxRetries + 1
              /\ m.steps[i].retries = MaxRetries + 1 =>
                    m.steps[i].status = "failed"
              /\ m.steps[i].status = "failed" =>
                    \/ m.steps[i].retries = MaxRetries + 1
                    \/ m.steps[i].kind = "gate"

(* With one executor at a time, a step is attempted at most max_step_retries *)
(* + 1 times, and once more for each fault that cut an attempt off.        *)
AttemptsBounded ==
    \A i \in DOMAIN starts :
        starts[i] <= MaxRetries + 1 + (Budget["fault"] - left["fault"])

(* Without faults and with one executor at a time, a validated DAG never   *)
(* runs into the "DAG deadlock" error: skip_downstream leaves no step      *)
(* waiting for a dependency that will not complete.                        *)
NoDagDeadlock ==
    left["fault"] = Budget["fault"] => \A e \in Executors : ~Stuck(e)

(* A mission that has ended, whatever the way, keeps its end.              *)
TerminalIsFinal ==
    [][IsTerminal(stored.status) =>
          stored' = NoMission \/ stored'.status = stored.status]_vars

(* A completed mission has no failed step: a DAG with a failed step ends   *)
(* Failed.                                                                 *)
CompletedMeansNoFailure ==
    stored.status = "completed" => ~AnyFailed(stored.steps)

(* Every execute_mission call returns. *)
EveryCallReturns ==
    \A e \in Executors : (pc[e] # "idle") ~> (pc[e] = "idle")

Promise == INSTANCE MissionContract WITH
    status <- stored.status,
    work   <- DOMAIN stored.steps,
    done   <- CompletedSteps(stored.steps)

(* Every caller can carry the plan out to an end.  Nothing looks at a plan *)
(* before its mission is stored and Executing; the engine then leaves it   *)
(* so when validate_dag refuses its dependencies or the index of a missing *)
(* review target panics, and refuses a gate without a channel for ever.    *)
Executable(s) ==
    IF IsDag(s)
    THEN ValidDag(s)
    ELSE \A i \in DOMAIN s :
            /\ s[i].kind # "gate"
            /\ s[i].kind = "reflect" => s[i].target \in DOMAIN s

(* The engine keeps the contract of a mission when one executor runs it    *)
(* and no fault, cancel or delete intervenes: the safety part whatever the *)
(* plan, and that the mission ends if the plan is executable.              *)
ImplementsContract ==
    /\ Promise!Spec
    /\ <>[]Executable(stored.steps) => Promise!Ends
=============================================================================
