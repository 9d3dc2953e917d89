--------------------------- MODULE AgentProtocol ---------------------------
(***************************************************************************)
(* The agent-to-agent protocol (aivyx-server, routes/a2a.rs) on top of the *)
(* task engine: another agent creates a mission with tasks/send, or with   *)
(* tasks/sendSubscribe and then follows it on a stream of events, asks for *)
(* it with tasks/get and cancels it.  Every operation is one of the        *)
(* engine's; added are what the stream has told, what tasks/get answers    *)
(* and the push notifications that were asked for.                         *)
(***************************************************************************)
EXTENDS MissionEngine

VARIABLES
    follows, \* the executors that tell a stream how the mission goes
    told,    \* the events of the stream, oldest first
    push     \* a push notification is configured for the task

protocol == <<follows, told, push>>
allVars == <<vars, protocol>>

TaskEvents == {"submitted", "completed", "failed"}

ProtocolTypeOK ==
    /\ TypeOK
    /\ follows \subseteq Executors
    /\ told \in Seq(TaskEvents)
    /\ push \in BOOLEAN

ProtocolInit ==
    /\ Init
    /\ follows = {}
    /\ told = <<>>
    /\ push = FALSE

-----------------------------------------------------------------------------
(* What an agent is answered *)

(* The agent's mission is executed in the background, as the other routes' *)
(* missions are.                                                           *)
Background == [stream |-> FALSE, channel |-> FALSE]

ASSUME AgentAssumption == Background \in Creators

(* map_task_state: a gate that is not yet resolved asks for input. *)
AwaitsApproval(m) ==
    \E i \in DOMAIN m.steps :
        /\ m.steps[i].status \in {"pending", "running"}
        /\ m.steps[i].kind \in {"gate", "autogate"}

TaskState(m) ==
    CASE m.status = "planned" -> "submitted"
      [] m.status = "executing" /\ AwaitsApproval(m) -> "input-required"
      [] m.status = "executing" /\ ~AwaitsApproval(m) -> "working"
      [] OTHER -> m.status

(* mission_to_a2a_task: an artifact for each completed step with a result. *)
Artifacts(m) == {i \in CompletedSteps(m.steps) : m.steps[i].result # "none"}

Task(m) == [state |-> TaskState(m), artifacts |-> Artifacts(m)]

(* tasks/get opens the store, for which it must be free. *)
HandleTaskGet == IF stored = NoMission THEN "not found" ELSE Task(stored)

-----------------------------------------------------------------------------
(* The stream *)

(* a2a_stream_handler creates the mission as tasks/send does. *)
SendSubscribe(e) ==
    /\ Create(e, Background)
    /\ follows' = {e}
    /\ UNCHANGED <<told, push>>

(* The first event is sent before the store is opened again. *)
TellSubmitted(e) ==
    /\ e \in follows /\ told = <<>>
    /\ told' = <<"submitted">>
    /\ UNCHANGED <<vars, follows, push>>

(* execute_mission returns an error when it refuses the mission, when the  *)
(* plan does not validate and when the DAG is deadlocked; Ok otherwise,    *)
(* also of a mission that failed.  No event follows when the store cannot  *)
(* be opened or the task panics.                                           *)
FinalAlways(e) == IF pc[e] = "open" THEN <<>> ELSE <<"completed">>

Final(e) ==
    IF pc[e] = "open" \/ (pc[e] = "seq" /\ Unfinished(steps(e)) # {}) THEN <<>>
    ELSE IF pc[e] \in {"load", "dispatch"} \/ Stuck(e) THEN <<"failed">>
    ELSE <<"completed">>

Tells(e, event) ==
    IF e \in follows /\ pc'[e] = "idle"
    THEN told' = told \o event /\ follows' = follows \ {e}
    ELSE UNCHANGED <<told, follows>>

Perform(e) ==
    /\ e \in follows => told # <<>>
    /\ Execute(e)
    /\ Tells(e, Final(e))
    /\ UNCHANGED push

(* An error ends the stream with an event, a panic without one. *)
PerformAborts(e) ==
    /\ e \in follows => told # <<>>
    /\ Abort(e)
    /\ \E event \in {<<>>} \union {<<"failed">> : k \in {pc[e]} \ {"open"}} : Tells(e, event)
    /\ UNCHANGED push

(* The stream and the push notifications live in memory. *)
CrashWithStreams ==
    /\ Crash
    /\ follows' = {}
    /\ push' = FALSE
    /\ UNCHANGED told

-----------------------------------------------------------------------------
(* Push notifications: stored for any task, and asked for by nothing. *)

PushNotificationSet ==
    /\ up /\ born /\ ~push
    /\ push' = TRUE
    /\ UNCHANGED <<vars, follows, told>>

PushNotificationDelete ==
    /\ up /\ push
    /\ push' = FALSE
    /\ UNCHANGED <<vars, follows, told>>

PushNotificationGet == push

-----------------------------------------------------------------------------

(* tasks/send and POST /tasks; the command line's and the other handlers'  *)
(* operations, which tasks/cancel shares.                                  *)
TasksSend(e) == \E c \in Creators : Create(e, c) /\ UNCHANGED protocol
ResumeTask(e) == \E c \in Resumers : Resume(e, c) /\ UNCHANGED protocol
TasksCancel == (CancelLoad \/ CancelSave) /\ UNCHANGED protocol
Others == (Answer \/ Delete \/ Restart) /\ UNCHANGED protocol

ProtocolNext ==
    \/ \E e \in Executors :
          \/ TasksSend(e) \/ ResumeTask(e) \/ SendSubscribe(e)
          \/ TellSubmitted(e) \/ Perform(e) \/ PerformAborts(e)
    \/ TasksCancel
    \/ Others
    \/ CrashWithStreams
    \/ PushNotificationSet
    \/ PushNotificationDelete

(* The fairness of the engine; an event waits for nobody, as the channel   *)
(* of the stream holds eight.                                              *)
ProtocolSpec ==
    /\ ProtocolInit
    /\ [][ProtocolNext]_allVars
    /\ \A e \in Executors : WF_allVars(Perform(e)) /\ WF_allVars(TellSubmitted(e))
    /\ WF_allVars(Answer /\ UNCHANGED protocol)
    /\ WF_allVars(CancelSave /\ UNCHANGED protocol)
    /\ WF_allVars(Restart /\ UNCHANGED protocol)

-----------------------------------------------------------------------------
(* Properties *)

(* A stream that says "completed" says so of a mission that has ended:     *)
(* whatever cancels, deletes, faults, crashes and resumes come between,    *)
(* whoever then asks with tasks/get never again finds it submitted,        *)
(* working or waiting for input.                                           *)
EndIsFinal ==
    \A i \in DOMAIN told :
        told[i] = "completed" =>
            stored = NoMission \/ IsTerminal(TaskState(stored))

(* What is told is what tasks/get answers.  It is not: execute_mission     *)
(* returns Ok of a mission that failed.                                    *)
ToldIsTrue ==
    \A i \in DOMAIN told :
        told[i] = "completed" => TaskState(stored) # "failed"
=============================================================================
