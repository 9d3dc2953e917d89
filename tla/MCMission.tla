----------------------------- MODULE MCMission -----------------------------
(***************************************************************************)
(* Instances of MissionEngine for TLC.                                     *)
(***************************************************************************)
EXTENDS MissionEngine, TLC

CONSTANTS e1, e2

Step(kind, deps) == [NewStep(kind, 0, 0) EXCEPT !.deps = deps]

Review(target, depth) == NewStep("reflect", target, depth)

(* Plans of execute_sequential. *)
Reviewed == <<Step("execute", {}), Review(1, 1)>>
Gated    == <<Step("gate", {}), Step("execute", {})>>
AutoGate == <<Step("autogate", {})>>
BadReview == <<Review(7, 1)>>

(* Plans of execute_dag: a diamond, a chain beside a free step, a cycle. *)
Diamond == <<Step("execute", {}), Step("execute", {1}),
             Step("execute", {1}), Step("execute", {2, 3})>>
Fork    == <<Step("execute", {}), Step("gate", {}), Step("execute", {1})>>
Join    == <<Step("execute", {}), Step("gate", {}), Step("execute", {1, 2})>>
Cycle   == <<Step("execute", {2}), Step("execute", {1})>>

Server == [stream |-> FALSE, channel |-> FALSE]
CliRun == [stream |-> TRUE, channel |-> TRUE]
CliResume == [stream |-> FALSE, channel |-> TRUE]

SequentialPlans == {Reviewed, Gated, AutoGate, BadReview}
DagPlans == {Join, Cycle}
PlansWithoutGate == {Reviewed, AutoGate, BadReview, Diamond, Cycle}
AllPlans == SequentialPlans \union DagPlans

BudgetOf(r, c, d, f) ==
    [h \in Handlers |-> CASE h = "resume" -> r [] h = "cancel" -> c
                          [] h = "delete" -> d [] h = "fault" -> f]

(* Two levels of review, and a DAG of five steps with a free one. *)
DeepReview == <<Step("execute", {}), Review(1, 2)>>
Lanes   == <<Step("execute", {}), Step("execute", {}), Step("execute", {1}),
             Step("execute", {1, 2}), Step("execute", {3})>>
ContractPlans == {DeepReview, AutoGate, Diamond, Lanes, Gated, BadReview, Cycle}
NoBudget == BudgetOf(0, 0, 0, 0)
FaultyBudget == BudgetOf(1, 1, 1, 2)
ManyBudget == BudgetOf(1, 1, 1, 1)
ServerOnly == {Server}
Anyone == {Server, CliResume}
OneGate == {Gated}
OneFork == {Fork}
CrashBudget == BudgetOf(1, 0, 0, 1)
Both == {Server, CliRun}

Symmetry == Permutations({e1, e2})
=============================================================================
