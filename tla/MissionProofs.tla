--------------------------- MODULE MissionProofs ---------------------------
(***************************************************************************)
(* Theorems about MissionEngine for every set of executors and plans, every*)
(* retry limit and every budget of concurrent calls and faults, and about  *)
(* AgentProtocol on top of it.                                             *)
(***************************************************************************)
EXTENDS AgentProtocol, SequenceTheorems, FiniteSetTheorems,
        WellFoundedInduction, TLAPS

-----------------------------------------------------------------------------
(* Rewriting a step sequence keeps its type, length and dependencies. *)

SameShape(s, t) ==
    /\ t \in Seq(StepRecord)
    /\ Len(t) = Len(s)
    /\ DOMAIN t = DOMAIN s
    /\ \A i \in DOMAIN s : t[i].deps = s[i].deps

(* A function over the indices of a sequence of steps is one. *)
LEMMA Rewritten ==
    ASSUME NEW s \in Seq(StepRecord), NEW t,
           t = [i \in DOMAIN s |-> t[i]],
           \A i \in DOMAIN s : t[i] \in StepRecord /\ t[i].deps = s[i].deps
    PROVE  SameShape(s, t)
<1>1. DOMAIN s = 1 .. Len(s) /\ Len(s) \in Nat
  BY LenProperties
<1>2. t \in [1 .. Len(s) -> StepRecord]
  BY <1>1
<1>3. t \in Seq(StepRecord)
  BY <1>1, <1>2, SeqDef
<1>4. DOMAIN t = DOMAIN s /\ Len(t) = Len(s)
  BY <1>1, <1>2, <1>3, LenProperties
<1> QED
  BY <1>3, <1>4 DEF SameShape

LEMMA MarkShape ==
    ASSUME NEW s \in Seq(StepRecord), NEW S, NEW st \in StepStatuses
    PROVE  /\ SameShape(s, Mark(s, S, st))
           /\ \A i \in DOMAIN s :
                 Mark(s, S, st)[i].status = IF i \in S THEN st ELSE s[i].status
<1> DEFINE t == Mark(s, S, st)
<1>1. t = [i \in DOMAIN s |-> t[i]]
  BY DEF Mark
<1>2. \A i \in DOMAIN s : s[i] \in StepRecord
  BY ElementOfSeq, LenProperties
<1>3. \A i \in DOMAIN s :
         /\ t[i] \in StepRecord
         /\ t[i].deps = s[i].deps
         /\ t[i].status = IF i \in S THEN st ELSE s[i].status
  BY <1>2 DEF Mark, StepRecord
<1>4. SameShape(s, t)
  <2> HIDE DEF t
  <2> QED BY <1>1, <1>3, Rewritten
<1> QED
  BY <1>3, <1>4

LEMMA CompleteShape ==
    ASSUME NEW s \in Seq(StepRecord), NEW i \in DOMAIN s, NEW r \in Results
    PROVE  /\ SameShape(s, CompleteStep(s, i, r))
           /\ \A k \in DOMAIN s :
                 CompleteStep(s, i, r)[k].status =
                    IF k = i THEN "completed" ELSE s[k].status
<1> DEFINE t == CompleteStep(s, i, r)
<1>1. t = [k \in DOMAIN s |-> t[k]]
  BY DEF CompleteStep
<1>2. \A k \in DOMAIN s : s[k] \in StepRecord
  BY ElementOfSeq, LenProperties
<1>3. \A k \in DOMAIN s :
         /\ t[k] \in StepRecord
         /\ t[k].deps = s[k].deps
         /\ t[k].status = IF k = i THEN "completed" ELSE s[k].status
  BY <1>2 DEF CompleteStep, StepRecord, StepStatuses, Results
<1>4. SameShape(s, t)
  <2> HIDE DEF t
  <2> QED BY <1>1, <1>3, Rewritten
<1> QED
  BY <1>3, <1>4

LEMMA RetryShape ==
    ASSUME NEW s \in Seq(StepRecord), NEW i \in DOMAIN s
    PROVE  /\ SameShape(s, RetryStep(s, i))
           /\ \A k \in DOMAIN s :
                 RetryStep(s, i)[k].status =
                    IF k = i THEN "pending" ELSE s[k].status
<1> DEFINE t == RetryStep(s, i)
<1>1. t = [k \in DOMAIN s |-> t[k]]
  BY DEF RetryStep
<1>2. \A k \in DOMAIN s : s[k] \in StepRecord
  BY ElementOfSeq, LenProperties
<1>2a. \A k \in DOMAIN s : s[k].retries + 1 \in Nat
  BY <1>2 DEF StepRecord
<1>3. \A k \in DOMAIN s :
         /\ t[k] \in StepRecord
         /\ t[k].deps = s[k].deps
         /\ t[k].status = IF k = i THEN "pending" ELSE s[k].status
  BY <1>2, <1>2a DEF RetryStep, StepRecord, StepStatuses
<1>4. SameShape(s, t)
  <2> HIDE DEF t
  <2> QED BY <1>1, <1>3, Rewritten
<1> QED
  BY <1>3, <1>4

LEMMA FailShape ==
    ASSUME NEW s \in Seq(StepRecord), NEW i \in DOMAIN s
    PROVE  /\ SameShape(s, FailStep(s, i))
           /\ \A k \in DOMAIN s :
                 FailStep(s, i)[k].status =
                    IF k = i THEN "failed" ELSE s[k].status
<1> DEFINE t == FailStep(s, i)
<1>1. t = [k \in DOMAIN s |-> t[k]]
  BY DEF FailStep
<1>2. \A k \in DOMAIN s : s[k] \in StepRecord
  BY ElementOfSeq, LenProperties
<1>2a. \A k \in DOMAIN s : s[k].retries + 1 \in Nat
  BY <1>2 DEF StepRecord
<1>3. \A k \in DOMAIN s :
         /\ t[k] \in StepRecord
         /\ t[k].deps = s[k].deps
         /\ t[k].status = IF k = i THEN "failed" ELSE s[k].status
  BY <1>2, <1>2a DEF FailStep, StepRecord, StepStatuses
<1>4. SameShape(s, t)
  <2> HIDE DEF t
  <2> QED BY <1>1, <1>3, Rewritten
<1> QED
  BY <1>3, <1>4

LEMMA ReviseShape ==
    ASSUME NEW s \in Seq(StepRecord), NEW i \in DOMAIN s, s[i].left > 0
    PROVE  /\ Revise(s, i) \in Seq(StepRecord)
           /\ Len(Revise(s, i)) = Len(s) + 2
           /\ \A k \in DOMAIN s :
                 /\ k \in DOMAIN Revise(s, i)
                 /\ Revise(s, i)[k].deps = s[k].deps
                 /\ Revise(s, i)[k].status =
                       IF k = i THEN "completed" ELSE s[k].status
           /\ \A k \in DOMAIN Revise(s, i) \ DOMAIN s :
                 /\ Revise(s, i)[k].deps = {}
                 /\ Revise(s, i)[k].status = "pending"
           /\ DOMAIN s = 1 .. Len(s)
           /\ DOMAIN Revise(s, i) = 1 .. Len(s) + 2
<1> DEFINE c == CompleteStep(s, i, "rejected")
<1> DEFINE x == NewStep("execute", 0, 0)
<1> DEFINE y == NewStep("reflect", Len(s) + 1, s[i].left - 1)
<1>1. /\ SameShape(s, c)
      /\ \A k \in DOMAIN s :
            c[k].status = IF k = i THEN "completed" ELSE s[k].status
  BY CompleteShape DEF Results
<1>2. s[i] \in StepRecord /\ DOMAIN s = 1 .. Len(s) /\ Len(s) \in Nat
  BY ElementOfSeq, LenProperties
<1>3. s[i].left \in Nat
  BY <1>2 DEF StepRecord
<1>4. s[i].left - 1 \in Nat /\ Len(s) + 1 \in Nat
  BY <1>2, <1>3
<1>5. x \in StepRecord /\ x.deps = {} /\ x.status = "pending"
  BY DEF NewStep, StepRecord, Kinds, StepStatuses, Results
<1>6. y \in StepRecord /\ y.deps = {} /\ y.status = "pending"
  BY <1>4 DEF NewStep, StepRecord, Kinds, StepStatuses, Results
<1> HIDE DEF c, x, y
<1>7. /\ <<x, y>> \in Seq(StepRecord)
      /\ Len(<<x, y>>) = 2
      /\ <<x, y>>[1] = x
      /\ <<x, y>>[2] = y
  BY <1>5, <1>6
<1>8. c \in Seq(StepRecord) /\ Len(c) = Len(s) /\ DOMAIN c = DOMAIN s
  BY <1>1 DEF SameShape
<1> DEFINE r == c \o <<x, y>>
<1>9. /\ r \in Seq(StepRecord)
      /\ Len(r) = Len(s) + 2
      /\ \A k \in 1 .. Len(s) + 2 :
            r[k] = IF k <= Len(s) THEN c[k] ELSE <<x, y>>[k - Len(s)]
  BY <1>7, <1>8, ConcatProperties
<1>10. DOMAIN r = 1 .. Len(s) + 2
  BY <1>9, LenProperties
<1>11. Revise(s, i) = r
  BY DEF Revise, c, x, y
<1> HIDE DEF r
<1>12. \A k \in DOMAIN s : k \in DOMAIN r /\ r[k] = c[k]
  BY <1>2, <1>9, <1>10
<1>13. \A k \in DOMAIN r \ DOMAIN s : r[k] \in {x, y}
  <2> TAKE k \in DOMAIN r \ DOMAIN s
  <2>1. k = Len(s) + 1 \/ k = Len(s) + 2
    BY <1>2, <1>10
  <2> QED
    BY <2>1, <1>2, <1>7, <1>9
<1> QED
  BY <1>1, <1>2, <1>5, <1>6, <1>9, <1>10, <1>11, <1>12, <1>13 DEF SameShape

-----------------------------------------------------------------------------
(* Type correctness.  The indices an executor holds across an await, cur   *)
(* and inflight, stay inside its copy.                                     *)

IndicesOK ==
    \A e \in Executors :
        /\ pc[e] \in {"turn", "approval"} => cur[e] \in DOMAIN steps(e)
        /\ inflight[e] \subseteq DOMAIN steps(e)
        /\ pc[e] # "join" => inflight[e] = {}

TypeInv == TypeOK /\ IndicesOK

LEMMA NoMissionTyped == NoMission \in MissionRecord
<1>1. <<>> \in Seq(StepRecord)
  OBVIOUS
<1> QED
  BY <1>1 DEF NoMission, MissionRecord, TaskStatuses

LEMMA WithTyped ==
    ASSUME NEW m \in MissionRecord, NEW t \in Seq(StepRecord)
    PROVE  /\ With(m, t) \in MissionRecord
           /\ With(m, t).steps = t
           /\ With(m, t).status = m.status
BY DEF With, MissionRecord

LEMMA WithShape ==
    ASSUME NEW m \in MissionRecord, NEW t, SameShape(m.steps, t)
    PROVE  /\ With(m, t) \in MissionRecord
           /\ With(m, t).steps = t
           /\ With(m, t).status = m.status
           /\ DOMAIN With(m, t).steps = DOMAIN m.steps
BY WithTyped DEF SameShape

LEMMA StatusTyped ==
    ASSUME NEW m \in MissionRecord, NEW st \in TaskStatuses
    PROVE  /\ [m EXCEPT !.status = st] \in MissionRecord
           /\ [m EXCEPT !.status = st].steps = m.steps
           /\ [m EXCEPT !.status = st].status = st
BY DEF MissionRecord

LEMMA TypeInit == Init => TypeInv
<1> SUFFICES ASSUME Init PROVE TypeInv
  OBVIOUS
<1>1. NoMission \in MissionRecord
  BY NoMissionTyped
<1>2. NoCaller \in Callers
  BY DEF NoCaller, Callers
<1>3. TypeOK
  BY <1>1, <1>2, BudgetAssumption DEF Init, TypeOK, PCs
<1>4. IndicesOK
  BY DEF Init, IndicesOK
<1> QED
  BY <1>3, <1>4 DEF TypeInv

(* The end of a call leaves nothing out of type. *)
LEMMA ReturnTyped ==
    ASSUME TypeInv, NEW e \in Executors, Return(e)
    PROVE  /\ pc' \in [Executors -> PCs]
           /\ copy' \in [Executors -> MissionRecord]
           /\ caller' \in [Executors -> Callers]
           /\ cur' \in [Executors -> Nat]
           /\ inflight' \in [Executors -> SUBSET Nat]
           /\ IndicesOK'
<1>1. NoMission \in MissionRecord
  BY NoMissionTyped
<1>2. NoCaller \in Callers
  BY DEF NoCaller, Callers
<1>3. /\ pc' = [pc EXCEPT ![e] = "idle"]
      /\ copy' = [copy EXCEPT ![e] = NoMission]
      /\ caller' = [caller EXCEPT ![e] = NoCaller]
      /\ cur' = [cur EXCEPT ![e] = 0]
      /\ inflight' = [inflight EXCEPT ![e] = {}]
  BY DEF Return, Goto
<1>4. TypeOK /\ IndicesOK
  BY DEF TypeInv
<1>5. /\ pc' \in [Executors -> PCs]
      /\ copy' \in [Executors -> MissionRecord]
      /\ caller' \in [Executors -> Callers]
      /\ cur' \in [Executors -> Nat]
      /\ inflight' \in [Executors -> SUBSET Nat]
  BY <1>1, <1>2, <1>3, <1>4 DEF TypeOK, PCs
<1>6. \A f \in Executors :
         /\ pc'[f] \in {"turn", "approval"} => cur'[f] \in DOMAIN copy'[f].steps
         /\ inflight'[f] \subseteq DOMAIN copy'[f].steps
         /\ pc'[f] # "join" => inflight'[f] = {}
  <2> TAKE f \in Executors
  <2>1. CASE f = e
    BY <2>1, <1>3, <1>4 DEF TypeOK
  <2>2. CASE f # e
    BY <2>2, <1>3, <1>4 DEF TypeOK, IndicesOK, steps
  <2> QED
    BY <2>1, <2>2
<1> QED
  BY <1>5, <1>6 DEF IndicesOK, steps

(* Executor e moves to a label with a typed copy that keeps its indices. *)
LEMMA MoveTyped ==
    ASSUME TypeInv, NEW e \in Executors, NEW m \in MissionRecord,
           NEW l \in PCs, NEW k \in Nat, NEW S \in SUBSET Nat,
           pc' = [pc EXCEPT ![e] = l],
           copy' = [copy EXCEPT ![e] = m],
           cur' = [cur EXCEPT ![e] = k],
           inflight' = [inflight EXCEPT ![e] = S],
           l \in {"turn", "approval"} => k \in DOMAIN m.steps,
           S \subseteq DOMAIN m.steps,
           l # "join" => S = {}
    PROVE  /\ pc' \in [Executors -> PCs]
           /\ copy' \in [Executors -> MissionRecord]
           /\ cur' \in [Executors -> Nat]
           /\ inflight' \in [Executors -> SUBSET Nat]
           /\ IndicesOK'
<1>1. TypeOK /\ IndicesOK
  BY DEF TypeInv
<1>2. /\ pc' \in [Executors -> PCs]
      /\ copy' \in [Executors -> MissionRecord]
      /\ cur' \in [Executors -> Nat]
      /\ inflight' \in [Executors -> SUBSET Nat]
  BY <1>1 DEF TypeOK
<1>3. \A f \in Executors :
         /\ pc'[f] \in {"turn", "approval"} => cur'[f] \in DOMAIN copy'[f].steps
         /\ inflight'[f] \subseteq DOMAIN copy'[f].steps
         /\ pc'[f] # "join" => inflight'[f] = {}
  <2> TAKE f \in Executors
  <2>1. CASE f = e
    BY <2>1, <1>1 DEF TypeOK
  <2>2. CASE f # e
    BY <2>2, <1>1 DEF TypeOK, IndicesOK, steps
  <2> QED
    BY <2>1, <2>2
<1> QED
  BY <1>2, <1>3 DEF IndicesOK, steps

(* The checkpoints and local changes of a running executor. *)
LEMMA TypeExecute ==
    ASSUME TypeInv, NEW e \in Executors, Execute(e)
    PROVE  TypeInv'
<1> USE DEF TypeInv
<1>1. /\ copy[e] \in MissionRecord
      /\ steps(e) \in Seq(StepRecord)
      /\ stored \in MissionRecord
      /\ cur[e] \in Nat
      /\ inflight[e] \subseteq Nat
      /\ inflight[e] \subseteq DOMAIN steps(e)
      /\ pc[e] # "join" => inflight[e] = {}
      /\ pc[e] \in {"turn", "approval"} => cur[e] \in DOMAIN steps(e)
      /\ DOMAIN steps(e) \subseteq Nat
  <2>1. copy[e] \in MissionRecord
    BY DEF TypeOK
  <2>2. steps(e) \in Seq(StepRecord)
    BY <2>1 DEF steps, MissionRecord
  <2>3. DOMAIN steps(e) = 1 .. Len(steps(e)) /\ Len(steps(e)) \in Nat
    BY <2>2, LenProperties
  <2> QED
    BY <2>1, <2>2, <2>3 DEF TypeOK, IndicesOK
<1>k. /\ [cur EXCEPT ![e] = cur[e]] = cur
      /\ [inflight EXCEPT ![e] = inflight[e]] = inflight
      /\ [copy EXCEPT ![e] = copy[e]] = copy
      /\ [pc EXCEPT ![e] = pc[e]] = pc
  BY DEF TypeOK
<1>l. {"load", "begin", "dispatch", "seq", "turn", "approval", "dag", "join",
       "dagfail"} \subseteq PCs
  BY DEF PCs
<1>0. CASE OpenStore(e)
  <2>1. CASE Return(e)
    BY <2>1, <1>0, ReturnTyped DEF OpenStore, TypeOK, store
  <2>2. CASE ~Return(e)
    <3>1. /\ pc' = [pc EXCEPT ![e] = "load"]
          /\ UNCHANGED <<copy, caller, cur, inflight, stored, born, up,
                         answering, cancelling, starts, left>>
          /\ pc[e] = "open"
      BY <2>2, <1>0 DEF OpenStore, Goto, store
    <3>2. /\ pc' \in [Executors -> PCs]
          /\ IndicesOK'
      BY <1>1, <1>k, <1>l, <3>1, MoveTyped
    <3> QED
      BY <3>1, <3>2 DEF TypeOK
  <2> QED
    BY <2>1, <2>2
<1>2. CASE Load(e)
  <2>1. CASE stored = NoMission \/ IsTerminal(stored.status)
    BY <2>1, <1>2, ReturnTyped DEF Load, TypeOK
  <2>2. CASE ~(stored = NoMission \/ IsTerminal(stored.status))
    <3> DEFINE m == [stored EXCEPT !.status = "executing"]
    <3>1. m \in MissionRecord
      BY <1>1, StatusTyped DEF TaskStatuses
    <3>2. /\ pc' = [pc EXCEPT ![e] = "begin"]
          /\ copy' = [copy EXCEPT ![e] = m]
          /\ UNCHANGED <<caller, cur, inflight, stored, born, up, answering,
                         cancelling, starts, left>>
      BY <2>2, <1>2 DEF Load, Goto
    <3>3. pc[e] = "load"
      BY <1>2 DEF Load
    <3> HIDE DEF m
    <3>4. /\ pc' \in [Executors -> PCs]
          /\ copy' \in [Executors -> MissionRecord]
          /\ cur' \in [Executors -> Nat]
          /\ inflight' \in [Executors -> SUBSET Nat]
          /\ IndicesOK'
      BY <1>1, <1>k, <1>l, <3>1, <3>2, <3>3, MoveTyped
    <3> QED
      BY <3>2, <3>4 DEF TypeOK
  <2> QED
    BY <2>1, <2>2
<1>3. CASE Begin(e)
  <2>1. /\ pc' = [pc EXCEPT ![e] = "dispatch"]
        /\ stored' = copy[e]
        /\ UNCHANGED <<copy, caller, cur, inflight, born, up, answering,
                       cancelling, starts, left>>
        /\ pc[e] = "begin"
    BY <1>3 DEF Begin, Goto, local
  <2>2. /\ pc' \in [Executors -> PCs]
        /\ IndicesOK'
    BY <1>1, <1>k, <1>l, <2>1, MoveTyped
  <2> QED
    BY <1>1, <2>1, <2>2 DEF TypeOK
<1>4. CASE Dispatch(e)
  <2>1. CASE Return(e)
    BY <2>1, <1>4, ReturnTyped DEF Dispatch, TypeOK, store
  <2>2. CASE ~Return(e)
    <3>1. PICK l \in {"seq", "dag"} : pc' = [pc EXCEPT ![e] = l]
      BY <2>2, <1>4 DEF Dispatch, Goto
    <3>2. /\ UNCHANGED <<copy, caller, cur, inflight, stored, born, up,
                         answering, cancelling, starts, left>>
          /\ pc[e] = "dispatch"
      BY <2>2, <1>4 DEF Dispatch, store
    <3>3. /\ pc' \in [Executors -> PCs]
          /\ IndicesOK'
      BY <1>1, <1>k, <1>l, <3>1, <3>2, MoveTyped
    <3> QED
      BY <3>2, <3>3 DEF TypeOK
  <2> QED
    BY <2>1, <2>2
<1>5. CASE StartStep(e)
  <2>1. PICK i \in DOMAIN steps(e) :
           /\ Checkpoint(e, With(copy[e], Mark(steps(e), {i}, "running")))
           /\ cur' = [cur EXCEPT ![e] = i]
           /\ Goto(e, IF IsApproval(e, i) THEN "approval" ELSE "turn")
           /\ Began({k \in {i} : ~IsApproval(e, k)})
    BY <1>5 DEF StartStep, Unfinished
  <2> DEFINE m == With(copy[e], Mark(steps(e), {i}, "running"))
  <2>2. /\ Mark(steps(e), {i}, "running") \in Seq(StepRecord)
        /\ DOMAIN Mark(steps(e), {i}, "running") = DOMAIN steps(e)
    BY <1>1, MarkShape DEF SameShape, StepStatuses
  <2>3. m \in MissionRecord /\ DOMAIN m.steps = DOMAIN steps(e)
    BY <1>1, <2>2, WithTyped
  <2> HIDE DEF m
  <2>4. PICK l \in {"approval", "turn"} : pc' = [pc EXCEPT ![e] = l]
    BY <2>1 DEF Goto
  <2>5. /\ copy' = [copy EXCEPT ![e] = m]
        /\ stored' = m
        /\ pc[e] = "seq"
        /\ UNCHANGED <<born, up, answering, caller, inflight, cancelling,
                       left>>
    BY <1>5, <2>1 DEF StartStep, Checkpoint, m
  <2>6. /\ pc' \in [Executors -> PCs]
        /\ copy' \in [Executors -> MissionRecord]
        /\ cur' \in [Executors -> Nat]
        /\ inflight' \in [Executors -> SUBSET Nat]
        /\ IndicesOK'
    BY <1>1, <1>k, <1>l, <2>1, <2>3, <2>4, <2>5, MoveTyped
  <2>7. starts' \in [Counted -> Nat]
    BY <2>1 DEF Began, TypeOK
  <2> QED
    BY <2>3, <2>5, <2>6, <2>7 DEF TypeOK
<1>6. CASE PanicOnTarget(e)
  BY <1>6, ReturnTyped DEF PanicOnTarget, TypeOK, store
<1>7. CASE ResolveApproval(e)
  <2> DEFINE ok == With(copy[e], CompleteStep(steps(e), cur[e], "approved"))
  <2> DEFINE no == [status |-> "failed",
                    steps |-> Mark(steps(e), {cur[e]}, "failed")]
  <2>1. cur[e] \in DOMAIN steps(e) /\ pc[e] = "approval"
    BY <1>1, <1>7 DEF ResolveApproval
  <2>1a. SameShape(steps(e), CompleteStep(steps(e), cur[e], "approved"))
    BY <1>1, <2>1, CompleteShape DEF Results
  <2>2. ok \in MissionRecord /\ DOMAIN ok.steps = DOMAIN steps(e)
    BY <1>1, <2>1a, WithShape DEF steps
  <2>3. no \in MissionRecord /\ DOMAIN no.steps = DOMAIN steps(e)
    BY <1>1, MarkShape DEF SameShape, StepStatuses, MissionRecord, TaskStatuses
  <2> HIDE DEF ok, no
  <2>4. PICK m \in {ok, no} : copy' = [copy EXCEPT ![e] = m] /\ stored' = m
    BY <1>7 DEF ResolveApproval, Checkpoint, ok, no
  <2>5. /\ pc' = [pc EXCEPT ![e] = "seq"]
        /\ UNCHANGED <<born, up, answering, caller, cur, inflight,
                       cancelling, starts, left>>
    BY <1>7 DEF ResolveApproval, Goto
  <2>6. m \in MissionRecord /\ DOMAIN m.steps = DOMAIN steps(e)
    BY <2>2, <2>3
  <2>7. /\ pc' \in [Executors -> PCs]
        /\ copy' \in [Executors -> MissionRecord]
        /\ IndicesOK'
    BY <1>1, <1>k, <1>l, <2>1, <2>4, <2>5, <2>6, MoveTyped
  <2> QED
    BY <2>4, <2>5, <2>6, <2>7 DEF TypeOK
<1>8. CASE TurnCompletes(e)
  <2> DEFINE m == With(copy[e], CompleteStep(steps(e), cur[e], "text"))
  <2>1. cur[e] \in DOMAIN steps(e) /\ pc[e] = "turn"
    BY <1>1, <1>8 DEF TurnCompletes
  <2>1a. SameShape(steps(e), CompleteStep(steps(e), cur[e], "text"))
    BY <1>1, <2>1, CompleteShape DEF Results
  <2>2. m \in MissionRecord /\ DOMAIN m.steps = DOMAIN steps(e)
    BY <1>1, <2>1a, WithShape DEF steps
  <2> HIDE DEF m
  <2>3. /\ copy' = [copy EXCEPT ![e] = m]
        /\ stored' = m
        /\ pc' = [pc EXCEPT ![e] = "seq"]
        /\ UNCHANGED <<born, up, answering, caller, cur, inflight,
                       cancelling, starts, left>>
    BY <1>8 DEF TurnCompletes, Checkpoint, Goto, m
  <2>4. /\ pc' \in [Executors -> PCs]
        /\ copy' \in [Executors -> MissionRecord]
        /\ IndicesOK'
    BY <1>1, <1>k, <1>l, <2>1, <2>2, <2>3, MoveTyped
  <2> QED
    BY <2>2, <2>3, <2>4 DEF TypeOK
<1>9. CASE TurnRejects(e)
  <2> DEFINE m == With(copy[e], Revise(steps(e), cur[e]))
  <2>1. /\ cur[e] \in DOMAIN steps(e)
        /\ pc[e] = "turn"
        /\ steps(e)[cur[e]].left > 0
    BY <1>1, <1>9 DEF TurnRejects, MayRevise
  <2>2. Revise(steps(e), cur[e]) \in Seq(StepRecord)
    BY <1>1, <2>1, ReviseShape
  <2>3. m \in MissionRecord
    BY <1>1, <2>2, WithTyped
  <2> HIDE DEF m
  <2>4. /\ copy' = [copy EXCEPT ![e] = m]
        /\ stored' = m
        /\ pc' = [pc EXCEPT ![e] = "seq"]
        /\ UNCHANGED <<born, up, answering, caller, cur, inflight,
                       cancelling, starts, left>>
    BY <1>9 DEF TurnRejects, Checkpoint, Goto, m
  <2>5. /\ pc' \in [Executors -> PCs]
        /\ copy' \in [Executors -> MissionRecord]
        /\ IndicesOK'
    BY <1>1, <1>k, <1>l, <2>1, <2>3, <2>4, MoveTyped
  <2> QED
    BY <2>3, <2>4, <2>5 DEF TypeOK
<1>10. CASE TurnFails(e)
  <2>1. cur[e] \in DOMAIN steps(e) /\ pc[e] = "turn"
    BY <1>1, <1>10 DEF TurnFails
  <2>2. CASE Exhausted(steps(e)[cur[e]])
    <3>1. [status |-> "failed", steps |-> FailStep(steps(e), cur[e])]
             \in MissionRecord
      BY <1>1, <2>1, FailShape DEF SameShape, MissionRecord, TaskStatuses
    <3> QED
      BY <3>1, <2>2, <1>10, ReturnTyped DEF TurnFails, SaveAndReturn, TypeOK
  <2>3. CASE ~Exhausted(steps(e)[cur[e]])
    <3> DEFINE m == With(copy[e], RetryStep(steps(e), cur[e]))
    <3>0. SameShape(steps(e), RetryStep(steps(e), cur[e]))
      BY <1>1, <2>1, RetryShape
    <3>1. m \in MissionRecord /\ DOMAIN m.steps = DOMAIN steps(e)
      BY <1>1, <3>0, WithShape DEF steps
    <3> HIDE DEF m
    <3>2. /\ copy' = [copy EXCEPT ![e] = m]
          /\ stored' = m
          /\ pc' = [pc EXCEPT ![e] = "seq"]
          /\ UNCHANGED <<born, up, answering, caller, cur, inflight,
                         cancelling, starts, left>>
      BY <2>3, <1>10 DEF TurnFails, Checkpoint, Goto, m
    <3>3. /\ pc' \in [Executors -> PCs]
          /\ copy' \in [Executors -> MissionRecord]
          /\ IndicesOK'
      BY <1>1, <1>k, <1>l, <2>1, <3>1, <3>2, MoveTyped
    <3> QED
      BY <3>1, <3>2, <3>3 DEF TypeOK
  <2> QED
    BY <2>2, <2>3
<1>11. CASE FinishSequential(e) \/ FinishDag(e) \/ FailDag(e)
  <2>1. PICK st \in {"completed", "failed"} :
           SaveAndReturn(e, [copy[e] EXCEPT !.status = st])
    BY <1>11 DEF FinishSequential, FinishDag, FailDag
  <2>2. [copy[e] EXCEPT !.status = st] \in MissionRecord
    BY <1>1, StatusTyped DEF TaskStatuses
  <2>3. UNCHANGED <<born, up, answering, cancelling, starts, left>>
    BY <1>11 DEF FinishSequential, FinishDag, FailDag
  <2> QED
    BY <2>1, <2>2, <2>3, ReturnTyped DEF SaveAndReturn, TypeOK
<1>12. CASE StartBatch(e)
  <2> DEFINE S == Ready(steps(e))
  <2> DEFINE m == With(copy[e], Mark(steps(e), S, "running"))
  <2>0. SameShape(steps(e), Mark(steps(e), S, "running"))
    BY <1>1, MarkShape DEF StepStatuses
  <2>1. m \in MissionRecord /\ DOMAIN m.steps = DOMAIN steps(e)
    BY <1>1, <2>0, WithShape DEF steps
  <2>2. S \subseteq DOMAIN steps(e)
    BY DEF Ready
  <2>3. /\ copy' = [copy EXCEPT ![e] = m]
        /\ stored' = m
        /\ inflight' = [inflight EXCEPT ![e] = S]
        /\ pc' = [pc EXCEPT ![e] = "join"]
        /\ Began(S)
        /\ UNCHANGED <<born, up, answering, caller, cur, cancelling, left>>
    BY <1>12 DEF StartBatch, Checkpoint, Goto
  <2> HIDE DEF m, S
  <2>4. /\ pc' \in [Executors -> PCs]
        /\ copy' \in [Executors -> MissionRecord]
        /\ inflight' \in [Executors -> SUBSET Nat]
        /\ IndicesOK'
    BY <1>1, <1>k, <1>l, <2>1, <2>2, <2>3, MoveTyped
  <2>5. starts' \in [Counted -> Nat]
    BY <2>3 DEF Began, TypeOK
  <2> QED
    BY <2>1, <2>3, <2>4, <2>5 DEF TypeOK
<1>13. ASSUME NEW i \in inflight[e], JoinOk(e, i) \/ JoinErr(e, i)
       PROVE  TypeInv'
  <2>1. i \in DOMAIN steps(e)
    BY <1>1
  <2>2. PICK t \in Seq(StepRecord) :
           /\ DOMAIN t = DOMAIN steps(e)
           /\ copy' = [copy EXCEPT ![e] = With(copy[e], t)]
    <3>1. CASE JoinOk(e, i)
      BY <3>1, <1>1, <2>1, CompleteShape DEF JoinOk, SameShape, Results
    <3>2. CASE JoinErr(e, i)
      <4> DEFINE f == FailStep(steps(e), i)
      <4> DEFINE r == RetryStep(steps(e), i)
      <4>1. SameShape(steps(e), f) /\ SameShape(steps(e), r)
        BY <1>1, <2>1, FailShape, RetryShape
      <4>2. f \in Seq(StepRecord) /\ r \in Seq(StepRecord)
        BY <4>1 DEF SameShape
      <4> HIDE DEF f, r
      <4>3. SameShape(f, SkipDownstream(f, i))
        BY <4>2, MarkShape DEF SkipDownstream, StepStatuses
      <4> QED
        BY <3>2, <4>1, <4>3 DEF JoinErr, SameShape, f, r
    <3> QED
      BY <1>13, <3>1, <3>2
  <2>3. With(copy[e], t) \in MissionRecord /\ With(copy[e], t).steps = t
    BY <1>1, WithTyped
  <2>4. /\ inflight' = [inflight EXCEPT ![e] = inflight[e] \ {i}]
        /\ pc[e] = "join"
        /\ UNCHANGED <<stored, born, up, answering, pc, caller, cur,
                       cancelling, starts, left>>
    BY <1>13 DEF JoinOk, JoinErr, store
  <2>5. PICK m \in MissionRecord :
           /\ DOMAIN m.steps = DOMAIN steps(e)
           /\ copy' = [copy EXCEPT ![e] = m]
    BY <2>2, <2>3
  <2> DEFINE S == inflight[e] \ {i}
  <2>a. /\ S \in SUBSET Nat
        /\ S \subseteq DOMAIN m.steps
        /\ inflight' = [inflight EXCEPT ![e] = S]
    BY <1>1, <2>4, <2>5
  <2>b. /\ "join" \in PCs
        /\ pc' = [pc EXCEPT ![e] = "join"]
        /\ cur' = [cur EXCEPT ![e] = cur[e]]
    BY <1>k, <1>l, <2>4
  <2> HIDE DEF S
  <2>6. /\ copy' \in [Executors -> MissionRecord]
        /\ inflight' \in [Executors -> SUBSET Nat]
        /\ IndicesOK'
    BY <1>1, <2>a, <2>b, <2>5, MoveTyped
  <2> QED
    BY <2>4, <2>6 DEF TypeOK
<1>14. CASE SaveBatch(e)
  <2>1. PICK l \in {"dagfail", "dag"} : pc' = [pc EXCEPT ![e] = l]
    BY <1>14 DEF SaveBatch, Goto
  <2>2. /\ stored' = copy[e]
        /\ inflight[e] = {}
        /\ UNCHANGED <<copy, caller, cur, inflight, born, up, answering,
                       cancelling, starts, left>>
    BY <1>14 DEF SaveBatch, local
  <2>3. /\ pc' \in [Executors -> PCs]
        /\ IndicesOK'
    BY <1>1, <1>k, <1>l, <2>1, <2>2, MoveTyped
  <2> QED
    BY <1>1, <2>2, <2>3 DEF TypeOK
<1>15. CASE DagDeadlock(e)
  BY <1>15, ReturnTyped DEF DagDeadlock, TypeOK, store
<1> QED
  BY <1>0, <1>2, <1>3, <1>4, <1>5, <1>6, <1>7, <1>8, <1>9, <1>10, <1>11,
     <1>12, <1>13, <1>14, <1>15 DEF Execute

(* A handler hands the mission to an idle executor. *)
LEMMA LaunchTyped ==
    ASSUME TypeInv, NEW e \in Executors, NEW c \in Callers, pc[e] = "idle",
           Launch(e, c), UNCHANGED <<copy, cur, inflight>>
    PROVE  /\ pc' \in [Executors -> PCs]
           /\ caller' \in [Executors -> Callers]
           /\ answering' \in BOOLEAN
           /\ IndicesOK'
<1>1. /\ pc \in [Executors -> PCs]
      /\ caller \in [Executors -> Callers]
      /\ IndicesOK
  BY DEF TypeInv, TypeOK
<1>2. PICK l \in {"load", "open"} : pc' = [pc EXCEPT ![e] = l]
  BY DEF Launch, Goto
<1>3. /\ caller' = [caller EXCEPT ![e] = c]
      /\ answering' = (StoreIsExclusive /\ ~c.channel)
  BY DEF Launch
<1>4. \A f \in Executors :
         pc'[f] = pc[f] \/ (pc[f] = "idle" /\ pc'[f] \in {"load", "open"})
  BY <1>1, <1>2
<1>5. IndicesOK'
  BY <1>1, <1>4 DEF IndicesOK, steps
<1>6. pc' \in [Executors -> PCs]
  BY <1>1, <1>2 DEF PCs
<1>7. caller' \in [Executors -> Callers]
  BY <1>1, <1>3
<1> QED
  BY <1>3, <1>5, <1>6, <1>7

LEMMA TypeNext ==
    ASSUME TypeInv, [Next]_vars
    PROVE  TypeInv'
<1> USE DEF TypeInv
<1>1. NoMission \in MissionRecord
  BY NoMissionTyped
<1>l. \A h \in Handlers : Spend(h) => left' \in [Handlers -> Nat]
  BY DEF Spend, TypeOK, Handlers
<1>2. ASSUME NEW e \in Executors, NEW c \in Creators, Create(e, c)
      PROVE  TypeInv'
  <2>1. PICK plan \in Plans : stored' = [status |-> "planned", steps |-> plan]
    BY <1>2 DEF Create
  <2>2. stored' \in MissionRecord
    BY <2>1, PlansAssumption DEF IsPlan, MissionRecord, TaskStatuses
  <2>3. UNCHANGED <<up, copy, cur, inflight, cancelling, starts, left>>
    BY <1>2 DEF Create
  <2>4. pc[e] = "idle" /\ Launch(e, c)
    BY <1>2 DEF Create
  <2>5. /\ pc' \in [Executors -> PCs]
        /\ caller' \in [Executors -> Callers]
        /\ answering' \in BOOLEAN
        /\ IndicesOK'
    BY <2>3, <2>4, CallersAssumption, LaunchTyped
  <2>6. born' \in BOOLEAN
    BY <1>2 DEF Create
  <2> QED
    BY <2>2, <2>3, <2>5, <2>6 DEF TypeOK
<1>3. ASSUME NEW e \in Executors, NEW c \in Resumers, Resume(e, c)
      PROVE  TypeInv'
  <2>1. /\ UNCHANGED <<stored, born, up, copy, cur, inflight, cancelling,
                       starts>>
        /\ pc[e] = "idle"
        /\ Spend("resume")
        /\ Launch(e, c)
    BY <1>3 DEF Resume
  <2>2. left' \in [Handlers -> Nat]
    BY <1>l, <2>1 DEF Handlers
  <2>3. /\ pc' \in [Executors -> PCs]
        /\ caller' \in [Executors -> Callers]
        /\ answering' \in BOOLEAN
        /\ IndicesOK'
    BY <2>1, CallersAssumption, LaunchTyped
  <2> QED
    BY <2>1, <2>2, <2>3 DEF TypeOK
<1>4. ASSUME NEW e \in Executors, Execute(e)
      PROVE  TypeInv'
  BY <1>4, TypeExecute
<1>5. ASSUME NEW e \in Executors, Abort(e)
      PROVE  TypeInv'
  <2>1. /\ Return(e)
        /\ Spend("fault")
        /\ UNCHANGED <<stored, born, up, answering, cancelling, starts>>
    BY <1>5 DEF Abort, store
  <2>2. left' \in [Handlers -> Nat]
    BY <1>l, <2>1 DEF Handlers
  <2> QED
    BY <2>1, <2>2, ReturnTyped DEF TypeOK
<1>6. CASE CancelLoad
  <2>1. /\ cancelling' = [status |-> "cancelled",
                          steps |-> CancelSteps(stored.steps)]
        /\ Spend("cancel")
        /\ UNCHANGED <<stored, born, up, answering, pc, copy, caller, cur,
                       inflight, starts>>
    BY <1>6 DEF CancelLoad, store, local
  <2>2. stored.steps \in Seq(StepRecord)
    BY DEF TypeOK, MissionRecord
  <2>3. SameShape(stored.steps, CancelSteps(stored.steps))
    BY <2>2, MarkShape DEF CancelSteps, StepStatuses
  <2>4. cancelling' \in MissionRecord
    BY <2>1, <2>3 DEF SameShape, MissionRecord, TaskStatuses
  <2>5. left' \in [Handlers -> Nat]
    BY <1>l, <2>1 DEF Handlers
  <2>6. IndicesOK'
    BY <2>1 DEF IndicesOK, steps
  <2> QED
    BY <2>1, <2>4, <2>5, <2>6 DEF TypeOK
<1>7. CASE CancelSave
  <2>1. /\ stored' = cancelling
        /\ cancelling' = NoMission
        /\ UNCHANGED <<born, up, answering, pc, copy, caller, cur, inflight,
                       starts, left>>
    BY <1>7 DEF CancelSave, local
  <2>2. IndicesOK'
    BY <2>1 DEF IndicesOK, steps
  <2> QED
    BY <1>1, <2>1, <2>2 DEF TypeOK
<1>8. CASE Delete
  <2>1. /\ stored' = NoMission
        /\ Spend("delete")
        /\ UNCHANGED <<born, up, answering, pc, copy, caller, cur, inflight,
                       cancelling, starts>>
    BY <1>8 DEF Delete, local
  <2>2. left' \in [Handlers -> Nat]
    BY <1>l, <2>1 DEF Handlers
  <2>3. IndicesOK'
    BY <2>1 DEF IndicesOK, steps
  <2> QED
    BY <1>1, <2>1, <2>2, <2>3 DEF TypeOK
<1>9. CASE Crash
  <2>1. NoCaller \in Callers
    BY DEF NoCaller, Callers
  <2>2. left' \in [Handlers -> Nat]
    BY <1>l, <1>9 DEF Handlers, Crash
  <2>3. IndicesOK'
    BY <1>9 DEF IndicesOK, steps, Crash
  <2> QED
    BY <1>1, <1>9, <2>1, <2>2, <2>3 DEF Crash, TypeOK, PCs
<1>10. CASE Restart
  BY <1>10 DEF Restart, TypeOK, IndicesOK, steps, local
<1>11. CASE Answer
  BY <1>11 DEF Answer, TypeOK, IndicesOK, steps, local
<1>12. CASE UNCHANGED vars
  BY <1>12 DEF vars, TypeOK, IndicesOK, steps
<1> QED
  BY <1>2, <1>3, <1>4, <1>5, <1>6, <1>7, <1>8, <1>9, <1>10, <1>11, <1>12
  DEF Next

(* Every reachable state has the type the model declares: no interleaving  *)
(* of executors, handlers and faults makes an executor complete or fail a  *)
(* step its mission does not have.                                         *)
THEOREM TypeCorrect == Spec => []TypeOK
<1>1. Init => TypeInv
  BY TypeInit
<1>2. TypeInv /\ [Next]_vars => TypeInv'
  BY TypeNext
<1>3. TypeInv => TypeOK
  BY DEF TypeInv
<1> QED
  BY <1>1, <1>2, <1>3, PTL DEF Spec

-----------------------------------------------------------------------------
(* The order of the steps.                                                 *)
(*                                                                         *)
(* OrderRespected is not inductive.  A step may only complete because it   *)
(* was started in order and the executor still holds it: cur is Running,   *)
(* what is in the JoinSet has its dependencies completed, and neither      *)
(* changes under the executor, whose copy nobody else writes.  A skipped   *)
(* step would let a sequential mission go on past it, so nothing an        *)
(* executor may load is a skipped step of a sequential mission: only       *)
(* cancel skips there, and a cancelled mission is refused.                 *)

Streamed == \E c \in Creators \union Resumers : c.stream

(* execute_mission_stream runs a DAG in the order of its indices; the code *)
(* does not rule that out, so the order of a DAG is proved for callers and *)
(* plans that never meet.                                                  *)
StreamsOnlySequential == Streamed => \A p \in Plans : ~IsDag(p)

StepsOK(s) ==
    /\ StreamsOnlySequential \/ ~IsDag(s) => InOrder(s)
    /\ StreamsOnlySequential /\ Streamed => ~IsDag(s)

NoneSkipped(s) ==
    ~IsDag(s) => \A i \in DOMAIN s : s[i].status # "skipped"

RecordOK(m) ==
    /\ StepsOK(m.steps)
    /\ m.status # "cancelled" => NoneSkipped(m.steps)
    /\ m.status = "completed" /\ ~IsDag(m.steps) =>
          CompletedSteps(m.steps) = DOMAIN m.steps

ExecutorOK(e) ==
    /\ copy[e].status \in {"none", "executing", "failed"}
    /\ caller[e].stream => Streamed
    /\ pc[e] \in {"seq", "turn", "approval"} =>
          (StreamsOnlySequential => ~IsDag(steps(e)))
    /\ pc[e] \in {"turn", "approval"} => steps(e)[cur[e]].status = "running"
    /\ pc[e] \in {"dag", "join", "dagfail"} => IsDag(steps(e))
    /\ \A i \in inflight[e] :
          /\ steps(e)[i].deps \subseteq CompletedSteps(steps(e))
          /\ steps(e)[i].status \in {"running", "skipped"}

OrderInv ==
    /\ TypeInv
    /\ RecordOK(stored)
    /\ RecordOK(cancelling)
    /\ \A e \in Executors : RecordOK(copy[e]) /\ ExecutorOK(e)

LEMMA ShapeKeepsMode ==
    ASSUME NEW s \in Seq(StepRecord), NEW t, SameShape(s, t)
    PROVE  /\ IsDag(t) <=> IsDag(s)
           /\ \A i \in DOMAIN s : Prerequisites(t, i) = Prerequisites(s, i)
BY DEF SameShape, IsDag, Prerequisites

(* A rewrite keeps the order when it undoes no completed step and starts   *)
(* only what has its prerequisites.                                        *)
LEMMA RewriteKeepsOrder ==
    ASSUME NEW s \in Seq(StepRecord), NEW t, SameShape(s, t),
           InOrder(s),
           CompletedSteps(s) \subseteq CompletedSteps(t),
           \A i \in DOMAIN s : t[i].status \in Started =>
              \/ s[i].status \in Started
              \/ Prerequisites(s, i) \subseteq CompletedSteps(s)
    PROVE  InOrder(t)
<1> SUFFICES ASSUME NEW i \in DOMAIN t, t[i].status \in Started
             PROVE  Prerequisites(t, i) \subseteq CompletedSteps(t)
  BY DEF InOrder
<1>1. i \in DOMAIN s
  BY DEF SameShape
<1>2. Prerequisites(s, i) \subseteq CompletedSteps(s)
  BY <1>1 DEF InOrder
<1> QED
  BY <1>1, <1>2, ShapeKeepsMode

LEMMA RewriteOK ==
    ASSUME NEW s \in Seq(StepRecord), NEW t, SameShape(s, t),
           StepsOK(s), NoneSkipped(s),
           StreamsOnlySequential \/ ~IsDag(s) =>
              /\ CompletedSteps(s) \subseteq CompletedSteps(t)
              /\ \A i \in DOMAIN s : t[i].status \in Started =>
                    \/ s[i].status \in Started
                    \/ Prerequisites(s, i) \subseteq CompletedSteps(s),
           ~IsDag(s) =>
              \A i \in DOMAIN s : t[i].status = "skipped" =>
                 s[i].status = "skipped"
    PROVE  /\ StepsOK(t)
           /\ NoneSkipped(t)
           /\ IsDag(t) <=> IsDag(s)
<1>1. IsDag(t) <=> IsDag(s)
  BY ShapeKeepsMode
<1>2. StreamsOnlySequential \/ ~IsDag(s) => InOrder(t)
  BY RewriteKeepsOrder DEF StepsOK
<1>3. NoneSkipped(t)
  BY <1>1 DEF NoneSkipped, SameShape
<1> QED
  BY <1>1, <1>2, <1>3 DEF StepsOK

(* Only the executor e and the store change. *)
LEMMA Frame ==
    ASSUME OrderInv, TypeInv', NEW e \in Executors,
           \A f \in Executors \ {e} :
              /\ pc'[f] = pc[f]
              /\ copy'[f] = copy[f]
              /\ caller'[f] = caller[f]
              /\ cur'[f] = cur[f]
              /\ inflight'[f] = inflight[f],
           RecordOK(stored'), RecordOK(cancelling'), RecordOK(copy'[e]),
           ExecutorOK(e)'
    PROVE  OrderInv'
<1>1. \A f \in Executors : RecordOK(copy'[f]) /\ ExecutorOK(f)'
  <2> TAKE f \in Executors
  <2>1. CASE f = e
    BY <2>1
  <2>2. CASE f # e
    BY <2>2 DEF OrderInv, ExecutorOK, steps
  <2> QED
    BY <2>1, <2>2
<1> QED
  BY <1>1 DEF OrderInv

LEMMA NoMissionOK == RecordOK(NoMission)
<1>1. DOMAIN NoMission.steps = {} /\ NoMission.status = "none"
  BY DEF NoMission
<1> QED
  BY <1>1 DEF RecordOK, StepsOK, NoneSkipped, InOrder, IsDag

LEMMA IdleOK ==
    ASSUME TypeInv, NEW e \in Executors, Return(e)
    PROVE  RecordOK(copy'[e]) /\ ExecutorOK(e)'
<1>1. /\ pc'[e] = "idle"
      /\ copy'[e] = NoMission
      /\ caller'[e] = NoCaller
      /\ inflight'[e] = {}
  BY DEF Return, Goto, TypeInv, TypeOK
<1> QED
  BY <1>1, NoMissionOK DEF ExecutorOK, NoMission, NoCaller

(* A call that returns after a good save leaves everything in order. *)
LEMMA ReturnOK ==
    ASSUME OrderInv, TypeInv', NEW e \in Executors, Return(e),
           RecordOK(stored'), cancelling' = cancelling
    PROVE  OrderInv'
<1>1. TypeInv /\ RecordOK(cancelling')
  BY DEF OrderInv
<1>2. RecordOK(copy'[e]) /\ ExecutorOK(e)'
  BY <1>1, IdleOK
<1>3. \A f \in Executors \ {e} :
         /\ pc'[f] = pc[f]
         /\ copy'[f] = copy[f]
         /\ caller'[f] = caller[f]
         /\ cur'[f] = cur[f]
         /\ inflight'[f] = inflight[f]
  BY <1>1 DEF Return, Goto, TypeInv, TypeOK
<1> QED
  BY <1>1, <1>2, <1>3, Frame

(* Executor e moves on with a good copy, which it may have saved. *)
LEMMA MoveOK ==
    ASSUME OrderInv, TypeInv', NEW e \in Executors, NEW m, NEW l, NEW k, NEW S,
           pc' = [pc EXCEPT ![e] = l],
           copy' = [copy EXCEPT ![e] = m],
           cur' = [cur EXCEPT ![e] = k],
           inflight' = [inflight EXCEPT ![e] = S],
           caller' = caller, cancelling' = cancelling,
           stored' = stored \/ stored' = m,
           RecordOK(m),
           m.status \in {"none", "executing", "failed"},
           l \in {"seq", "turn", "approval"} =>
              (StreamsOnlySequential => ~IsDag(m.steps)),
           l \in {"turn", "approval"} => m.steps[k].status = "running",
           l \in {"dag", "join", "dagfail"} => IsDag(m.steps),
           \A i \in S : /\ m.steps[i].deps \subseteq CompletedSteps(m.steps)
                        /\ m.steps[i].status \in {"running", "skipped"}
    PROVE  OrderInv'
<1>1. TypeOK
  BY DEF OrderInv, TypeInv
<1>2. /\ pc'[e] = l /\ copy'[e] = m /\ cur'[e] = k /\ inflight'[e] = S
      /\ caller'[e] = caller[e]
  BY <1>1 DEF TypeOK
<1>3. \A f \in Executors \ {e} :
         /\ pc'[f] = pc[f]
         /\ copy'[f] = copy[f]
         /\ caller'[f] = caller[f]
         /\ cur'[f] = cur[f]
         /\ inflight'[f] = inflight[f]
  BY <1>1 DEF TypeOK
<1>4. ExecutorOK(e)
  BY DEF OrderInv
<1>5. ExecutorOK(e)'
  BY <1>2, <1>4 DEF ExecutorOK, steps
<1>6. RecordOK(stored') /\ RecordOK(cancelling') /\ RecordOK(copy'[e])
  BY <1>2 DEF OrderInv
<1> QED
  BY <1>3, <1>5, <1>6, Frame

(* A record that is neither completed nor cancelled is as good as its steps. *)
LEMMA OpenRecordOK ==
    ASSUME NEW t, StepsOK(t), NoneSkipped(t),
           NEW st \in {"none", "planned", "executing", "failed"}
    PROVE  RecordOK([status |-> st, steps |-> t])
BY DEF RecordOK

LEMMA WithIs ==
    ASSUME NEW m \in MissionRecord, NEW t
    PROVE  With(m, t) = [status |-> m.status, steps |-> t]
BY DEF With, MissionRecord

(* t is s but for step i, whose status is now st. *)
OneStep(s, t, i, st) ==
    /\ i \in DOMAIN s
    /\ SameShape(s, t)
    /\ \A k \in DOMAIN s :
          t[k].status = IF k = i THEN st ELSE s[k].status

LEMMA OneStepOK ==
    ASSUME NEW s \in Seq(StepRecord), NEW t, NEW i, NEW st,
           OneStep(s, t, i, st),
           StepsOK(s), NoneSkipped(s),
           st # "skipped",
           s[i].status = "completed" => st = "completed",
           StreamsOnlySequential \/ ~IsDag(s) =>
              (st \in Started =>
                 \/ s[i].status \in Started
                 \/ Prerequisites(s, i) \subseteq CompletedSteps(s))
    PROVE  /\ StepsOK(t)
           /\ NoneSkipped(t)
           /\ IsDag(t) <=> IsDag(s)
<1> USE DEF OneStep
<1>1. CompletedSteps(s) \subseteq CompletedSteps(t)
  BY DEF CompletedSteps, SameShape
<1>2. \A k \in DOMAIN s :
         t[k].status = "skipped" => s[k].status = "skipped"
  OBVIOUS
<1>3. StreamsOnlySequential \/ ~IsDag(s) =>
         \A k \in DOMAIN s : t[k].status \in Started =>
            \/ s[k].status \in Started
            \/ Prerequisites(s, k) \subseteq CompletedSteps(s)
  OBVIOUS
<1> QED
  BY <1>1, <1>2, <1>3, RewriteOK

(* The steps next_pending_step has passed over are all completed. *)
LEMMA NextInOrder ==
    ASSUME NEW s \in Seq(StepRecord), NEW i, IsNext(s, i), NoneSkipped(s),
           ~IsDag(s)
    PROVE  Prerequisites(s, i) \subseteq CompletedSteps(s)
<1>1. SUFFICES ASSUME NEW k \in DOMAIN s, k < i
               PROVE  s[k].status = "completed"
  BY DEF Prerequisites, CompletedSteps
<1>2. s[k] \in StepRecord
  BY ElementOfSeq, LenProperties
<1>3. s[k].status \in StepStatuses
  BY <1>2 DEF StepRecord
<1>4. k \notin Unfinished(s) /\ s[k].status # "skipped"
  BY <1>1 DEF IsNext, NoneSkipped
<1> QED
  BY <1>3, <1>4 DEF Unfinished, StepStatuses

(* A rejected target: the review is completed, two steps are appended. *)
LEMMA ReviseOK ==
    ASSUME NEW s \in Seq(StepRecord), NEW i \in DOMAIN s, s[i].left > 0,
           s[i].status = "running", StepsOK(s), NoneSkipped(s)
    PROVE  /\ StepsOK(Revise(s, i))
           /\ NoneSkipped(Revise(s, i))
           /\ IsDag(Revise(s, i)) <=> IsDag(s)
<1> DEFINE r == Revise(s, i)
<1>1. /\ r \in Seq(StepRecord)
      /\ \A k \in DOMAIN s :
            /\ k \in DOMAIN r
            /\ r[k].deps = s[k].deps
            /\ r[k].status = IF k = i THEN "completed" ELSE s[k].status
      /\ \A k \in DOMAIN r \ DOMAIN s :
            r[k].deps = {} /\ r[k].status = "pending"
      /\ DOMAIN s = 1 .. Len(s)
      /\ DOMAIN r = 1 .. Len(s) + 2
      /\ Len(s) \in Nat
  BY ReviseShape, LenProperties
<1> HIDE DEF r
<1>2. IsDag(r) <=> IsDag(s)
  BY <1>1 DEF IsDag
<1>3. NoneSkipped(r)
  BY <1>1, <1>2 DEF NoneSkipped
<1>4. CompletedSteps(s) \subseteq CompletedSteps(r)
  BY <1>1 DEF CompletedSteps
<1>5. InOrder(s) => InOrder(r)
  <2> SUFFICES ASSUME InOrder(s), NEW k \in DOMAIN r, r[k].status \in Started
               PROVE  Prerequisites(r, k) \subseteq CompletedSteps(r)
    BY DEF InOrder
  <2>1. k \in DOMAIN s /\ s[k].status \in Started
    BY <1>1 DEF Started
  <2>2. Prerequisites(s, k) \subseteq CompletedSteps(s)
    BY <2>1 DEF InOrder
  <2>3. Prerequisites(r, k) \subseteq Prerequisites(s, k)
    BY <1>1, <1>2, <2>1 DEF Prerequisites
  <2> QED
    BY <1>4, <2>2, <2>3
<1> QED
  BY <1>2, <1>3, <1>5 DEF StepsOK, r

(* skip_downstream starts nothing and touches nothing that is completed. *)
LEMMA SkipOK ==
    ASSUME NEW s \in Seq(StepRecord), NEW i \in DOMAIN s, IsDag(s), StepsOK(s)
    PROVE  /\ SameShape(s, SkipDownstream(s, i))
           /\ StepsOK(SkipDownstream(s, i))
           /\ NoneSkipped(SkipDownstream(s, i))
           /\ IsDag(SkipDownstream(s, i))
           /\ CompletedSteps(s) \subseteq CompletedSteps(SkipDownstream(s, i))
           /\ \A k \in DOMAIN s :
                 \/ SkipDownstream(s, i)[k].status = s[k].status
                 \/ SkipDownstream(s, i)[k].status = "skipped"
<1> DEFINE S == {j \in Downstream(s, i) \ {i} :
                    s[j].status \in {"pending", "running"}}
<1> DEFINE t == SkipDownstream(s, i)
<1>1. /\ SameShape(s, t)
      /\ \A k \in DOMAIN s :
            t[k].status = IF k \in S THEN "skipped" ELSE s[k].status
  BY MarkShape DEF SkipDownstream, StepStatuses
<1>2. \A k \in S : s[k].status # "completed"
  OBVIOUS
<1> HIDE DEF S, t
<1>3. CompletedSteps(s) \subseteq CompletedSteps(t)
  BY <1>1, <1>2 DEF CompletedSteps, SameShape
<1>4. \A k \in DOMAIN s : t[k].status \in Started => s[k].status \in Started
  BY <1>1 DEF Started
<1>5. NoneSkipped(s)
  BY DEF NoneSkipped
<1>6. StepsOK(t) /\ NoneSkipped(t) /\ IsDag(t)
  BY <1>1, <1>3, <1>4, <1>5, RewriteOK
<1> QED
  BY <1>1, <1>3, <1>6 DEF t

LEMMA OrderExecute ==
    ASSUME OrderInv, TypeInv', NEW e \in Executors, Execute(e)
    PROVE  OrderInv'
<1> DEFINE s == steps(e)
<1>1. /\ copy[e] \in MissionRecord
      /\ s \in Seq(StepRecord)
      /\ pc[e] \in {"turn", "approval"} => cur[e] \in DOMAIN s
      /\ inflight[e] \subseteq DOMAIN s
      /\ pc[e] # "join" => inflight[e] = {}
      /\ \A X : With(copy[e], X) = [status |-> copy[e].status, steps |-> X]
      /\ copy[e] = [status |-> copy[e].status, steps |-> s]
  BY WithIs DEF OrderInv, TypeInv, TypeOK, IndicesOK, steps, MissionRecord
<1>2. ExecutorOK(e) /\ RecordOK(copy[e]) /\ RecordOK(stored)
  BY DEF OrderInv
<1>3. StepsOK(s) /\ NoneSkipped(s)
  BY <1>2 DEF RecordOK, ExecutorOK, steps
<1>4. copy[e].status \in {"none", "executing", "failed"}
  BY <1>2 DEF ExecutorOK
<1>k. /\ [cur EXCEPT ![e] = cur[e]] = cur
      /\ [inflight EXCEPT ![e] = inflight[e]] = inflight
      /\ [copy EXCEPT ![e] = copy[e]] = copy
      /\ [pc EXCEPT ![e] = pc[e]] = pc
  BY DEF OrderInv, TypeInv, TypeOK
(* What an executor saves while it goes on or when it fails. *)
<1>5. \A t : StepsOK(t) /\ NoneSkipped(t) =>
         /\ RecordOK(With(copy[e], t))
         /\ RecordOK([status |-> "failed", steps |-> t])
         /\ With(copy[e], t).status = copy[e].status
         /\ With(copy[e], t).steps = t
  <2> SUFFICES ASSUME NEW t, StepsOK(t), NoneSkipped(t)
               PROVE  /\ RecordOK(With(copy[e], t))
                      /\ RecordOK([status |-> "failed", steps |-> t])
                      /\ With(copy[e], t).status = copy[e].status
                      /\ With(copy[e], t).steps = t
    OBVIOUS
  <2>1. With(copy[e], t) = [status |-> copy[e].status, steps |-> t]
    BY <1>1
  <2>2. RecordOK([status |-> copy[e].status, steps |-> t])
    BY <1>4, OpenRecordOK
  <2>3. RecordOK([status |-> "failed", steps |-> t])
    BY OpenRecordOK
  <2> QED
    BY <2>1, <2>2, <2>3
<1>0. CASE OpenStore(e)
  <2>1. CASE Return(e)
    BY <2>1, <1>2, <1>0, ReturnOK DEF OpenStore, store
  <2>2. CASE ~Return(e)
    <3>1. /\ pc' = [pc EXCEPT ![e] = "load"]
          /\ UNCHANGED <<copy, caller, cur, inflight, stored, cancelling>>
          /\ inflight[e] = {}
      BY <2>2, <1>1, <1>0 DEF OpenStore, Goto, store
    <3> QED
      BY <1>k, <1>2, <1>4, <3>1, MoveOK
  <2> QED
    BY <2>1, <2>2
<1>6. CASE Load(e)
  <2>1. CASE stored = NoMission \/ IsTerminal(stored.status)
    BY <2>1, <1>6, <1>2, ReturnOK DEF Load
  <2>2. CASE ~(stored = NoMission \/ IsTerminal(stored.status))
    <3> DEFINE m == [stored EXCEPT !.status = "executing"]
    <3>1. m.status = "executing" /\ m.steps = stored.steps
      BY StatusTyped DEF OrderInv, TypeInv, TypeOK, TaskStatuses
    <3>2. RecordOK(m)
      BY <2>2, <1>2, <3>1 DEF RecordOK, IsTerminal
    <3>3. /\ pc' = [pc EXCEPT ![e] = "begin"]
          /\ copy' = [copy EXCEPT ![e] = m]
          /\ UNCHANGED <<caller, cur, inflight, stored, cancelling>>
          /\ inflight[e] = {}
      BY <2>2, <1>1, <1>6 DEF Load, Goto
    <3> HIDE DEF m
    <3> QED
      BY <1>k, <3>1, <3>2, <3>3, MoveOK
  <2> QED
    BY <2>1, <2>2
<1>7. CASE Begin(e)
  <2>1. /\ pc' = [pc EXCEPT ![e] = "dispatch"]
        /\ stored' = copy[e]
        /\ UNCHANGED <<copy, caller, cur, inflight, cancelling>>
        /\ inflight[e] = {}
    BY <1>1, <1>7 DEF Begin, Goto, local
  <2> QED
    BY <1>k, <1>2, <1>4, <2>1, MoveOK
<1>8. CASE Dispatch(e)
  <2>1. CASE Return(e)
    BY <2>1, <1>2, <1>8, ReturnOK DEF Dispatch, store
  <2>2. CASE ~Return(e)
    <3>1. /\ UNCHANGED <<copy, caller, cur, inflight, stored, cancelling>>
          /\ inflight[e] = {}
      BY <2>2, <1>1, <1>8 DEF Dispatch, store
    <3>2. \/ /\ pc' = [pc EXCEPT ![e] = "seq"]
             /\ caller[e].stream \/ ~IsDag(s)
          \/ /\ pc' = [pc EXCEPT ![e] = "dag"]
             /\ IsDag(s)
      BY <2>2, <1>8 DEF Dispatch, Goto
    <3>3. caller[e].stream /\ StreamsOnlySequential => ~IsDag(s)
      BY <1>2, <1>3 DEF ExecutorOK, StepsOK
    <3>4. CASE pc' = [pc EXCEPT ![e] = "seq"] /\ (caller[e].stream \/ ~IsDag(s))
      BY <1>k, <1>2, <1>4, <3>1, <3>3, <3>4, MoveOK DEF steps
    <3>5. CASE pc' = [pc EXCEPT ![e] = "dag"] /\ IsDag(s)
      BY <1>k, <1>2, <1>4, <3>1, <3>5, MoveOK DEF steps
    <3> QED
      BY <3>2, <3>4, <3>5
  <2> QED
    BY <2>1, <2>2
<1>9. CASE StartStep(e)
  <2>1. PICK i \in DOMAIN s :
           /\ IsNext(s, i)
           /\ Checkpoint(e, With(copy[e], Mark(s, {i}, "running")))
           /\ cur' = [cur EXCEPT ![e] = i]
           /\ Goto(e, IF IsApproval(e, i) THEN "approval" ELSE "turn")
    BY <1>9 DEF StartStep, Unfinished
  <2> DEFINE t == Mark(s, {i}, "running")
  <2>2. /\ SameShape(s, t)
        /\ \A k \in DOMAIN s :
              t[k].status = IF k = i THEN "running" ELSE s[k].status
    BY <1>1, MarkShape DEF StepStatuses
  <2>3. s[i].status # "completed"
    BY <2>1 DEF IsNext, Unfinished
  <2>4. StreamsOnlySequential => ~IsDag(s)
    BY <1>2, <1>9 DEF ExecutorOK, StartStep
  <2>5. ~IsDag(s) => Prerequisites(s, i) \subseteq CompletedSteps(s)
    BY <1>1, <1>3, <2>1, NextInOrder
  <2> HIDE DEF t
  <2>5a. StreamsOnlySequential \/ ~IsDag(s) =>
            Prerequisites(s, i) \subseteq CompletedSteps(s)
    BY <2>4, <2>5
  <2>5b. OneStep(s, t, i, "running")
    BY <2>1, <2>2 DEF OneStep
  <2>6. StepsOK(t) /\ NoneSkipped(t) /\ (IsDag(t) <=> IsDag(s))
    BY <1>1, <1>3, <2>3, <2>5a, <2>5b, OneStepOK
  <2> DEFINE m == With(copy[e], t)
  <2>7. RecordOK(m) /\ m.status = copy[e].status /\ m.steps = t
    BY <1>5, <2>6
  <2>8. /\ copy' = [copy EXCEPT ![e] = m]
        /\ stored' = m
        /\ UNCHANGED <<caller, inflight, cancelling>>
        /\ inflight[e] = {}
    BY <1>1, <1>9, <2>1 DEF StartStep, Checkpoint, t
  <2>9. PICK l \in {"approval", "turn"} : pc' = [pc EXCEPT ![e] = l]
    BY <2>1 DEF Goto
  <2>10. m.steps[i].status = "running"
    BY <2>2, <2>7
  <2> HIDE DEF m
  <2> QED
    BY <1>k, <1>4, <2>1, <2>4, <2>6, <2>7, <2>8, <2>9, <2>10, MoveOK
<1>10. CASE PanicOnTarget(e)
  BY <1>2, <1>10, ReturnOK DEF PanicOnTarget, store
(* The step a turn or an approval ends. *)
<1>t. ASSUME pc[e] \in {"turn", "approval"}
      PROVE  /\ cur[e] \in DOMAIN s
             /\ s[cur[e]].status = "running"
             /\ StreamsOnlySequential => ~IsDag(s)
             /\ inflight[e] = {}
  BY <1>1, <1>2, <1>t DEF ExecutorOK
<1>r. ASSUME NEW t, NEW st \in {"completed", "failed", "pending"},
             pc[e] \in {"turn", "approval"},
             OneStep(s, t, cur[e], st)
      PROVE  StepsOK(t) /\ NoneSkipped(t) /\ (IsDag(t) <=> IsDag(s))
  <2>1. cur[e] \in DOMAIN s /\ s[cur[e]].status = "running"
    BY <1>t, <1>r
  <2>2. s[cur[e]].status \in Started /\ s[cur[e]].status # "completed"
    BY <2>1 DEF Started
  <2>3. st # "skipped"
    OBVIOUS
  <2> QED
    BY <1>1, <1>3, <1>r, <2>1, <2>2, <2>3, OneStepOK
<1>s. ASSUME NEW t, StepsOK(t), NoneSkipped(t), IsDag(t) <=> IsDag(s),
             pc[e] \in {"turn", "approval"},
             pc' = [pc EXCEPT ![e] = "seq"],
             NEW m,
             \/ m = With(copy[e], t)
             \/ m = [status |-> "failed", steps |-> t],
             copy' = [copy EXCEPT ![e] = m],
             stored' = m,
             UNCHANGED <<caller, cur, inflight, cancelling>>
      PROVE  OrderInv'
  <2>1. RecordOK(m) /\ m.steps = t /\ m.status \in {"none", "executing", "failed"}
    <3>1. CASE m = With(copy[e], t)
      BY <1>4, <1>5, <1>s, <3>1
    <3>2. CASE m = [status |-> "failed", steps |-> t]
      BY <1>5, <1>s, <3>2
    <3> QED
      BY <1>s, <3>1, <3>2
  <2> QED
    BY <1>k, <1>s, <1>t, <2>1, MoveOK
<1>11. CASE ResolveApproval(e)
  <2> DEFINE ok == CompleteStep(s, cur[e], "approved")
  <2> DEFINE no == Mark(s, {cur[e]}, "failed")
  <2>1. pc[e] = "approval" /\ cur[e] \in DOMAIN s
    BY <1>11, <1>t DEF ResolveApproval
  <2>2. OneStep(s, ok, cur[e], "completed")
    BY <1>1, <2>1, CompleteShape DEF OneStep, Results
  <2>3. OneStep(s, no, cur[e], "failed")
    BY <1>1, <2>1, MarkShape DEF OneStep, StepStatuses
  <2>4. /\ pc' = [pc EXCEPT ![e] = "seq"]
        /\ UNCHANGED <<caller, cur, inflight, cancelling>>
        /\ \/ Checkpoint(e, With(copy[e], ok))
           \/ Checkpoint(e, [status |-> "failed", steps |-> no])
    BY <1>11 DEF ResolveApproval, Goto
  <2> HIDE DEF ok, no
  <2>5. StepsOK(ok) /\ NoneSkipped(ok) /\ (IsDag(ok) <=> IsDag(s))
    BY <1>r, <2>1, <2>2
  <2>6. StepsOK(no) /\ NoneSkipped(no) /\ (IsDag(no) <=> IsDag(s))
    BY <1>r, <2>1, <2>3
  <2>7. CASE Checkpoint(e, With(copy[e], ok))
    BY <1>s, <2>1, <2>4, <2>5, <2>7 DEF Checkpoint
  <2>8. CASE Checkpoint(e, [status |-> "failed", steps |-> no])
    BY <1>s, <2>1, <2>4, <2>6, <2>8 DEF Checkpoint
  <2> QED
    BY <2>4, <2>7, <2>8
<1>12. CASE TurnCompletes(e)
  <2> DEFINE t == CompleteStep(s, cur[e], "text")
  <2>1. pc[e] = "turn" /\ cur[e] \in DOMAIN s
    BY <1>12, <1>t DEF TurnCompletes
  <2>2. OneStep(s, t, cur[e], "completed")
    BY <1>1, <2>1, CompleteShape DEF OneStep, Results
  <2>3. /\ pc' = [pc EXCEPT ![e] = "seq"]
        /\ UNCHANGED <<caller, cur, inflight, cancelling>>
        /\ Checkpoint(e, With(copy[e], t))
    BY <1>12 DEF TurnCompletes, Goto
  <2> HIDE DEF t
  <2>4. StepsOK(t) /\ NoneSkipped(t) /\ (IsDag(t) <=> IsDag(s))
    BY <1>r, <2>1, <2>2
  <2> QED
    BY <1>s, <2>1, <2>3, <2>4 DEF Checkpoint
<1>13. CASE TurnRejects(e)
  <2> DEFINE t == Revise(s, cur[e])
  <2>1. pc[e] = "turn" /\ cur[e] \in DOMAIN s /\ s[cur[e]].left > 0
    BY <1>13, <1>t DEF TurnRejects, MayRevise
  <2>2. /\ pc' = [pc EXCEPT ![e] = "seq"]
        /\ UNCHANGED <<caller, cur, inflight, cancelling>>
        /\ Checkpoint(e, With(copy[e], t))
    BY <1>13 DEF TurnRejects, Goto
  <2>3. StepsOK(t) /\ NoneSkipped(t) /\ (IsDag(t) <=> IsDag(s))
    BY <1>1, <1>3, <1>t, <2>1, ReviseOK
  <2> HIDE DEF t
  <2> QED
    BY <1>s, <2>1, <2>2, <2>3 DEF Checkpoint
<1>14. CASE TurnFails(e)
  <2>1. pc[e] = "turn" /\ cur[e] \in DOMAIN s
    BY <1>14, <1>t DEF TurnFails
  <2>2. CASE Exhausted(s[cur[e]])
    <3> DEFINE t == FailStep(s, cur[e])
    <3>1. OneStep(s, t, cur[e], "failed")
      BY <1>1, <2>1, FailShape DEF OneStep
    <3>2. /\ SaveAndReturn(e, [status |-> "failed", steps |-> t])
          /\ cancelling' = cancelling
      BY <1>14, <2>2 DEF TurnFails
    <3> HIDE DEF t
    <3>3. StepsOK(t) /\ NoneSkipped(t)
      BY <1>r, <2>1, <3>1
    <3> QED
      BY <1>5, <3>2, <3>3, ReturnOK DEF SaveAndReturn
  <2>3. CASE ~Exhausted(s[cur[e]])
    <3> DEFINE t == RetryStep(s, cur[e])
    <3>1. OneStep(s, t, cur[e], "pending")
      BY <1>1, <2>1, RetryShape DEF OneStep
    <3>2. /\ pc' = [pc EXCEPT ![e] = "seq"]
          /\ UNCHANGED <<caller, cur, inflight, cancelling>>
          /\ Checkpoint(e, With(copy[e], t))
      BY <1>14, <2>3 DEF TurnFails, Goto
    <3> HIDE DEF t
    <3>3. StepsOK(t) /\ NoneSkipped(t) /\ (IsDag(t) <=> IsDag(s))
      BY <1>r, <2>1, <3>1
    <3> QED
      BY <1>s, <2>1, <3>2, <3>3 DEF Checkpoint
  <2> QED
    BY <2>2, <2>3
<1>15. CASE FinishSequential(e)
  <2> DEFINE m == [copy[e] EXCEPT !.status = "completed"]
  <2>1. m.status = "completed" /\ m.steps = s
    BY <1>1, StatusTyped DEF steps, TaskStatuses
  <2>2. ~IsDag(s) => CompletedSteps(s) = DOMAIN s
    <3> SUFFICES ASSUME ~IsDag(s), NEW k \in DOMAIN s
                 PROVE  s[k].status = "completed"
      BY DEF CompletedSteps
    <3>1. s[k].status \in StepStatuses
      <4>1. s[k] \in StepRecord
        BY <1>1, ElementOfSeq, LenProperties
      <4> QED
        BY <4>1 DEF StepRecord
    <3>2. k \notin Unfinished(s) /\ s[k].status # "skipped"
      BY <1>3, <1>15 DEF FinishSequential, NoneSkipped
    <3> QED
      BY <3>1, <3>2 DEF Unfinished, StepStatuses
  <2>3. RecordOK(m)
    BY <1>3, <2>1, <2>2 DEF RecordOK
  <2> QED
    BY <1>15, <2>3, ReturnOK DEF FinishSequential, SaveAndReturn
<1>16. CASE FinishDag(e) \/ FailDag(e)
  <2>1. IsDag(s)
    BY <1>2, <1>16 DEF ExecutorOK, FinishDag, FailDag
  <2>2. PICK st \in {"completed", "failed"} :
           SaveAndReturn(e, [copy[e] EXCEPT !.status = st])
    BY <1>16 DEF FinishDag, FailDag
  <2> DEFINE m == [copy[e] EXCEPT !.status = st]
  <2>3. m.status = st /\ m.steps = s
    BY <1>1, StatusTyped DEF steps, TaskStatuses
  <2>4. RecordOK(m)
    BY <1>3, <2>1, <2>3 DEF RecordOK
  <2>5. cancelling' = cancelling
    BY <1>16 DEF FinishDag, FailDag
  <2> QED
    BY <2>2, <2>4, <2>5, ReturnOK DEF SaveAndReturn
<1>17. CASE StartBatch(e)
  <2> DEFINE S == Ready(s)
  <2> DEFINE t == Mark(s, S, "running")
  <2>1. IsDag(s)
    BY <1>2, <1>17 DEF ExecutorOK, StartBatch
  <2>2. /\ SameShape(s, t)
        /\ \A k \in DOMAIN s :
              t[k].status = IF k \in S THEN "running" ELSE s[k].status
    BY <1>1, MarkShape DEF StepStatuses
  <2>3. \A k \in S : /\ k \in DOMAIN s
                     /\ s[k].status = "pending"
                     /\ s[k].deps \subseteq CompletedSteps(s)
    BY DEF Ready, CompletedSteps
  <2>4. /\ copy' = [copy EXCEPT ![e] = With(copy[e], t)]
        /\ stored' = With(copy[e], t)
        /\ inflight' = [inflight EXCEPT ![e] = S]
        /\ pc' = [pc EXCEPT ![e] = "join"]
        /\ UNCHANGED <<caller, cur, cancelling>>
    BY <1>17 DEF StartBatch, Checkpoint, Goto
  <2> HIDE DEF S, t
  <2>5. CompletedSteps(s) \subseteq CompletedSteps(t)
    BY <2>2, <2>3 DEF CompletedSteps, SameShape
  <2>6. \A k \in DOMAIN s : t[k].status \in Started =>
           \/ s[k].status \in Started
           \/ Prerequisites(s, k) \subseteq CompletedSteps(s)
    BY <2>1, <2>2, <2>3 DEF Prerequisites
  <2>7. StepsOK(t) /\ NoneSkipped(t) /\ IsDag(t)
    BY <1>1, <1>3, <2>1, <2>2, <2>5, <2>6, RewriteOK
  <2>8. \A k \in S : /\ t[k].deps \subseteq CompletedSteps(t)
                     /\ t[k].status \in {"running", "skipped"}
    BY <2>2, <2>3, <2>5 DEF SameShape
  <2> DEFINE m == With(copy[e], t)
  <2>9. RecordOK(m) /\ m.status = copy[e].status /\ m.steps = t
    BY <1>5, <2>7
  <2>10. copy' = [copy EXCEPT ![e] = m] /\ stored' = m
    BY <2>4
  <2> HIDE DEF m
  <2> QED
    BY <1>k, <1>4, <2>4, <2>7, <2>8, <2>9, <2>10, MoveOK
<1>18. ASSUME NEW i \in inflight[e], JoinOk(e, i) \/ JoinErr(e, i)
       PROVE  OrderInv'
  <2>1. /\ i \in DOMAIN s
        /\ IsDag(s)
        /\ \A k \in inflight[e] :
              /\ k \in DOMAIN s
              /\ s[k].deps \subseteq CompletedSteps(s)
              /\ s[k].status \in {"running", "skipped"}
    BY <1>1, <1>2, <1>18 DEF ExecutorOK, JoinOk, JoinErr
  <2>2. Prerequisites(s, i) \subseteq CompletedSteps(s)
    BY <2>1 DEF Prerequisites
  <2>3. i \notin CompletedSteps(s)
    BY <2>1 DEF CompletedSteps
  <2> DEFINE Result(t) ==
                /\ SameShape(s, t)
                /\ StepsOK(t) /\ NoneSkipped(t) /\ IsDag(t)
                /\ CompletedSteps(s) \subseteq CompletedSteps(t)
                /\ \A k \in DOMAIN s \ {i} :
                      \/ t[k].status = s[k].status
                      \/ t[k].status = "skipped"
  <2>4. ASSUME NEW t, NEW st \in {"completed", "failed", "pending"},
               OneStep(s, t, i, st)
        PROVE  Result(t)
    <3>1. CompletedSteps(s) \subseteq CompletedSteps(t)
      BY <2>3, <2>4 DEF CompletedSteps, SameShape, OneStep
    <3>2. s[i].status # "completed"
      BY <2>1
    <3>2a. st # "skipped"
      OBVIOUS
    <3>3. StepsOK(t) /\ NoneSkipped(t) /\ (IsDag(t) <=> IsDag(s))
      BY <1>1, <1>3, <2>2, <2>4, <3>2, <3>2a, OneStepOK
    <3> QED
      BY <2>1, <2>4, <3>1, <3>3 DEF OneStep
  <2>5. PICK t : Result(t) /\ copy' = [copy EXCEPT ![e] = With(copy[e], t)]
    <3>1. CASE JoinOk(e, i)
      <4> DEFINE t == CompleteStep(s, i, "text")
      <4>1. OneStep(s, t, i, "completed")
        BY <1>1, <2>1, CompleteShape DEF OneStep, Results
      <4>2. copy' = [copy EXCEPT ![e] = With(copy[e], t)]
        BY <3>1 DEF JoinOk
      <4> HIDE DEF t, Result
      <4> QED
        BY <2>4, <4>1, <4>2
    <3>2. CASE JoinErr(e, i) /\ ~Exhausted(s[i])
      <4> DEFINE t == RetryStep(s, i)
      <4>1. OneStep(s, t, i, "pending")
        BY <1>1, <2>1, RetryShape DEF OneStep
      <4>2. copy' = [copy EXCEPT ![e] = With(copy[e], t)]
        BY <3>2 DEF JoinErr
      <4> HIDE DEF t, Result
      <4> QED
        BY <2>4, <4>1, <4>2
    <3>3. CASE JoinErr(e, i) /\ Exhausted(s[i])
      <4> DEFINE f == FailStep(s, i)
      <4> DEFINE t == SkipDownstream(f, i)
      <4>1. OneStep(s, f, i, "failed")
        BY <1>1, <2>1, FailShape DEF OneStep
      <4>2. copy' = [copy EXCEPT ![e] = With(copy[e], t)]
        BY <3>3 DEF JoinErr
      <4> HIDE DEF f
      <4>3. Result(f)
        <5> HIDE DEF Result
        <5> QED BY <2>4, <4>1
      <4>4. f \in Seq(StepRecord) /\ i \in DOMAIN f
        BY <2>1, <4>1 DEF SameShape, OneStep
      <4>5. /\ SameShape(f, t)
            /\ StepsOK(t) /\ NoneSkipped(t) /\ IsDag(t)
            /\ CompletedSteps(f) \subseteq CompletedSteps(t)
            /\ \A k \in DOMAIN f :
                  t[k].status = f[k].status \/ t[k].status = "skipped"
        BY <4>3, <4>4, SkipOK
      <4> HIDE DEF t
      <4>6. Result(t)
        BY <4>1, <4>3, <4>5 DEF SameShape, OneStep
      <4> QED
        BY <4>2, <4>6
    <3> QED
      BY <1>18, <3>1, <3>2, <3>3
  <2> DEFINE S == inflight[e] \ {i}
  <2> DEFINE m == With(copy[e], t)
  <2>6. RecordOK(m) /\ m.status = copy[e].status /\ m.steps = t
    BY <1>5, <2>5
  <2>7. \A k \in S : /\ t[k].deps \subseteq CompletedSteps(t)
                     /\ t[k].status \in {"running", "skipped"}
    BY <2>1, <2>5 DEF SameShape
  <2>8. /\ pc' = [pc EXCEPT ![e] = pc[e]]
        /\ copy' = [copy EXCEPT ![e] = m]
        /\ inflight' = [inflight EXCEPT ![e] = S]
        /\ pc[e] = "join"
        /\ UNCHANGED <<stored, caller, cur, cancelling>>
    BY <1>k, <1>18, <2>5 DEF JoinOk, JoinErr, store
  <2>9. IsDag(t)
    BY <2>5
  <2> HIDE DEF S, m, Result
  <2> QED
    BY <1>k, <1>4, <2>6, <2>7, <2>8, <2>9, MoveOK
<1>19. CASE SaveBatch(e)
  <2>1. PICK l \in {"dag", "dagfail"} : pc' = [pc EXCEPT ![e] = l]
    BY <1>19 DEF SaveBatch, Goto
  <2>2. /\ stored' = copy[e]
        /\ inflight[e] = {}
        /\ UNCHANGED <<copy, caller, cur, inflight, cancelling>>
    BY <1>19 DEF SaveBatch, local
  <2>3. IsDag(copy[e].steps)
    BY <1>2, <1>19 DEF ExecutorOK, SaveBatch, steps
  <2> QED
    BY <1>k, <1>2, <1>4, <2>1, <2>2, <2>3, MoveOK
<1>20. CASE DagDeadlock(e)
  BY <1>2, <1>20, ReturnOK DEF DagDeadlock, store
<1> QED
  BY <1>0, <1>6, <1>7, <1>8, <1>9, <1>10, <1>11, <1>12, <1>13, <1>14, <1>15,
     <1>16, <1>17, <1>18, <1>19, <1>20 DEF Execute

(* Cancelling starts nothing and undoes nothing that is completed. *)
LEMMA CancelOK ==
    ASSUME NEW m \in MissionRecord, RecordOK(m), ~IsTerminal(m.status)
    PROVE  RecordOK([status |-> "cancelled", steps |-> CancelSteps(m.steps)])
<1> DEFINE s == m.steps
<1> DEFINE S == {i \in DOMAIN s : s[i].status \in {"pending", "running"}}
<1> DEFINE t == CancelSteps(s)
<1>1. s \in Seq(StepRecord)
  BY DEF MissionRecord
<1>2. /\ SameShape(s, t)
      /\ \A k \in DOMAIN s :
            t[k].status = IF k \in S THEN "skipped" ELSE s[k].status
  BY <1>1, MarkShape DEF CancelSteps, StepStatuses
<1>3. \A k \in S : s[k].status # "completed"
  OBVIOUS
<1>4. StepsOK(s)
  BY DEF RecordOK
<1> HIDE DEF s, S, t
<1>5. CompletedSteps(s) \subseteq CompletedSteps(t)
  BY <1>2, <1>3 DEF CompletedSteps, SameShape
<1>6. \A k \in DOMAIN s : t[k].status \in Started => s[k].status \in Started
  BY <1>2 DEF Started
<1>7. InOrder(s) => InOrder(t)
  BY <1>1, <1>2, <1>5, <1>6, RewriteKeepsOrder
<1>8. IsDag(t) <=> IsDag(s)
  BY <1>1, <1>2, ShapeKeepsMode
<1>9. StepsOK(t)
  BY <1>4, <1>7, <1>8 DEF StepsOK
<1> QED
  BY <1>9 DEF RecordOK, s, t

(* A plan nobody has worked on. *)
LEMMA PlanOK ==
    ASSUME NEW plan \in Plans
    PROVE  RecordOK([status |-> "planned", steps |-> plan])
<1>1. IsPlan(plan)
  BY PlansAssumption
<1>2. \A i \in DOMAIN plan : plan[i].status = "pending"
  BY <1>1 DEF IsPlan
<1>3. InOrder(plan)
  BY <1>2 DEF InOrder, Started
<1>4. NoneSkipped(plan)
  BY <1>2 DEF NoneSkipped
<1>5. StepsOK(plan)
  BY <1>3 DEF StepsOK, StreamsOnlySequential
<1> QED
  BY <1>4, <1>5, OpenRecordOK

(* Executors are where a handler left them, only the records change. *)
LEMMA StoreOK ==
    ASSUME OrderInv, TypeInv', RecordOK(stored'), RecordOK(cancelling'),
           UNCHANGED <<pc, copy, caller, cur, inflight>>
    PROVE  OrderInv'
<1>1. \A f \in Executors : RecordOK(copy'[f]) /\ ExecutorOK(f)'
  BY DEF OrderInv, ExecutorOK, steps
<1> QED
  BY <1>1 DEF OrderInv

(* An idle executor is given a caller and is about to open or load. *)
LEMMA CalledOK ==
    ASSUME OrderInv, TypeInv', NEW e \in Executors,
           NEW c \in Creators \union Resumers,
           pc[e] = "idle", Launch(e, c),
           UNCHANGED <<copy, cur, inflight, cancelling>>,
           RecordOK(stored')
    PROVE  OrderInv'
<1>1. TypeInv
  BY DEF OrderInv
<1>2. pc'[e] \in {"load", "open"} /\ caller'[e] = c /\ inflight[e] = {}
  BY <1>1 DEF TypeInv, TypeOK, IndicesOK, Launch, Goto
<1>3. c.stream => Streamed
  BY DEF Streamed
<1>4. ExecutorOK(e)'
  BY <1>2, <1>3 DEF OrderInv, ExecutorOK
<1>5. \A f \in Executors \ {e} : pc'[f] = pc[f] /\ caller'[f] = caller[f]
  BY <1>1 DEF TypeInv, TypeOK, Launch, Goto
<1>6. RecordOK(cancelling') /\ RecordOK(copy'[e])
  BY DEF OrderInv
<1> QED
  BY <1>4, <1>5, <1>6, Frame

LEMMA OrderInit == Init => OrderInv
<1> SUFFICES ASSUME Init PROVE OrderInv
  OBVIOUS
<1>1. TypeInv
  BY TypeInit
<1>2. RecordOK(NoMission)
  BY NoMissionOK
<1>3. \A e \in Executors : RecordOK(copy[e]) /\ ExecutorOK(e)
  BY <1>2 DEF Init, ExecutorOK, NoMission, NoCaller
<1> QED
  BY <1>1, <1>2, <1>3 DEF Init, OrderInv

LEMMA OrderNext ==
    ASSUME OrderInv, [Next]_vars
    PROVE  OrderInv'
<1>1. TypeInv /\ TypeInv'
  BY TypeNext DEF OrderInv
<1>2. RecordOK(stored) /\ RecordOK(cancelling)
  BY DEF OrderInv
<1>3. ASSUME NEW e \in Executors, NEW c \in Creators, Create(e, c)
      PROVE  OrderInv'
  <2>1. PICK plan \in Plans : stored' = [status |-> "planned", steps |-> plan]
    BY <1>3 DEF Create
  <2>2. RecordOK(stored')
    BY <2>1, PlanOK
  <2>3. /\ UNCHANGED <<copy, cur, inflight, cancelling>>
        /\ pc[e] = "idle"
        /\ Launch(e, c)
    BY <1>3 DEF Create
  <2> QED
    BY <1>1, <2>2, <2>3, CalledOK
<1>4. ASSUME NEW e \in Executors, NEW c \in Resumers, Resume(e, c)
      PROVE  OrderInv'
  BY <1>1, <1>2, <1>4, CalledOK DEF Resume
<1>5. ASSUME NEW e \in Executors, Execute(e)
      PROVE  OrderInv'
  BY <1>1, <1>5, OrderExecute
<1>6. ASSUME NEW e \in Executors, Abort(e)
      PROVE  OrderInv'
  BY <1>1, <1>2, <1>6, ReturnOK DEF Abort, store
<1>7. CASE CancelLoad
  <2>1. /\ cancelling' = [status |-> "cancelled",
                          steps |-> CancelSteps(stored.steps)]
        /\ ~IsTerminal(stored.status)
        /\ UNCHANGED <<stored, pc, copy, caller, cur, inflight>>
    BY <1>7 DEF CancelLoad, store, local
  <2>2. stored \in MissionRecord
    BY <1>1 DEF TypeInv, TypeOK
  <2>3. RecordOK(cancelling')
    BY <1>2, <2>1, <2>2, CancelOK
  <2> QED
    BY <1>1, <1>2, <2>1, <2>3, StoreOK
<1>8. CASE CancelSave
  BY <1>1, <1>2, <1>8, NoMissionOK, StoreOK DEF CancelSave, local
<1>9. CASE Delete
  BY <1>1, <1>2, <1>9, NoMissionOK, StoreOK DEF Delete, local
<1>10. CASE Crash
  <2>1. \A f \in Executors : RecordOK(copy'[f]) /\ ExecutorOK(f)'
    BY <1>10, NoMissionOK DEF Crash, ExecutorOK, NoMission, NoCaller
  <2>2. RecordOK(stored') /\ RecordOK(cancelling')
    BY <1>2, <1>10, NoMissionOK DEF Crash
  <2> QED
    BY <1>1, <2>1, <2>2 DEF OrderInv
<1>11. CASE Restart
  BY <1>1, <1>2, <1>11, StoreOK DEF Restart, local
<1>12. CASE Answer
  BY <1>1, <1>2, <1>12, StoreOK DEF Answer, local
<1>13. CASE UNCHANGED vars
  BY <1>1, <1>2, <1>13, StoreOK DEF vars
<1> QED
  BY <1>3, <1>4, <1>5, <1>6, <1>7, <1>8, <1>9, <1>10, <1>11, <1>12, <1>13
  DEF Next

LEMMA OrderAlways == Spec => []OrderInv
<1>1. Init => OrderInv
  BY OrderInit
<1>2. OrderInv /\ [Next]_vars => OrderInv'
  BY OrderNext
<1> QED
  BY <1>1, <1>2, PTL DEF Spec

(* However many executors, cancels, deletes, resumes, crashes and restarts *)
(* interleave, a mission completed step by step has completed every step.  *)
THEOREM CompletionCorrect == Spec => []SequentialCompletion
<1>1. OrderInv => SequentialCompletion
  BY DEF OrderInv, RecordOK, SequentialCompletion, Records
<1> QED
  BY <1>1, OrderAlways, PTL

(* Under the same interleavings no step is ever started, in the store or   *)
(* in a copy that may be stored, before its prerequisites are completed,   *)
(* provided execute_mission_stream is not given a DAG.                     *)
THEOREM OrderCorrect ==
    ASSUME StreamsOnlySequential
    PROVE  Spec => []OrderRespected
<1>1. OrderInv => OrderRespected
  BY DEF OrderInv, RecordOK, StepsOK, OrderRespected, Records
<1> QED
  BY <1>1, OrderAlways, PTL

-----------------------------------------------------------------------------
(* The revisions of a review.  RevisionChain is inductive once it is said  *)
(* of every record: what rewrites a step leaves alone what it is, and what *)
(* is appended is appended behind everything else.                         *)

Chained(s) ==
    \A i \in DOMAIN s :
        s[i].result = "rejected" =>
            \E k \in DOMAIN s :
                /\ k > i /\ k + 1 \in DOMAIN s
                /\ s[k].kind = "execute"
                /\ s[k + 1].kind = "reflect"
                /\ s[k + 1].target = k
                /\ s[k + 1].left = s[i].left - 1

(* Rewriting a step keeps what it is. *)

Kept(s, t) ==
    /\ DOMAIN s \subseteq DOMAIN t
    /\ \A i \in DOMAIN s :
          /\ t[i].kind = s[i].kind
          /\ t[i].target = s[i].target
          /\ t[i].left = s[i].left
          /\ t[i].deps = s[i].deps
          /\ t[i].result = s[i].result \/ t[i].result # "rejected"

LEMMA KeptChained ==
    ASSUME NEW s, NEW t, Kept(s, t), DOMAIN t = DOMAIN s, Chained(s)
    PROVE  Chained(t)
BY DEF Chained, Kept

(* t is s but for the steps in S, which have now the status st, as many    *)
(* attempts as before or one more, and no new rejection.                   *)
Changed(s, t, S, st, more) ==
    /\ Kept(s, t)
    /\ DOMAIN t = DOMAIN s
    /\ \A i \in DOMAIN s :
          /\ t[i].status = IF i \in S THEN st ELSE s[i].status
          /\ t[i].retries = IF i \in S THEN s[i].retries + more
                            ELSE s[i].retries

LEMMA MarkChanged ==
    ASSUME NEW s \in Seq(StepRecord), NEW S, NEW st \in StepStatuses
    PROVE  Changed(s, Mark(s, S, st), S, st, 0)
<1>1. \A i \in DOMAIN s : s[i] \in StepRecord
  BY ElementOfSeq, LenProperties
<1>2. \A i \in DOMAIN s : s[i].retries + 0 = s[i].retries
  BY <1>1 DEF StepRecord
<1>3. DOMAIN Mark(s, S, st) = DOMAIN s
  BY DEF Mark
<1>4. \A i \in DOMAIN s :
         Mark(s, S, st)[i] = IF i \in S THEN [s[i] EXCEPT !.status = st]
                             ELSE s[i]
  BY DEF Mark
<1> QED
  BY <1>1, <1>2, <1>3, <1>4 DEF Changed, Kept, StepRecord

LEMMA CompleteChanged ==
    ASSUME NEW s \in Seq(StepRecord), NEW i \in DOMAIN s,
           NEW r \in {"text", "approved"}
    PROVE  Changed(s, CompleteStep(s, i, r), {i}, "completed", 0)
<1>1. \A k \in DOMAIN s : s[k] \in StepRecord
  BY ElementOfSeq, LenProperties
<1>2. \A k \in DOMAIN s : s[k].retries + 0 = s[k].retries
  BY <1>1 DEF StepRecord
<1>3. DOMAIN CompleteStep(s, i, r) = DOMAIN s
  BY DEF CompleteStep
<1>4. \A k \in DOMAIN s :
         CompleteStep(s, i, r)[k] =
            IF k = i THEN [s[i] EXCEPT !.status = "completed", !.result = r]
            ELSE s[k]
  BY DEF CompleteStep
<1> QED
  BY <1>1, <1>2, <1>3, <1>4 DEF Changed, Kept, StepRecord

LEMMA RetryChanged ==
    ASSUME NEW s \in Seq(StepRecord), NEW i \in DOMAIN s
    PROVE  Changed(s, RetryStep(s, i), {i}, "pending", 1)
<1> DEFINE n == s[i].retries + 1
<1> DEFINE x == [s[i] EXCEPT !.status = "pending", !.retries = n]
<1> DEFINE t == RetryStep(s, i)
<1>1. \A k \in DOMAIN s : s[k] \in StepRecord
  BY ElementOfSeq, LenProperties
<1>2. /\ DOMAIN t = DOMAIN s
      /\ \A k \in DOMAIN s : k # i => t[k] = s[k]
      /\ t[i] = x
  BY DEF RetryStep
<1> HIDE DEF n, t
<1>3. /\ x.status = "pending" /\ x.retries = n /\ x.kind = s[i].kind
      /\ x.target = s[i].target /\ x.left = s[i].left
      /\ x.deps = s[i].deps /\ x.result = s[i].result
  BY <1>1 DEF StepRecord
<1> HIDE DEF x
<1>4. Kept(s, t)
  BY <1>2, <1>3 DEF Kept
<1>5. \A k \in DOMAIN s : s[k].retries \in Nat
  BY <1>1 DEF StepRecord
<1>6. \A k \in DOMAIN s :
         /\ t[k].status = IF k \in {i} THEN "pending" ELSE s[k].status
         /\ t[k].retries = IF k \in {i} THEN s[k].retries + 1 ELSE s[k].retries
  BY <1>2, <1>3 DEF n
<1> QED
  BY <1>2, <1>4, <1>6 DEF Changed, t

LEMMA FailChanged ==
    ASSUME NEW s \in Seq(StepRecord), NEW i \in DOMAIN s
    PROVE  Changed(s, FailStep(s, i), {i}, "failed", 1)
<1> DEFINE n == s[i].retries + 1
<1> DEFINE x == [s[i] EXCEPT !.status = "failed", !.retries = n]
<1> DEFINE t == FailStep(s, i)
<1>1. \A k \in DOMAIN s : s[k] \in StepRecord
  BY ElementOfSeq, LenProperties
<1>2. /\ DOMAIN t = DOMAIN s
      /\ \A k \in DOMAIN s : k # i => t[k] = s[k]
      /\ t[i] = x
  BY DEF FailStep
<1> HIDE DEF n, t
<1>3. /\ x.status = "failed" /\ x.retries = n /\ x.kind = s[i].kind
      /\ x.target = s[i].target /\ x.left = s[i].left
      /\ x.deps = s[i].deps /\ x.result = s[i].result
  BY <1>1 DEF StepRecord
<1> HIDE DEF x
<1>4. Kept(s, t)
  BY <1>2, <1>3 DEF Kept
<1>5. \A k \in DOMAIN s : s[k].retries \in Nat
  BY <1>1 DEF StepRecord
<1>6. \A k \in DOMAIN s :
         /\ t[k].status = IF k \in {i} THEN "failed" ELSE s[k].status
         /\ t[k].retries = IF k \in {i} THEN s[k].retries + 1 ELSE s[k].retries
  BY <1>2, <1>3 DEF n
<1> QED
  BY <1>2, <1>4, <1>6 DEF Changed, t

(* What a rejection leaves: the completed review, a retry and its review. *)
LEMMA ReviseIs ==
    ASSUME NEW s \in Seq(StepRecord), NEW i \in DOMAIN s, s[i].left > 0
    PROVE  LET c == CompleteStep(s, i, "rejected")
               r == Revise(s, i)
           IN  /\ DOMAIN s = 1 .. Len(s) /\ Len(s) \in Nat
               /\ DOMAIN r = 1 .. Len(s) + 2
               /\ \A k \in DOMAIN s : r[k] = c[k]
               /\ r[Len(s) + 1] = NewStep("execute", 0, 0)
               /\ r[Len(s) + 2] = NewStep("reflect", Len(s) + 1, s[i].left - 1)
<1> DEFINE c == CompleteStep(s, i, "rejected")
<1> DEFINE x == NewStep("execute", 0, 0)
<1> DEFINE y == NewStep("reflect", Len(s) + 1, s[i].left - 1)
<1> DEFINE r == Revise(s, i)
<1>1. DOMAIN s = 1 .. Len(s) /\ Len(s) \in Nat
  BY LenProperties
<1>2. c \in Seq(StepRecord) /\ Len(c) = Len(s) /\ DOMAIN c = DOMAIN s
  BY CompleteShape DEF SameShape, Results
<1>3. x \in StepRecord
  BY DEF NewStep, StepRecord, Kinds, StepStatuses, Results
<1>4. y \in StepRecord
  <2>1. s[i] \in StepRecord
    BY ElementOfSeq, LenProperties
  <2>2. s[i].left - 1 \in Nat /\ Len(s) + 1 \in Nat
    BY <1>1, <2>1 DEF StepRecord
  <2> QED
    BY <2>2 DEF NewStep, StepRecord, Kinds, StepStatuses, Results
<1>5. r = c \o <<x, y>>
  BY DEF Revise
<1>6. DOMAIN r = 1 .. Len(s) + 2
  BY ReviseShape
<1> HIDE DEF c, x, y, r
<1>7. /\ <<x, y>> \in Seq(StepRecord)
      /\ Len(<<x, y>>) = 2
      /\ <<x, y>>[1] = x
      /\ <<x, y>>[2] = y
  BY <1>3, <1>4
<1>8. \A k \in 1 .. Len(s) + 2 :
         r[k] = IF k <= Len(s) THEN c[k] ELSE <<x, y>>[k - Len(s)]
  BY <1>2, <1>5, <1>7, ConcatProperties
<1>9. \A k \in DOMAIN s : r[k] = c[k]
  BY <1>1, <1>8
<1>10. /\ Len(s) + 1 \in 1 .. Len(s) + 2 /\ ~(Len(s) + 1 <= Len(s))
       /\ Len(s) + 2 \in 1 .. Len(s) + 2 /\ ~(Len(s) + 2 <= Len(s))
       /\ (Len(s) + 1) - Len(s) = 1 /\ (Len(s) + 2) - Len(s) = 2
  BY <1>1
<1>11. r[Len(s) + 1] = x /\ r[Len(s) + 2] = y
  BY <1>7, <1>8, <1>10
<1> QED
  BY <1>1, <1>6, <1>9, <1>11 DEF c, x, y, r

LEMMA ReviseChained ==
    ASSUME NEW s \in Seq(StepRecord), NEW i \in DOMAIN s, s[i].left > 0,
           Chained(s)
    PROVE  Chained(Revise(s, i))
<1> DEFINE c == CompleteStep(s, i, "rejected")
<1> DEFINE x == NewStep("execute", 0, 0)
<1> DEFINE y == NewStep("reflect", Len(s) + 1, s[i].left - 1)
<1> DEFINE r == Revise(s, i)
<1>1. DOMAIN s = 1 .. Len(s) /\ Len(s) \in Nat /\ DOMAIN r = 1 .. Len(s) + 2
  BY ReviseIs
<1>3. \A k \in DOMAIN s :
         /\ c[k].kind = s[k].kind
         /\ c[k].target = s[k].target
         /\ c[k].left = s[k].left
         /\ c[k].result = IF k = i THEN "rejected" ELSE s[k].result
  <2>1. \A k \in DOMAIN s : s[k] \in StepRecord
    BY ElementOfSeq, LenProperties
  <2> QED
    BY <2>1 DEF CompleteStep, StepRecord
<1>4. /\ x.kind = "execute" /\ x.result = "none"
      /\ y.kind = "reflect" /\ y.result = "none"
      /\ y.target = Len(s) + 1 /\ y.left = s[i].left - 1
  BY DEF NewStep
<1>7. /\ \A k \in DOMAIN s : r[k] = c[k]
      /\ r[Len(s) + 1] = x
      /\ r[Len(s) + 2] = y
  BY ReviseIs
<1> HIDE DEF c, x, y, r
<1>8. SUFFICES ASSUME NEW j \in DOMAIN r, r[j].result = "rejected"
               PROVE  \E k \in DOMAIN r :
                         /\ k > j /\ k + 1 \in DOMAIN r
                         /\ r[k].kind = "execute"
                         /\ r[k + 1].kind = "reflect"
                         /\ r[k + 1].target = k
                         /\ r[k + 1].left = r[j].left - 1
  BY DEF Chained, r
<1>9. j \in DOMAIN s
  <2> SUFFICES ASSUME j \notin DOMAIN s PROVE FALSE
    OBVIOUS
  <2>1. j = Len(s) + 1 \/ j = Len(s) + 2
    BY <1>1
  <2> QED
    BY <1>4, <1>7, <1>8, <2>1
<1>10. CASE j = i
  <2>1. /\ Len(s) + 1 \in DOMAIN r /\ Len(s) + 1 > i
        /\ (Len(s) + 1) + 1 = Len(s) + 2 /\ Len(s) + 2 \in DOMAIN r
    BY <1>1
  <2>2. r[j].left = s[i].left
    BY <1>3, <1>7, <1>10
  <2> QED
    BY <1>4, <1>7, <1>10, <2>1, <2>2
<1>11. CASE j # i
  <2>1. s[j].result = "rejected" /\ r[j].left = s[j].left
    BY <1>3, <1>7, <1>8, <1>9, <1>11
  <2>2. PICK k \in DOMAIN s :
           /\ k > j /\ k + 1 \in DOMAIN s
           /\ s[k].kind = "execute"
           /\ s[k + 1].kind = "reflect"
           /\ s[k + 1].target = k
           /\ s[k + 1].left = s[j].left - 1
    BY <1>9, <2>1 DEF Chained
  <2>3. k \in DOMAIN r /\ k + 1 \in DOMAIN r
    BY <1>1, <2>2
  <2> QED
    BY <1>3, <1>7, <2>1, <2>2, <2>3
<1> QED
  BY <1>10, <1>11

ChainInv ==
    /\ TypeInv
    /\ Chained(stored.steps)
    /\ Chained(cancelling.steps)
    /\ \A e \in Executors : Chained(steps(e))

(* Executor e has left its copy, or the store, with the steps t. *)
Wrote(e, t) ==
    /\ stored'.steps \in {stored.steps, t}
    /\ copy'[e].steps \in {t, <<>>}
    /\ \A f \in Executors \ {e} : copy'[f] = copy[f]
    /\ cancelling' = cancelling

LEMMA ReturnWrote ==
    ASSUME TypeInv, NEW e \in Executors, Return(e)
    PROVE  /\ copy'[e].steps = <<>>
           /\ \A f \in Executors \ {e} : copy'[f] = copy[f]
BY DEF Return, NoMission, TypeInv, TypeOK

LEMMA MoveWrote ==
    ASSUME TypeInv, NEW e \in Executors, NEW m, copy' = [copy EXCEPT ![e] = m]
    PROVE  /\ copy'[e] = m
           /\ \A f \in Executors \ {e} : copy'[f] = copy[f]
BY DEF TypeInv, TypeOK

LEMMA WroteChained ==
    ASSUME ChainInv, TypeInv', NEW e \in Executors, NEW t,
           Wrote(e, t), Chained(t)
    PROVE  ChainInv'
<1>1. Chained(<<>>)
  BY DEF Chained
<1>2. Chained(stored'.steps) /\ Chained(cancelling'.steps)
  BY DEF ChainInv, Wrote
<1>3. \A f \in Executors : Chained(copy'[f].steps)
  <2> TAKE f \in Executors
  <2>1. CASE f = e
    BY <1>1, <2>1 DEF Wrote
  <2>2. CASE f # e
    BY <2>2 DEF Wrote, ChainInv, steps
  <2> QED
    BY <2>1, <2>2
<1> QED
  BY <1>2, <1>3 DEF ChainInv, steps

LEMMA ChainExecute ==
    ASSUME ChainInv, TypeInv', NEW e \in Executors, Execute(e)
    PROVE  ChainInv'
<1> DEFINE s == steps(e)
<1>1. /\ TypeInv
      /\ copy[e] \in MissionRecord
      /\ s \in Seq(StepRecord)
      /\ pc[e] \in {"turn", "approval"} => cur[e] \in DOMAIN s
      /\ inflight[e] \subseteq DOMAIN s
      /\ \A X : With(copy[e], X) = [status |-> copy[e].status, steps |-> X]
      /\ s = copy[e].steps
  BY WithIs DEF ChainInv, TypeInv, TypeOK, IndicesOK, steps, MissionRecord
<1>2. Chained(s) /\ Chained(stored.steps)
  BY DEF ChainInv
<1>3. \A X : With(copy[e], X).steps = X
  BY <1>1 DEF With, MissionRecord
(* The steps the executor saves, if any, are t. *)
<1>4. ASSUME NEW t, Chained(t),
             \/ Checkpoint(e, With(copy[e], t))
             \/ /\ copy' = [copy EXCEPT ![e] = With(copy[e], t)]
                /\ stored' = stored
             \/ \E st : Checkpoint(e, [status |-> st, steps |-> t])
             \/ \E st : SaveAndReturn(e, [status |-> st, steps |-> t]),
             cancelling' = cancelling
      PROVE  ChainInv'
  <2>1. CASE Checkpoint(e, With(copy[e], t))
    <3>1. stored'.steps = t /\ copy'[e].steps = t
      BY <1>1, <1>3, <2>1, MoveWrote DEF Checkpoint
    <3> QED
      BY <1>1, <1>4, <2>1, <3>1, MoveWrote, WroteChained DEF Checkpoint, Wrote
  <2>2. CASE copy' = [copy EXCEPT ![e] = With(copy[e], t)] /\ stored' = stored
    <3>1. copy'[e].steps = t
      BY <1>1, <1>3, <2>2, MoveWrote
    <3> QED
      BY <1>1, <1>4, <2>2, <3>1, MoveWrote, WroteChained DEF Wrote
  <2>3. CASE \E st : Checkpoint(e, [status |-> st, steps |-> t])
    <3>1. PICK st : Checkpoint(e, [status |-> st, steps |-> t])
      BY <2>3
    <3> DEFINE m == [status |-> st, steps |-> t]
    <3>2. m.steps = t
      OBVIOUS
    <3>3. copy' = [copy EXCEPT ![e] = m] /\ stored' = m
      BY <3>1 DEF Checkpoint
    <3> HIDE DEF m
    <3>4. Wrote(e, t)
      BY <1>1, <1>4, <3>2, <3>3, MoveWrote DEF Wrote
    <3> QED
      BY <1>4, <3>4, WroteChained
  <2>4. CASE \E st : SaveAndReturn(e, [status |-> st, steps |-> t])
    <3>1. PICK st : SaveAndReturn(e, [status |-> st, steps |-> t])
      BY <2>4
    <3> QED
      BY <1>1, <1>4, <3>1, ReturnWrote, WroteChained DEF SaveAndReturn, Wrote
  <2> QED
    BY <1>4, <2>1, <2>2, <2>3, <2>4
<1>5. ASSUME NEW t, NEW S, NEW st, NEW more, Changed(s, t, S, st, more)
      PROVE  Chained(t)
  BY <1>2, <1>5, KeptChained DEF Changed
<1>6. CASE OpenStore(e) \/ Dispatch(e) \/ PanicOnTarget(e) \/ DagDeadlock(e)
  <2>1. /\ Return(e) \/ copy' = copy
        /\ UNCHANGED <<stored, cancelling>>
    BY <1>6 DEF OpenStore, Dispatch, PanicOnTarget, DagDeadlock, store
  <2>2. Wrote(e, s)
    BY <1>1, <2>1, ReturnWrote DEF Wrote
  <2> QED
    BY <1>2, <2>2, WroteChained
<1>7. CASE Load(e)
  <2>1. CASE Return(e)
    BY <1>1, <1>2, <1>7, <2>1, ReturnWrote, WroteChained DEF Load, Wrote
  <2>2. CASE ~Return(e)
    <3>1. /\ copy' = [copy EXCEPT ![e] = [stored EXCEPT !.status = "executing"]]
          /\ UNCHANGED <<stored, cancelling>>
      BY <1>7, <2>2 DEF Load
    <3>2. [stored EXCEPT !.status = "executing"].steps = stored.steps
      BY StatusTyped DEF ChainInv, TypeInv, TypeOK, TaskStatuses
    <3>3. Wrote(e, stored.steps)
      BY <1>1, <3>1, <3>2, MoveWrote DEF Wrote
    <3> QED
      BY <1>2, <3>3, WroteChained
  <2> QED
    BY <2>1, <2>2
<1>8. CASE Begin(e) \/ SaveBatch(e)
  <2>1. stored' = copy[e] /\ UNCHANGED <<copy, cancelling>>
    BY <1>8 DEF Begin, SaveBatch, local
  <2> QED
    BY <1>1, <1>2, <2>1, WroteChained DEF Wrote
<1>9. CASE FinishSequential(e) \/ FailDag(e) \/ FinishDag(e)
  <2>1. PICK st \in {"completed", "failed"} :
           /\ SaveAndReturn(e, [copy[e] EXCEPT !.status = st])
           /\ cancelling' = cancelling
    BY <1>9 DEF FinishSequential, FailDag, FinishDag
  <2>2. [copy[e] EXCEPT !.status = st].steps = s
    BY <1>1, StatusTyped DEF TaskStatuses
  <2>3. Wrote(e, s)
    BY <1>1, <2>1, <2>2, ReturnWrote DEF SaveAndReturn, Wrote
  <2> QED
    BY <1>2, <2>3, WroteChained
<1>10. CASE StartStep(e)
  <2>1. PICK i : Checkpoint(e, With(copy[e], Mark(s, {i}, "running")))
    BY <1>10 DEF StartStep
  <2>2. Chained(Mark(s, {i}, "running"))
    BY <1>1, <1>5, MarkChanged DEF StepStatuses
  <2>3. cancelling' = cancelling
    BY <1>10 DEF StartStep
  <2> QED
    BY <1>4, <2>1, <2>2, <2>3
<1>11. CASE ResolveApproval(e)
  <2>1. Chained(CompleteStep(s, cur[e], "approved"))
    BY <1>1, <1>5, <1>11, CompleteChanged DEF ResolveApproval
  <2>2. Chained(Mark(s, {cur[e]}, "failed"))
    BY <1>1, <1>5, MarkChanged DEF StepStatuses
  <2> QED
    BY <1>4, <1>11, <2>1, <2>2 DEF ResolveApproval
<1>12. CASE TurnCompletes(e)
  <2>1. Chained(CompleteStep(s, cur[e], "text"))
    BY <1>1, <1>5, <1>12, CompleteChanged DEF TurnCompletes
  <2> QED
    BY <1>4, <1>12, <2>1 DEF TurnCompletes
<1>13. CASE TurnRejects(e)
  <2>1. cur[e] \in DOMAIN s /\ s[cur[e]].left > 0
    BY <1>1, <1>13 DEF TurnRejects, MayRevise
  <2>2. Chained(Revise(s, cur[e]))
    BY <1>1, <1>2, <2>1, ReviseChained
  <2> QED
    BY <1>4, <1>13, <2>2 DEF TurnRejects
<1>14. CASE TurnFails(e)
  <2>1. Chained(FailStep(s, cur[e])) /\ Chained(RetryStep(s, cur[e]))
    BY <1>1, <1>5, <1>14, FailChanged, RetryChanged DEF TurnFails
  <2> QED
    BY <1>4, <1>14, <2>1 DEF TurnFails
<1>15. CASE StartBatch(e)
  <2>1. Chained(Mark(s, Ready(s), "running"))
    BY <1>1, <1>5, MarkChanged DEF StepStatuses
  <2> QED
    BY <1>4, <1>15, <2>1 DEF StartBatch
<1>16. ASSUME NEW i \in inflight[e], JoinOk(e, i) \/ JoinErr(e, i)
       PROVE  ChainInv'
  <2> DEFINE f == FailStep(s, i)
  <2>1. /\ i \in DOMAIN s
        /\ Chained(CompleteStep(s, i, "text"))
        /\ Chained(RetryStep(s, i))
        /\ Chained(f)
    BY <1>1, <1>5, CompleteChanged, RetryChanged, FailChanged
  <2>2. Chained(SkipDownstream(f, i))
    <3>1. f \in Seq(StepRecord)
      BY <1>1, <2>1, FailShape DEF SameShape
    <3> HIDE DEF f
    <3> DEFINE S == {j \in Downstream(f, i) \ {i} :
                        f[j].status \in {"pending", "running"}}
    <3>2. Changed(f, Mark(f, S, "skipped"), S, "skipped", 0)
      BY <3>1, MarkChanged DEF StepStatuses
    <3> QED
      BY <2>1, <3>2, KeptChained DEF SkipDownstream, Changed
  <2>3. UNCHANGED <<stored, cancelling>>
    BY <1>16 DEF JoinOk, JoinErr, store
  <2>4. CASE JoinOk(e, i)
    BY <1>4, <2>1, <2>3, <2>4 DEF JoinOk
  <2>5. CASE JoinErr(e, i)
    BY <1>4, <2>1, <2>2, <2>3, <2>5 DEF JoinErr
  <2> QED
    BY <1>16, <2>4, <2>5
<1> QED
  BY <1>6, <1>7, <1>8, <1>9, <1>10, <1>11, <1>12, <1>13, <1>14, <1>15, <1>16
  DEF Execute

LEMMA ChainNext ==
    ASSUME ChainInv, [Next]_vars
    PROVE  ChainInv'
<1>1. TypeInv /\ TypeInv'
  BY TypeNext DEF ChainInv
<1>2. Chained(stored.steps) /\ Chained(cancelling.steps)
  BY DEF ChainInv
<1>3. Chained(NoMission.steps)
  BY DEF Chained, NoMission
<1>4. ASSUME copy' = copy, Chained(stored'.steps), Chained(cancelling'.steps)
      PROVE  ChainInv'
  BY <1>1, <1>4 DEF ChainInv, steps
<1>5. ASSUME NEW e \in Executors, NEW c \in Creators, Create(e, c)
      PROVE  ChainInv'
  <2>1. PICK plan \in Plans : stored' = [status |-> "planned", steps |-> plan]
    BY <1>5 DEF Create
  <2>2. \A i \in DOMAIN plan : plan[i].result # "rejected"
    BY PlansAssumption DEF IsPlan
  <2>3. Chained(stored'.steps)
    BY <2>1, <2>2 DEF Chained
  <2> QED
    BY <1>2, <1>4, <1>5, <2>3 DEF Create
<1>6. ASSUME NEW e \in Executors, NEW c \in Resumers, Resume(e, c)
      PROVE  ChainInv'
  BY <1>2, <1>4, <1>6 DEF Resume
<1>7. ASSUME NEW e \in Executors, Execute(e)
      PROVE  ChainInv'
  BY <1>1, <1>7, ChainExecute
<1>8. ASSUME NEW e \in Executors, Abort(e)
      PROVE  ChainInv'
  <2>1. Wrote(e, <<>>)
    BY <1>1, <1>8, ReturnWrote DEF Abort, Wrote, store
  <2>2. Chained(<<>>)
    BY DEF Chained
  <2> QED
    BY <1>1, <2>1, <2>2, WroteChained
<1>9. CASE CancelLoad
  <2> DEFINE S == {i \in DOMAIN stored.steps :
                      stored.steps[i].status \in {"pending", "running"}}
  <2>1. stored.steps \in Seq(StepRecord)
    BY <1>1 DEF TypeInv, TypeOK, MissionRecord
  <2>2. Changed(stored.steps, Mark(stored.steps, S, "skipped"), S, "skipped", 0)
    BY <2>1, MarkChanged DEF StepStatuses
  <2>3. Chained(CancelSteps(stored.steps))
    BY <1>2, <2>2, KeptChained DEF CancelSteps, Changed
  <2> QED
    BY <1>2, <1>4, <1>9, <2>3 DEF CancelLoad, store, local
<1>10. CASE CancelSave
  BY <1>2, <1>3, <1>4, <1>10 DEF CancelSave, local
<1>11. CASE Delete
  BY <1>2, <1>3, <1>4, <1>11 DEF Delete, local
<1>12. CASE Crash
  <2>1. \A f \in Executors : copy'[f] = NoMission
    BY <1>12 DEF Crash
  <2> QED
    BY <1>1, <1>2, <1>3, <1>12, <2>1 DEF Crash, ChainInv, steps
<1>13. CASE Restart \/ Answer \/ UNCHANGED vars
  BY <1>2, <1>4, <1>13 DEF Restart, Answer, local, vars
<1> QED
  BY <1>5, <1>6, <1>7, <1>8, <1>9, <1>10, <1>11, <1>12, <1>13 DEF Next

(* However executors, cancels, deletes, crashes and resumes interleave, a  *)
(* review that rejected its target keeps the retry and the review of the   *)
(* retry appended for it, in the store and in every copy.                  *)
THEOREM RevisionsKept == Spec => []RevisionChain
<1>1. Init => ChainInv
  BY TypeInit DEF Init, ChainInv, Chained, NoMission, steps
<1>2. ChainInv /\ [Next]_vars => ChainInv'
  BY ChainNext
<1>3. ChainInv => RevisionChain
  BY DEF ChainInv, Chained, RevisionChain, Records, steps
<1> QED
  BY <1>1, <1>2, <1>3, PTL DEF Spec

-----------------------------------------------------------------------------
(* The attempts of a step.  FailureJustified is not inductive: an executor *)
(* that starts a used-up step would leave it running.  A sequential mission*)
(* has none while it may still be executed, since a used-up step ends the  *)
(* mission and an ended mission is not loaded, and a DAG starts only what  *)
(* is Pending.                                                             *)

StepJustified(step) ==
    /\ step.retries <= MaxRetries + 1
    /\ step.retries = MaxRetries + 1 => step.status = "failed"
    /\ step.status = "failed" =>
          step.retries = MaxRetries + 1 \/ step.kind = "gate"

StepsJustified(s) == \A i \in DOMAIN s : StepJustified(s[i])

AttemptsLeft(s) == ~IsDag(s) => \A i \in DOMAIN s : s[i].retries <= MaxRetries

HasGate(s) == \E i \in DOMAIN s : s[i].kind = "gate"

Sound(m) ==
    /\ StepsJustified(m.steps)
    /\ m.status = "failed" => AnyFailed(m.steps) \/ HasGate(m.steps)
    /\ ~IsTerminal(m.status) => AttemptsLeft(m.steps)

(* A refused gate leaves the copy Failed, and its executor going on. *)
CopySound(m) ==
    /\ StepsJustified(m.steps)
    /\ AttemptsLeft(m.steps)
    /\ m.status = "failed" => HasGate(m.steps)

ExecutorSound(e) ==
    /\ CopySound(copy[e])
    /\ pc[e] = "approval" => steps(e)[cur[e]].kind \in {"gate", "autogate"}
    /\ pc[e] = "dagfail" => AnyFailed(steps(e))

SoundInv ==
    /\ OrderInv
    /\ Sound(stored)
    /\ Sound(cancelling)
    /\ \A e \in Executors : ExecutorSound(e)

LEMMA KeptMode ==
    ASSUME NEW s, NEW t, Kept(s, t), DOMAIN t = DOMAIN s
    PROVE  /\ HasGate(s) => HasGate(t)
           /\ IsDag(t) <=> IsDag(s)
<1>1. HasGate(s) => HasGate(t)
  BY DEF HasGate, Kept
<1>2. IsDag(t) <=> IsDag(s)
  BY DEF IsDag, Kept
<1> QED
  BY <1>1, <1>2

(* Only a Failed step has used up its attempts. *)
LEMMA UnfailedLeft ==
    ASSUME NEW s \in Seq(StepRecord), StepsJustified(s), NEW i \in DOMAIN s,
           s[i].status # "failed"
    PROVE  s[i].retries + 0 <= MaxRetries /\ s[i].retries <= MaxRetries
<1>1. s[i].retries \in Nat
  <2>1. s[i] \in StepRecord
    BY ElementOfSeq, LenProperties
  <2> QED
    BY <2>1 DEF StepRecord
<1>2. StepJustified(s[i])
  BY DEF StepsJustified
<1> QED
  BY <1>1, <1>2, RetriesAssumption DEF StepJustified

(* Steps that still have attempts may be started, completed, skipped or    *)
(* tried again.                                                            *)
LEMMA ChangedSound ==
    ASSUME NEW s \in Seq(StepRecord), NEW t, NEW S, NEW st, NEW more \in {0, 1},
           Changed(s, t, S, st, more), StepsJustified(s), st # "failed",
           \A i \in DOMAIN s : i \in S => s[i].retries + more <= MaxRetries
    PROVE  /\ StepsJustified(t)
           /\ AttemptsLeft(s) => AttemptsLeft(t)
           /\ HasGate(s) => HasGate(t)
           /\ IsDag(t) <=> IsDag(s)
<1>1. \A i \in DOMAIN s : s[i].retries \in Nat
  <2>1. \A i \in DOMAIN s : s[i] \in StepRecord
    BY ElementOfSeq, LenProperties
  <2> QED
    BY <2>1 DEF StepRecord
<1>2. /\ HasGate(s) => HasGate(t)
      /\ IsDag(t) <=> IsDag(s)
  BY KeptMode DEF Changed
<1>3. ASSUME NEW i \in DOMAIN t PROVE StepJustified(t[i])
  <2>1. StepJustified(s[i]) /\ t[i].kind = s[i].kind /\ i \in DOMAIN s
    BY <1>3 DEF StepsJustified, Changed, Kept
  <2>2. CASE i \in S
    BY <1>1, <2>1, <2>2, RetriesAssumption DEF StepJustified, Changed
  <2>3. CASE i \notin S
    BY <2>1, <2>3 DEF StepJustified, Changed
  <2> QED
    BY <2>2, <2>3
<1>4. AttemptsLeft(s) => AttemptsLeft(t)
  BY <1>1, <1>2, RetriesAssumption DEF AttemptsLeft, Changed
<1> QED
  BY <1>2, <1>3, <1>4 DEF StepsJustified

(* A step that has used up its attempts, or a refused gate, is Failed. *)
LEMMA FailedSound ==
    ASSUME NEW s \in Seq(StepRecord), NEW t, NEW i \in DOMAIN s,
           NEW more \in {0, 1},
           Changed(s, t, {i}, "failed", more), StepsJustified(s),
           \/ s[i].retries + more = MaxRetries + 1
           \/ s[i].kind = "gate" /\ more = 0 /\ s[i].retries <= MaxRetries
    PROVE  /\ StepsJustified(t)
           /\ AnyFailed(t)
           /\ HasGate(s) => HasGate(t)
           /\ IsDag(t) <=> IsDag(s)
           /\ more = 0 /\ AttemptsLeft(s) => AttemptsLeft(t)
<1>1. \A k \in DOMAIN s : s[k].retries \in Nat
  <2>1. \A k \in DOMAIN s : s[k] \in StepRecord
    BY ElementOfSeq, LenProperties
  <2> QED
    BY <2>1 DEF StepRecord
<1>2. /\ HasGate(s) => HasGate(t)
      /\ IsDag(t) <=> IsDag(s)
  BY KeptMode DEF Changed
<1>3. ASSUME NEW k \in DOMAIN t PROVE StepJustified(t[k])
  <2>1. StepJustified(s[k]) /\ t[k].kind = s[k].kind /\ k \in DOMAIN s
    BY <1>3 DEF StepsJustified, Changed, Kept
  <2>2. CASE k = i
    BY <1>1, <2>1, <2>2, RetriesAssumption DEF StepJustified, Changed
  <2>3. CASE k # i
    BY <2>1, <2>3 DEF StepJustified, Changed
  <2> QED
    BY <2>2, <2>3
<1>4. AnyFailed(t)
  BY DEF AnyFailed, Changed
<1>5. more = 0 /\ AttemptsLeft(s) => AttemptsLeft(t)
  BY <1>1, <1>2, RetriesAssumption DEF AttemptsLeft, Changed
<1> QED
  BY <1>2, <1>3, <1>4, <1>5 DEF StepsJustified

LEMMA SkipSound ==
    ASSUME NEW s \in Seq(StepRecord), NEW S, StepsJustified(s),
           \A k \in DOMAIN s : k \in S => s[k].status \in {"pending", "running"}
    PROVE  /\ StepsJustified(Mark(s, S, "skipped"))
           /\ HasGate(s) => HasGate(Mark(s, S, "skipped"))
           /\ IsDag(Mark(s, S, "skipped")) <=> IsDag(s)
<1>1. Changed(s, Mark(s, S, "skipped"), S, "skipped", 0)
  BY MarkChanged DEF StepStatuses
<1>2. \A k \in DOMAIN s : k \in S => s[k].retries + 0 <= MaxRetries
  BY UnfailedLeft
<1> QED
  BY <1>1, <1>2, ChangedSound

LEMMA ReviseSound ==
    ASSUME NEW s \in Seq(StepRecord), NEW i \in DOMAIN s, s[i].left > 0,
           s[i].status = "running", StepsJustified(s), AttemptsLeft(s)
    PROVE  /\ StepsJustified(Revise(s, i))
           /\ AttemptsLeft(Revise(s, i))
           /\ HasGate(s) => HasGate(Revise(s, i))
<1> DEFINE c == CompleteStep(s, i, "rejected")
<1> DEFINE x == NewStep("execute", 0, 0)
<1> DEFINE y == NewStep("reflect", Len(s) + 1, s[i].left - 1)
<1> DEFINE r == Revise(s, i)
<1>1. DOMAIN s = 1 .. Len(s) /\ Len(s) \in Nat /\ DOMAIN r = 1 .. Len(s) + 2
  BY ReviseIs
<1>3. \A k \in DOMAIN s :
         /\ c[k].kind = s[k].kind
         /\ c[k].deps = s[k].deps
         /\ c[k].retries = s[k].retries
         /\ c[k].status = IF k = i THEN "completed" ELSE s[k].status
  <2>1. \A k \in DOMAIN s : s[k] \in StepRecord
    BY ElementOfSeq, LenProperties
  <2> QED
    BY <2>1 DEF CompleteStep, StepRecord
<1>4. \A z \in {x, y} : z.status = "pending" /\ z.retries = 0 /\ z.deps = {}
  BY DEF NewStep
<1>5. /\ \A k \in DOMAIN s : r[k] = c[k]
      /\ r[Len(s) + 1] = x
      /\ r[Len(s) + 2] = y
  BY ReviseIs
<1> HIDE DEF c, x, y, r
<1>6. /\ \A k \in DOMAIN s : r[k] = c[k]
      /\ \A k \in DOMAIN r \ DOMAIN s : r[k] \in {x, y}
  <2>1. \A k \in DOMAIN r \ DOMAIN s : k = Len(s) + 1 \/ k = Len(s) + 2
    BY <1>1
  <2> QED
    BY <1>5, <2>1
<1>7. DOMAIN s \subseteq DOMAIN r
  BY <1>1
<1>8. s[i].retries <= MaxRetries /\ \A k \in DOMAIN s : s[k].retries \in Nat
  <2>1. \A k \in DOMAIN s : s[k] \in StepRecord
    BY ElementOfSeq, LenProperties
  <2> QED
    BY <2>1, UnfailedLeft DEF StepRecord
<1>9. ASSUME NEW k \in DOMAIN r PROVE StepJustified(r[k])
  <2>1. CASE k \notin DOMAIN s
    <3>1. r[k].status = "pending" /\ r[k].retries = 0
      BY <1>4, <1>6, <1>9, <2>1
    <3> QED
      BY <3>1, RetriesAssumption DEF StepJustified
  <2>2. CASE k = i
    <3>1. r[k].status = "completed" /\ r[k].retries <= MaxRetries
          /\ r[k].retries \in Nat
      BY <1>3, <1>6, <1>8, <2>2
    <3> QED
      BY <3>1, RetriesAssumption DEF StepJustified
  <2>3. CASE k \in DOMAIN s \ {i}
    BY <1>3, <1>6, <2>3 DEF StepsJustified, StepJustified
  <2> QED
    BY <2>1, <2>2, <2>3
<1>10. IsDag(s) => IsDag(r)
  BY <1>3, <1>6, <1>7 DEF IsDag
<1>11. AttemptsLeft(r)
  <2> SUFFICES ASSUME ~IsDag(r), NEW k \in DOMAIN r
               PROVE  r[k].retries <= MaxRetries
    BY DEF AttemptsLeft
  <2>1. CASE k \in DOMAIN s
    BY <1>3, <1>6, <1>10, <2>1 DEF AttemptsLeft
  <2>2. CASE k \notin DOMAIN s
    BY <1>4, <1>6, <2>2, RetriesAssumption
  <2> QED
    BY <2>1, <2>2
<1>12. HasGate(s) => HasGate(r)
  BY <1>3, <1>6, <1>7 DEF HasGate
<1> QED
  BY <1>9, <1>11, <1>12 DEF StepsJustified, r

LEMMA NoMissionSound == CopySound(NoMission) /\ Sound(NoMission)
<1>1. DOMAIN NoMission.steps = {} /\ NoMission.status = "none"
  BY DEF NoMission
<1> QED
  BY <1>1 DEF CopySound, Sound, StepsJustified, AttemptsLeft, IsTerminal

LEMMA CopyIsSound ==
    ASSUME NEW m, CopySound(m)
    PROVE  Sound(m)
BY DEF CopySound, Sound

LEMMA SoundFrame ==
    ASSUME SoundInv, OrderInv', NEW e \in Executors,
           \A f \in Executors \ {e} :
              pc'[f] = pc[f] /\ copy'[f] = copy[f] /\ cur'[f] = cur[f],
           Sound(stored'), Sound(cancelling'), ExecutorSound(e)'
    PROVE  SoundInv'
<1>1. ASSUME NEW f \in Executors PROVE ExecutorSound(f)'
  <2>1. CASE f = e
    BY <2>1
  <2>2. CASE f # e
    <3>1. ExecutorSound(f)
      BY DEF SoundInv
    <3> QED
      BY <2>2, <3>1 DEF ExecutorSound, steps
  <2> QED
    BY <2>1, <2>2
<1> QED
  BY <1>1 DEF SoundInv

LEMMA SoundReturn ==
    ASSUME SoundInv, OrderInv', NEW e \in Executors, Return(e),
           Sound(stored'), cancelling' = cancelling
    PROVE  SoundInv'
<1>1. TypeOK /\ Sound(cancelling')
  BY DEF SoundInv, OrderInv, TypeInv
<1>2. pc'[e] = "idle" /\ copy'[e] = NoMission
  BY <1>1 DEF Return, Goto, TypeOK
<1>3. ExecutorSound(e)'
  BY <1>2, NoMissionSound DEF ExecutorSound
<1>4. \A f \in Executors \ {e} :
         pc'[f] = pc[f] /\ copy'[f] = copy[f] /\ cur'[f] = cur[f]
  BY <1>1 DEF Return, Goto, TypeOK
<1> QED
  BY <1>1, <1>3, <1>4, SoundFrame

LEMMA SoundMove ==
    ASSUME SoundInv, OrderInv', NEW e \in Executors, NEW m, NEW l, NEW k,
           pc' = [pc EXCEPT ![e] = l],
           copy' = [copy EXCEPT ![e] = m],
           cur' = [cur EXCEPT ![e] = k],
           cancelling' = cancelling,
           stored' = stored \/ stored' = m,
           CopySound(m),
           l = "approval" => m.steps[k].kind \in {"gate", "autogate"},
           l = "dagfail" => AnyFailed(m.steps)
    PROVE  SoundInv'
<1>1. TypeOK /\ Sound(cancelling') /\ Sound(stored)
  BY DEF SoundInv, OrderInv, TypeInv
<1>2. pc'[e] = l /\ copy'[e] = m /\ cur'[e] = k
  BY <1>1 DEF TypeOK
<1>3. ExecutorSound(e)'
  BY <1>2 DEF ExecutorSound, steps
<1>4. \A f \in Executors \ {e} :
         pc'[f] = pc[f] /\ copy'[f] = copy[f] /\ cur'[f] = cur[f]
  BY <1>1 DEF TypeOK
<1>5. Sound(stored')
  BY <1>1, CopyIsSound
<1> QED
  BY <1>1, <1>3, <1>4, <1>5, SoundFrame

LEMMA SoundExecute ==
    ASSUME StreamsOnlySequential, SoundInv, OrderInv',
           NEW e \in Executors, Execute(e)
    PROVE  SoundInv'
<1> DEFINE s == steps(e)
<1>1. /\ copy[e] \in MissionRecord
      /\ stored \in MissionRecord
      /\ s \in Seq(StepRecord)
      /\ pc[e] \in {"turn", "approval"} => cur[e] \in DOMAIN s
      /\ inflight[e] \subseteq DOMAIN s
      /\ s = copy[e].steps
  BY DEF SoundInv, OrderInv, TypeInv, TypeOK, IndicesOK, steps, MissionRecord
<1>2. /\ pc[e] \in {"seq", "turn", "approval"} => ~IsDag(s)
      /\ pc[e] \in {"turn", "approval"} => s[cur[e]].status = "running"
      /\ pc[e] \in {"dag", "join", "dagfail"} => IsDag(s)
      /\ \A i \in inflight[e] : s[i].status \in {"running", "skipped"}
  BY DEF SoundInv, OrderInv, ExecutorOK
<1>d. inflight[e] # {} => pc[e] = "join"
  BY DEF SoundInv, OrderInv, TypeInv, IndicesOK
<1>3. ExecutorSound(e) /\ CopySound(copy[e]) /\ Sound(stored)
  BY DEF SoundInv, ExecutorSound
<1>4. /\ StepsJustified(s) /\ AttemptsLeft(s)
      /\ copy[e].status = "failed" => HasGate(s)
  BY <1>1, <1>3 DEF CopySound
<1>k. /\ [cur EXCEPT ![e] = cur[e]] = cur
      /\ [copy EXCEPT ![e] = copy[e]] = copy
      /\ [pc EXCEPT ![e] = pc[e]] = pc
  BY DEF SoundInv, OrderInv, TypeInv, TypeOK
<1>w. \A X : /\ With(copy[e], X).steps = X
             /\ With(copy[e], X).status = copy[e].status
  BY <1>1 DEF With, MissionRecord
(* A sequential executor goes on from a sound copy. *)
<1>5. ASSUME NEW t, StepsJustified(t), AttemptsLeft(t), HasGate(s) => HasGate(t)
      PROVE  CopySound(With(copy[e], t))
  BY <1>4, <1>5, <1>w DEF CopySound
<1>u. \A i \in DOMAIN s : s[i].status # "failed" =>
         s[i].retries + 0 <= MaxRetries /\ s[i].retries <= MaxRetries
  BY <1>1, <1>4, UnfailedLeft
<1>n. \A i \in DOMAIN s : s[i].retries \in Nat
  <2>1. \A i \in DOMAIN s : s[i] \in StepRecord
    BY <1>1, ElementOfSeq, LenProperties
  <2> QED
    BY <2>1 DEF StepRecord
<1>x. ASSUME NEW i \in DOMAIN s, s[i].retries <= MaxRetries
      PROVE  /\ Exhausted(s[i]) => s[i].retries + 1 = MaxRetries + 1
             /\ ~Exhausted(s[i]) => s[i].retries + 1 <= MaxRetries
  BY <1>n, <1>x, RetriesAssumption DEF Exhausted
<1>6. CASE OpenStore(e)
  <2>1. stored' = stored /\ cancelling' = cancelling
    BY <1>6 DEF OpenStore, store
  <2>2. CASE Return(e)
    BY <1>3, <2>1, <2>2, SoundReturn
  <2>3. CASE ~Return(e)
    <3>1. pc' = [pc EXCEPT ![e] = "load"] /\ UNCHANGED <<copy, cur>>
      BY <1>6, <2>3 DEF OpenStore, Goto
    <3> QED
      BY <1>3, <1>k, <2>1, <3>1, SoundMove
  <2> QED
    BY <2>2, <2>3
<1>7. CASE Load(e)
  <2>1. stored' = stored /\ cancelling' = cancelling
    BY <1>7 DEF Load
  <2>2. CASE stored = NoMission \/ IsTerminal(stored.status)
    BY <1>3, <1>7, <2>1, <2>2, SoundReturn DEF Load
  <2>3. CASE ~(stored = NoMission \/ IsTerminal(stored.status))
    <3> DEFINE m == [stored EXCEPT !.status = "executing"]
    <3>1. m.status = "executing" /\ m.steps = stored.steps
      BY <1>1, StatusTyped DEF TaskStatuses
    <3>2. CopySound(m)
      BY <1>3, <2>3, <3>1 DEF Sound, CopySound
    <3>3. /\ pc' = [pc EXCEPT ![e] = "begin"]
          /\ copy' = [copy EXCEPT ![e] = m]
          /\ cur' = cur
      BY <1>7, <2>3 DEF Load, Goto
    <3> HIDE DEF m
    <3> QED
      BY <1>k, <2>1, <3>2, <3>3, SoundMove
  <2> QED
    BY <2>2, <2>3
<1>8. CASE Begin(e)
  <2>1. /\ pc' = [pc EXCEPT ![e] = "dispatch"]
        /\ stored' = copy[e]
        /\ UNCHANGED <<copy, cur, cancelling>>
    BY <1>8 DEF Begin, Goto, local
  <2> QED
    BY <1>3, <1>k, <2>1, SoundMove
<1>9. CASE Dispatch(e)
  <2>1. stored' = stored /\ cancelling' = cancelling
    BY <1>9 DEF Dispatch, store
  <2>2. CASE Return(e)
    BY <1>3, <2>1, <2>2, SoundReturn
  <2>3. CASE ~Return(e)
    <3>1. PICK l \in {"seq", "dag"} :
             pc' = [pc EXCEPT ![e] = l] /\ UNCHANGED <<copy, cur>>
      BY <1>9, <2>3 DEF Dispatch, Goto
    <3> QED
      BY <1>3, <1>k, <2>1, <3>1, SoundMove
  <2> QED
    BY <2>2, <2>3
<1>10. CASE StartStep(e)
  <2>1. PICK i \in DOMAIN s :
           /\ Checkpoint(e, With(copy[e], Mark(s, {i}, "running")))
           /\ cur' = [cur EXCEPT ![e] = i]
           /\ Goto(e, IF IsApproval(e, i) THEN "approval" ELSE "turn")
    BY <1>10 DEF StartStep, Unfinished
  <2> DEFINE t == Mark(s, {i}, "running")
  <2> DEFINE m == With(copy[e], t)
  <2> DEFINE l == IF IsApproval(e, i) THEN "approval" ELSE "turn"
  <2>2. Changed(s, t, {i}, "running", 0)
    BY <1>1, MarkChanged DEF StepStatuses
  <2>3. \A k \in DOMAIN s : k \in {i} => s[k].retries + 0 <= MaxRetries
    BY <1>2, <1>4, <1>10, <1>n DEF StartStep, AttemptsLeft
  <2>4. l = "approval" => t[i].kind \in {"gate", "autogate"}
    BY <2>2 DEF IsApproval, Changed, Kept
  <2> HIDE DEF t
  <2>5. CopySound(m)
    BY <1>1, <1>4, <1>5, <2>2, <2>3, ChangedSound
  <2>6. m.steps = t
    BY <1>w
  <2>7. /\ copy' = [copy EXCEPT ![e] = m] /\ stored' = m
        /\ cancelling' = cancelling
        /\ pc' = [pc EXCEPT ![e] = l]
    BY <1>10, <2>1 DEF StartStep, Checkpoint, Goto, t
  <2>8. l # "dagfail"
    OBVIOUS
  <2> HIDE DEF m, l
  <2> QED
    BY <2>1, <2>4, <2>5, <2>6, <2>7, <2>8, SoundMove
<1>11. CASE PanicOnTarget(e) \/ DagDeadlock(e)
  BY <1>3, <1>11, SoundReturn DEF PanicOnTarget, DagDeadlock, store
(* What a sequential executor saves after its turn. *)
<1>12. ASSUME NEW m, CopySound(m), Checkpoint(e, m), Goto(e, "seq"),
              cur' = cur, cancelling' = cancelling
       PROVE  SoundInv'
  BY <1>12, <1>k, SoundMove DEF Checkpoint, Goto
<1>13. CASE ResolveApproval(e)
  <2>1. /\ cur[e] \in DOMAIN s
        /\ s[cur[e]].status = "running"
        /\ s[cur[e]].kind \in {"gate", "autogate"}
        /\ s[cur[e]].retries + 0 <= MaxRetries
        /\ s[cur[e]].retries <= MaxRetries
    BY <1>1, <1>2, <1>3, <1>13, <1>u DEF ResolveApproval, ExecutorSound
  <2>2. CASE Approved(e)
    <3> DEFINE t == CompleteStep(s, cur[e], "approved")
    <3>1. Changed(s, t, {cur[e]}, "completed", 0)
      BY <1>1, <2>1, CompleteChanged
    <3>2. Checkpoint(e, With(copy[e], t))
      BY <1>13, <2>2 DEF ResolveApproval
    <3> HIDE DEF t
    <3>3. StepsJustified(t) /\ AttemptsLeft(t) /\ (HasGate(s) => HasGate(t))
      BY <1>1, <1>4, <2>1, <3>1, ChangedSound
    <3>4. CopySound(With(copy[e], t))
      BY <1>5, <3>3
    <3> QED
      BY <1>12, <1>13, <3>2, <3>4 DEF ResolveApproval
  <2>3. CASE ~Approved(e)
    <3> DEFINE t == Mark(s, {cur[e]}, "failed")
    <3>1. Changed(s, t, {cur[e]}, "failed", 0)
      BY <1>1, MarkChanged DEF StepStatuses
    <3>2. s[cur[e]].kind = "gate" /\ HasGate(s)
      BY <2>1, <2>3 DEF Approved, HasGate
    <3>3. Checkpoint(e, [status |-> "failed", steps |-> t])
      BY <1>13, <2>3 DEF ResolveApproval
    <3> HIDE DEF t
    <3>4. StepsJustified(t) /\ AttemptsLeft(t) /\ HasGate(t)
      BY <1>1, <1>4, <2>1, <3>1, <3>2, FailedSound
    <3> DEFINE m == [status |-> "failed", steps |-> t]
    <3>5. CopySound(m)
      BY <3>4 DEF CopySound
    <3> HIDE DEF m
    <3>6. Checkpoint(e, m)
      BY <3>3 DEF m
    <3> QED
      BY <1>12, <1>13, <3>5, <3>6 DEF ResolveApproval
  <2> QED
    BY <2>2, <2>3
<1>14. CASE TurnCompletes(e)
  <2> DEFINE t == CompleteStep(s, cur[e], "text")
  <2>1. /\ cur[e] \in DOMAIN s
        /\ s[cur[e]].retries + 0 <= MaxRetries
    BY <1>1, <1>2, <1>14, <1>u DEF TurnCompletes
  <2>2. Changed(s, t, {cur[e]}, "completed", 0)
    BY <1>1, <2>1, CompleteChanged
  <2>3. Checkpoint(e, With(copy[e], t))
    BY <1>14 DEF TurnCompletes
  <2> HIDE DEF t
  <2>4. StepsJustified(t) /\ AttemptsLeft(t) /\ (HasGate(s) => HasGate(t))
    BY <1>1, <1>4, <2>1, <2>2, ChangedSound
  <2>5. CopySound(With(copy[e], t))
    BY <1>5, <2>4
  <2> QED
    BY <1>12, <1>14, <2>3, <2>5 DEF TurnCompletes
<1>15. CASE TurnRejects(e)
  <2> DEFINE t == Revise(s, cur[e])
  <2>1. /\ cur[e] \in DOMAIN s
        /\ s[cur[e]].status = "running"
        /\ s[cur[e]].left > 0
    BY <1>1, <1>2, <1>15 DEF TurnRejects, MayRevise
  <2>2. StepsJustified(t) /\ AttemptsLeft(t) /\ (HasGate(s) => HasGate(t))
    BY <1>1, <1>4, <2>1, ReviseSound
  <2>3. Checkpoint(e, With(copy[e], t))
    BY <1>15 DEF TurnRejects
  <2> HIDE DEF t
  <2>4. CopySound(With(copy[e], t))
    BY <1>5, <2>2
  <2> QED
    BY <1>12, <1>15, <2>3, <2>4 DEF TurnRejects
<1>16. CASE TurnFails(e)
  <2>1. /\ cur[e] \in DOMAIN s
        /\ s[cur[e]].retries <= MaxRetries
        /\ cancelling' = cancelling
    BY <1>1, <1>2, <1>16, <1>u DEF TurnFails
  <2>2. CASE Exhausted(s[cur[e]])
    <3> DEFINE t == FailStep(s, cur[e])
    <3> DEFINE m == [status |-> "failed", steps |-> t]
    <3>1. Changed(s, t, {cur[e]}, "failed", 1)
      BY <1>1, <2>1, FailChanged
    <3>2. SaveAndReturn(e, m)
      BY <1>16, <2>2 DEF TurnFails
    <3> HIDE DEF t
    <3>3. StepsJustified(t) /\ AnyFailed(t)
      BY <1>1, <1>4, <1>x, <2>1, <2>2, <3>1, FailedSound
    <3>4. Sound(m)
      BY <3>3 DEF Sound, IsTerminal
    <3> HIDE DEF m
    <3> QED
      BY <2>1, <3>2, <3>4, SoundReturn DEF SaveAndReturn
  <2>3. CASE ~Exhausted(s[cur[e]])
    <3> DEFINE t == RetryStep(s, cur[e])
    <3>1. Changed(s, t, {cur[e]}, "pending", 1)
      BY <1>1, <2>1, RetryChanged
    <3>2. /\ Checkpoint(e, With(copy[e], t))
          /\ Goto(e, "seq") /\ cur' = cur
      BY <1>16, <2>3 DEF TurnFails
    <3> HIDE DEF t
    <3>3. \A k \in DOMAIN s : k \in {cur[e]} => s[k].retries + 1 <= MaxRetries
      BY <1>x, <2>1, <2>3
    <3>4. StepsJustified(t) /\ AttemptsLeft(t) /\ (HasGate(s) => HasGate(t))
      BY <1>1, <1>4, <3>1, <3>3, ChangedSound
    <3>5. CopySound(With(copy[e], t))
      BY <1>5, <3>4
    <3> QED
      BY <1>12, <2>1, <3>2, <3>5
  <2> QED
    BY <2>2, <2>3
<1>17. CASE FinishSequential(e) \/ FinishDag(e) \/ FailDag(e)
  <2>1. PICK st \in {"completed", "failed"} :
           /\ SaveAndReturn(e, [copy[e] EXCEPT !.status = st])
           /\ st = "failed" => AnyFailed(s)
           /\ cancelling' = cancelling
    BY <1>3, <1>17 DEF FinishSequential, FinishDag, FailDag, ExecutorSound
  <2> DEFINE m == [copy[e] EXCEPT !.status = st]
  <2>2. m.status = st /\ m.steps = s
    BY <1>1, StatusTyped DEF TaskStatuses
  <2>3. Sound(m)
    BY <1>4, <2>1, <2>2 DEF Sound, IsTerminal
  <2>4. SaveAndReturn(e, m)
    BY <2>1
  <2> HIDE DEF m
  <2> QED
    BY <2>1, <2>3, <2>4, SoundReturn DEF SaveAndReturn
<1>18. CASE StartBatch(e)
  <2> DEFINE S == Ready(s)
  <2> DEFINE t == Mark(s, S, "running")
  <2> DEFINE m == With(copy[e], t)
  <2>1. Changed(s, t, S, "running", 0)
    BY <1>1, MarkChanged DEF StepStatuses
  <2>2. \A k \in DOMAIN s : k \in S => s[k].retries + 0 <= MaxRetries
    BY <1>u DEF Ready
  <2>3. /\ copy' = [copy EXCEPT ![e] = m] /\ stored' = m
        /\ pc' = [pc EXCEPT ![e] = "join"]
        /\ UNCHANGED <<cur, cancelling>>
    BY <1>18 DEF StartBatch, Checkpoint, Goto
  <2> HIDE DEF S, t
  <2>4. CopySound(m)
    BY <1>1, <1>4, <1>5, <2>1, <2>2, ChangedSound
  <2> HIDE DEF m
  <2> QED
    BY <1>k, <2>3, <2>4, SoundMove
<1>19. ASSUME NEW i \in inflight[e], JoinOk(e, i) \/ JoinErr(e, i)
       PROVE  SoundInv'
  <2>1. /\ i \in DOMAIN s
        /\ s[i].retries + 0 <= MaxRetries /\ s[i].retries <= MaxRetries
        /\ IsDag(s)
        /\ pc[e] = "join"
    BY <1>1, <1>2, <1>d, <1>u
  <2>2. UNCHANGED <<stored, pc, cur, cancelling>>
    BY <1>19 DEF JoinOk, JoinErr, store
  <2>3. PICK t : /\ StepsJustified(t) /\ IsDag(t)
                 /\ HasGate(s) => HasGate(t)
                 /\ copy' = [copy EXCEPT ![e] = With(copy[e], t)]
    <3>1. CASE JoinOk(e, i)
      <4> DEFINE t == CompleteStep(s, i, "text")
      <4>1. Changed(s, t, {i}, "completed", 0)
        BY <1>1, <2>1, CompleteChanged
      <4>2. copy' = [copy EXCEPT ![e] = With(copy[e], t)]
        BY <3>1 DEF JoinOk
      <4> HIDE DEF t
      <4>3. StepsJustified(t) /\ IsDag(t) /\ (HasGate(s) => HasGate(t))
        BY <1>1, <1>4, <2>1, <4>1, ChangedSound
      <4> QED
        BY <4>2, <4>3
    <3>2. CASE JoinErr(e, i) /\ ~Exhausted(s[i])
      <4> DEFINE t == RetryStep(s, i)
      <4>1. Changed(s, t, {i}, "pending", 1)
        BY <1>1, <2>1, RetryChanged
      <4>2. copy' = [copy EXCEPT ![e] = With(copy[e], t)]
        BY <3>2 DEF JoinErr
      <4> HIDE DEF t
      <4>3. \A k \in DOMAIN s : k \in {i} => s[k].retries + 1 <= MaxRetries
        BY <1>x, <2>1, <3>2
      <4>4. StepsJustified(t) /\ IsDag(t) /\ (HasGate(s) => HasGate(t))
        BY <1>1, <1>4, <2>1, <4>1, <4>3, ChangedSound
      <4> QED
        BY <4>2, <4>4
    <3>3. CASE JoinErr(e, i) /\ Exhausted(s[i])
      <4> DEFINE f == FailStep(s, i)
      <4> DEFINE S == {j \in Downstream(f, i) \ {i} :
                          f[j].status \in {"pending", "running"}}
      <4> DEFINE t == Mark(f, S, "skipped")
      <4>1. Changed(s, f, {i}, "failed", 1)
        BY <1>1, <2>1, FailChanged
      <4>2. f \in Seq(StepRecord)
        BY <1>1, <2>1, FailShape DEF SameShape
      <4>3. copy' = [copy EXCEPT ![e] = With(copy[e], t)]
        BY <3>3 DEF JoinErr, SkipDownstream
      <4> HIDE DEF f
      <4>4. StepsJustified(f) /\ IsDag(f) /\ (HasGate(s) => HasGate(f))
        BY <1>1, <1>4, <1>x, <2>1, <3>3, <4>1, FailedSound
      <4>5. \A k \in DOMAIN f :
               k \in S => f[k].status \in {"pending", "running"}
        OBVIOUS
      <4> HIDE DEF S
      <4>6. StepsJustified(t) /\ IsDag(t) /\ (HasGate(f) => HasGate(t))
        BY <4>2, <4>4, <4>5, SkipSound
      <4> QED
        BY <4>3, <4>4, <4>6
    <3> QED
      BY <1>19, <3>1, <3>2, <3>3
  <2> DEFINE m == With(copy[e], t)
  <2>4. AttemptsLeft(t)
    BY <2>3 DEF AttemptsLeft
  <2>5. CopySound(m)
    BY <1>5, <2>3, <2>4
  <2>6. copy' = [copy EXCEPT ![e] = m] /\ pc[e] = "join"
    BY <2>1, <2>3
  <2> HIDE DEF m
  <2> QED
    BY <1>k, <2>2, <2>5, <2>6, SoundMove
<1>20. CASE SaveBatch(e)
  <2>1. PICK l \in {"dag", "dagfail"} :
           /\ pc' = [pc EXCEPT ![e] = l]
           /\ l = "dagfail" => AnyFailed(copy[e].steps)
    BY <1>1, <1>20 DEF SaveBatch, Goto
  <2>2. stored' = copy[e] /\ UNCHANGED <<copy, cur, cancelling>>
    BY <1>20 DEF SaveBatch, local
  <2> QED
    BY <1>3, <1>k, <2>1, <2>2, SoundMove
<1> QED
  BY <1>6, <1>7, <1>8, <1>9, <1>10, <1>11, <1>13, <1>14, <1>15, <1>16, <1>17,
     <1>18, <1>19, <1>20 DEF Execute

LEMMA SoundNext ==
    ASSUME StreamsOnlySequential, SoundInv, [Next]_vars
    PROVE  SoundInv'
<1>1. OrderInv' /\ OrderInv /\ TypeOK
  BY OrderNext DEF SoundInv, OrderInv, TypeInv
<1>2. Sound(stored) /\ Sound(cancelling)
  BY DEF SoundInv
(* Executors are where they were, only the records change. *)
<1>3. ASSUME UNCHANGED <<pc, copy, cur>>, Sound(stored'), Sound(cancelling')
      PROVE  SoundInv'
  <2>1. \A f \in Executors : ExecutorSound(f)'
    BY <1>3 DEF SoundInv, ExecutorSound, steps
  <2> QED
    BY <1>1, <1>3, <2>1 DEF SoundInv
(* An idle executor is about to open or load. *)
<1>4. ASSUME NEW e \in Executors, NEW c, Launch(e, c),
             UNCHANGED <<copy, cur, cancelling>>, Sound(stored')
      PROVE  SoundInv'
  <2>1. PICK l \in {"load", "open"} : pc' = [pc EXCEPT ![e] = l]
    BY <1>4 DEF Launch, Goto
  <2>2. ExecutorSound(e)
    BY DEF SoundInv
  <2>3. ExecutorSound(e)'
    BY <1>1, <1>4, <2>1, <2>2 DEF ExecutorSound, steps, TypeOK
  <2>4. \A f \in Executors \ {e} :
           pc'[f] = pc[f] /\ copy'[f] = copy[f] /\ cur'[f] = cur[f]
    BY <1>1, <1>4, <2>1 DEF TypeOK
  <2> QED
    BY <1>1, <1>2, <1>4, <2>3, <2>4, SoundFrame
<1>5. ASSUME NEW e \in Executors, NEW c \in Creators, Create(e, c)
      PROVE  SoundInv'
  <2>1. PICK plan \in Plans : stored' = [status |-> "planned", steps |-> plan]
    BY <1>5 DEF Create
  <2>2. \A i \in DOMAIN plan : plan[i].status = "pending" /\ plan[i].retries = 0
    BY PlansAssumption DEF IsPlan
  <2>3. StepsJustified(plan)
    BY <2>2, RetriesAssumption DEF StepsJustified, StepJustified
  <2>4. AttemptsLeft(plan)
    BY <2>2, RetriesAssumption DEF AttemptsLeft
  <2>5. Sound(stored')
    BY <2>1, <2>3, <2>4 DEF Sound
  <2> QED
    BY <1>4, <1>5, <2>5 DEF Create
<1>6. ASSUME NEW e \in Executors, NEW c \in Resumers, Resume(e, c)
      PROVE  SoundInv'
  BY <1>2, <1>4, <1>6 DEF Resume
<1>7. ASSUME NEW e \in Executors, Execute(e)
      PROVE  SoundInv'
  BY <1>1, <1>7, SoundExecute
<1>8. ASSUME NEW e \in Executors, Abort(e)
      PROVE  SoundInv'
  BY <1>1, <1>2, <1>8, SoundReturn DEF Abort, store
<1>9. CASE CancelLoad
  <2> DEFINE t == CancelSteps(stored.steps)
  <2> DEFINE S == {i \in DOMAIN stored.steps :
                      stored.steps[i].status \in {"pending", "running"}}
  <2>1. stored.steps \in Seq(StepRecord)
    BY <1>1 DEF TypeOK, MissionRecord
  <2>2. StepsJustified(Mark(stored.steps, S, "skipped"))
    BY <1>2, <2>1, SkipSound DEF Sound
  <2>3. StepsJustified(t)
    BY <2>2 DEF CancelSteps
  <2> DEFINE m == [status |-> "cancelled", steps |-> t]
  <2>4. Sound(m)
    <3> HIDE DEF t
    <3> QED BY <2>3 DEF Sound, IsTerminal
  <2>5. cancelling' = m /\ UNCHANGED <<stored, pc, copy, cur>>
    BY <1>9 DEF CancelLoad, store, local
  <2> HIDE DEF m
  <2> QED
    BY <1>2, <1>3, <2>4, <2>5
<1>10. CASE CancelSave
  BY <1>2, <1>3, <1>10, NoMissionSound DEF CancelSave, local
<1>11. CASE Delete
  BY <1>2, <1>3, <1>11, NoMissionSound DEF Delete, local
<1>12. CASE Crash
  <2>1. \A f \in Executors : ExecutorSound(f)'
    BY <1>12, NoMissionSound DEF Crash, ExecutorSound
  <2> QED
    BY <1>1, <1>2, <1>12, <2>1, NoMissionSound DEF Crash, SoundInv
<1>13. CASE Restart \/ Answer \/ UNCHANGED vars
  BY <1>2, <1>3, <1>13 DEF Restart, Answer, local, vars
<1> QED
  BY <1>5, <1>6, <1>7, <1>8, <1>9, <1>10, <1>11, <1>12, <1>13 DEF Next

(* Whatever interleaves, a step is Failed only with its attempts used up   *)
(* or as a refused gate, a used-up step is nothing but Failed, and a       *)
(* mission Failed only for such a step, provided execute_mission_stream is *)
(* not given a DAG.                                                        *)
THEOREM FailuresJustified ==
    ASSUME StreamsOnlySequential
    PROVE  Spec => []FailureJustified
<1>1. Init => SoundInv
  BY OrderInit, NoMissionSound DEF Init, SoundInv, ExecutorSound
<1>2. SoundInv /\ [Next]_vars => SoundInv'
  BY SoundNext
<1>3. SoundInv => FailureJustified
  <2> SUFFICES ASSUME SoundInv, NEW m \in Records
               PROVE  /\ m.status = "failed" => \E i \in DOMAIN m.steps :
                            \/ m.steps[i].status = "failed"
                            \/ m.steps[i].kind = "gate"
                      /\ \A i \in DOMAIN m.steps : StepJustified(m.steps[i])
    BY DEF FailureJustified, StepJustified
  <2>1. Sound(m)
    BY CopyIsSound DEF Records, SoundInv, ExecutorSound
  <2> QED
    BY <2>1 DEF Sound, StepsJustified, AnyFailed, HasGate
<1> QED
  BY <1>1, <1>2, <1>3, PTL DEF Spec

-----------------------------------------------------------------------------
(* What the lock on the file of an exclusive store gives the task engine:  *)
(* the holders of the store exclude each other, and so a mission that has  *)
(* ended keeps its end and the attempts at a step are counted.             *)

(* Executor e has the store open; it has also loaded the mission. *)
Holds(e)   == pc[e] \notin {"idle", "open"}
Working(e) == pc[e] \notin {"idle", "open", "load"}

Exclusion ==
    /\ answering => cancelling = NoMission
    /\ answering \/ cancelling # NoMission => \A e \in Executors : ~Holds(e)
    /\ \A e, f \in Executors : Holds(e) /\ Holds(f) => e = f

(* Refused at an approval gate, e goes round in a loop that keeps the      *)
(* mission Failed: the gate stays the next step.                           *)
Condemned(e) ==
    /\ pc[e] \in {"seq", "approval"}
    /\ ~caller[e].stream /\ ~caller[e].channel
    /\ \E i \in DOMAIN steps(e) :
          IsNext(steps(e), i) /\ steps(e)[i].kind = "gate"

AtGate(e) == IsNext(steps(e), cur[e]) /\ IsApproval(e, cur[e])

WorkingOK(e) ==
    Working(e) =>
        /\ born
        /\ pc[e] = "approval" => AtGate(e)
        /\ \/ copy[e].status = "executing" /\ ~IsTerminal(stored.status)
           \/ /\ copy[e].status = "failed" /\ stored.status = "failed"
              /\ Condemned(e)

LockInv ==
    /\ TypeInv
    /\ Exclusion
    /\ ~born => stored = NoMission
    /\ cancelling # NoMission => born /\ ~IsTerminal(stored.status)
    /\ \A e \in Executors : WorkingOK(e)

(* The end of a mission is not overwritten by this step. *)
EndKept ==
    IsTerminal(stored.status) =>
        stored' = NoMission \/ stored'.status = stored.status

-----------------------------------------------------------------------------
(* A step of an executor touches nothing of the others and no lock. *)
LEMMA ExecuteFrame ==
    ASSUME TypeInv, NEW e \in Executors, Execute(e)
    PROVE  /\ UNCHANGED <<born, answering, cancelling>>
           /\ pc[e] = "open" \/ Holds(e)
           /\ pc[e] = "open" => Free \/ pc'[e] = "idle"
           /\ \A f \in Executors \ {e} :
                 /\ pc'[f] = pc[f]
                 /\ copy'[f] = copy[f]
                 /\ caller'[f] = caller[f]
                 /\ cur'[f] = cur[f]
                 /\ inflight'[f] = inflight[f]
<1> USE DEF TypeInv, TypeOK, Holds, Goto, Return, Checkpoint, SaveAndReturn,
            store, local
<1>1. CASE OpenStore(e)
  BY <1>1 DEF OpenStore
<1>2. CASE Load(e) \/ Begin(e) \/ Dispatch(e)
  BY <1>2 DEF Load, Begin, Dispatch
<1>3. CASE StartStep(e) \/ PanicOnTarget(e)
  BY <1>3 DEF StartStep, PanicOnTarget
<1>4. CASE ResolveApproval(e) \/ TurnCompletes(e) \/ TurnRejects(e)
  BY <1>4 DEF ResolveApproval, TurnCompletes, TurnRejects
<1>5. CASE TurnFails(e) \/ FinishSequential(e)
  BY <1>5 DEF TurnFails, FinishSequential
<1>6. CASE StartBatch(e) \/ SaveBatch(e)
  BY <1>6 DEF StartBatch, SaveBatch
<1>7. CASE \E i \in inflight[e] : JoinOk(e, i) \/ JoinErr(e, i)
  BY <1>7 DEF JoinOk, JoinErr
<1>8. CASE FailDag(e) \/ FinishDag(e) \/ DagDeadlock(e)
  BY <1>8 DEF FailDag, FinishDag, DagDeadlock, Stuck
<1> QED
  BY <1>1, <1>2, <1>3, <1>4, <1>5, <1>6, <1>7, <1>8 DEF Execute

(* Marking the next step running or failed leaves it the next one. *)
LEMMA NextStays ==
    ASSUME NEW s \in Seq(StepRecord), NEW i \in DOMAIN s,
           IsNext(s, i), NEW st \in {"running", "failed"}
    PROVE  LET t == Mark(s, {i}, st)
           IN  /\ IsNext(t, i)
               /\ DOMAIN t = DOMAIN s
               /\ t[i].kind = s[i].kind
<1> DEFINE t == Mark(s, {i}, st)
<1>1. /\ DOMAIN t = DOMAIN s
      /\ \A k \in DOMAIN s :
            t[k].status = IF k = i THEN st ELSE s[k].status
  BY MarkShape DEF SameShape, StepStatuses
<1>2. s[i] \in StepRecord
  BY ElementOfSeq, LenProperties
<1>3. t[i].kind = s[i].kind
  BY <1>2 DEF Mark, StepRecord
<1> HIDE DEF t
<1>4. IsNext(t, i)
  BY <1>1 DEF IsNext, Unfinished
<1> QED
  BY <1>1, <1>3, <1>4 DEF t

LEMMA NextUnique ==
    ASSUME NEW s \in Seq(StepRecord), NEW i \in DOMAIN s, NEW k \in DOMAIN s,
           IsNext(s, i), IsNext(s, k)
    PROVE  i = k
<1>1. i \in Nat /\ k \in Nat
  BY LenProperties
<1> QED
  BY <1>1 DEF IsNext

LEMMA ReturnIdle ==
    ASSUME TypeInv, NEW e \in Executors, Return(e)
    PROVE  WorkingOK(e)'
BY DEF TypeInv, TypeOK, Return, Goto, WorkingOK, Working

(* Loading refuses what has ended, so the copy and the store agree. *)
LEMMA LoadedOK ==
    ASSUME TypeInv, NEW e \in Executors, Load(e), born,
           stored # NoMission, ~IsTerminal(stored.status)
    PROVE  WorkingOK(e)'
<1>1. /\ pc' = [pc EXCEPT ![e] = "begin"]
      /\ copy' = [copy EXCEPT ![e] = [stored EXCEPT !.status = "executing"]]
      /\ UNCHANGED <<stored, born>>
  BY DEF Load, Goto
<1>2. pc'[e] = "begin" /\ copy'[e].status = "executing"
  BY <1>1, StatusTyped DEF TypeInv, TypeOK, TaskStatuses
<1> QED
  BY <1>1, <1>2 DEF WorkingOK

(* The next step is started; for a condemned executor it is the gate again. *)
LEMMA StartKeeps ==
    ASSUME TypeInv, NEW e \in Executors, WorkingOK(e), StartStep(e)
    PROVE  /\ WorkingOK(e)'
           /\ EndKept
           /\ stored' = stored \/ Working(e)
<1> DEFINE s == steps(e)
<1>1. /\ copy[e] \in MissionRecord
      /\ s \in Seq(StepRecord)
      /\ pc \in [Executors -> PCs]
      /\ copy \in [Executors -> MissionRecord]
      /\ cur \in [Executors -> Nat]
  BY DEF TypeInv, TypeOK, steps, MissionRecord
<1>2. PICK i \in DOMAIN s :
         /\ IsNext(s, i)
         /\ Checkpoint(e, With(copy[e], Mark(s, {i}, "running")))
         /\ cur' = [cur EXCEPT ![e] = i]
         /\ Goto(e, IF IsApproval(e, i) THEN "approval" ELSE "turn")
  BY DEF StartStep, Unfinished
<1> DEFINE t == Mark(s, {i}, "running")
<1>3. Working(e) /\ UNCHANGED <<born, caller>>
  BY DEF StartStep, Working
<1>4. IsNext(t, i) /\ DOMAIN t = DOMAIN s /\ t[i].kind = s[i].kind
  BY <1>1, <1>2, NextStays
<1> HIDE DEF t
<1> DEFINE m == With(copy[e], t)
<1>5. m.status = copy[e].status /\ m.steps = t
  BY <1>1, WithIs
<1>6. copy' = [copy EXCEPT ![e] = m] /\ stored' = m
  BY <1>2 DEF Checkpoint, t
<1> HIDE DEF m
<1>7. /\ copy'[e] = m
      /\ cur'[e] = i
      /\ pc'[e] = IF IsApproval(e, i) THEN "approval" ELSE "turn"
  BY <1>1, <1>2, <1>6 DEF Goto
<1>8. IsApproval(e, i)' <=> IsApproval(e, i)
  BY <1>3, <1>4, <1>5, <1>7 DEF IsApproval, steps
<1>9. pc'[e] = "approval" => AtGate(e)'
  BY <1>4, <1>5, <1>7, <1>8 DEF AtGate, steps
<1>10. CASE copy[e].status = "executing" /\ ~IsTerminal(stored.status)
  BY <1>3, <1>5, <1>6, <1>7, <1>9, <1>10 DEF WorkingOK, EndKept, IsTerminal
<1>11. CASE /\ copy[e].status = "failed" /\ stored.status = "failed"
            /\ Condemned(e)
  <2>1. s[i].kind = "gate"
    BY <1>1, <1>2, <1>11, NextUnique DEF Condemned
  <2>2. IsApproval(e, i)
    BY <1>11, <2>1 DEF IsApproval, Condemned
  <2>3. Condemned(e)'
    BY <1>3, <1>4, <1>5, <1>7, <1>11, <2>1, <2>2 DEF Condemned, steps
  <2> QED
    BY <1>3, <1>5, <1>6, <1>7, <1>9, <1>11, <2>3 DEF WorkingOK, EndKept
<1> QED
  BY <1>3, <1>10, <1>11 DEF WorkingOK

(* A refused gate fails the mission for good: it remains the next step. *)
LEMMA ApprovalKeeps ==
    ASSUME TypeInv, NEW e \in Executors, WorkingOK(e), ResolveApproval(e)
    PROVE  /\ WorkingOK(e)'
           /\ EndKept
           /\ stored' = stored \/ Working(e)
<1> DEFINE s == steps(e)
           i == cur[e]
<1>1. /\ copy[e] \in MissionRecord
      /\ s \in Seq(StepRecord)
      /\ pc \in [Executors -> PCs]
      /\ copy \in [Executors -> MissionRecord]
      /\ i \in DOMAIN s
      /\ pc[e] = "approval"
  BY DEF TypeInv, TypeOK, IndicesOK, steps, MissionRecord, ResolveApproval
<1>2. Working(e) /\ UNCHANGED <<born, caller>>
  BY <1>1 DEF ResolveApproval, Working
<1>3. AtGate(e)
  BY <1>1, <1>2 DEF WorkingOK
<1>4. pc'[e] = "seq"
  BY <1>1 DEF ResolveApproval, Goto
<1>5. CASE Approved(e)
  <2>1. ~Condemned(e)
    <3>1. Condemned(e) => ~caller[e].channel /\ s[i].kind = "gate"
      BY <1>1, <1>3, NextUnique DEF Condemned, AtGate
    <3> QED
      BY <1>5, <3>1 DEF Approved
  <2>2. copy[e].status = "executing" /\ ~IsTerminal(stored.status)
    BY <1>2, <2>1 DEF WorkingOK
  <2>3. PICK t : Checkpoint(e, With(copy[e], t))
    BY <1>5 DEF ResolveApproval
  <2>4. With(copy[e], t).status = "executing"
    BY <1>1, <2>2, WithIs
  <2> QED
    BY <1>1, <1>2, <1>4, <2>2, <2>3, <2>4
    DEF WorkingOK, EndKept, Checkpoint, IsTerminal
<1>6. CASE ~Approved(e)
  <2> DEFINE t == Mark(s, {i}, "failed")
             m == [status |-> "failed", steps |-> t]
  <2>1. IsNext(t, i) /\ DOMAIN t = DOMAIN s /\ t[i].kind = s[i].kind
    BY <1>1, <1>3, NextStays DEF AtGate
  <2>2. Checkpoint(e, m)
    BY <1>6 DEF ResolveApproval
  <2>3. /\ s[i].kind = "gate"
        /\ ~caller[e].stream /\ ~caller[e].channel
    BY <1>3, <1>6 DEF AtGate, IsApproval, Approved
  <2> HIDE DEF t
  <2>4. copy'[e] = m /\ stored' = m
    BY <1>1, <2>2 DEF Checkpoint
  <2>5. m.status = "failed" /\ m.steps = t
    OBVIOUS
  <2> HIDE DEF m
  <2>6. Condemned(e)'
    BY <1>1, <1>2, <1>4, <2>1, <2>3, <2>4, <2>5 DEF Condemned, steps
  <2>7. EndKept
    BY <1>2, <2>4, <2>5 DEF EndKept, WorkingOK
  <2> QED
    BY <1>2, <1>4, <2>4, <2>5, <2>6, <2>7 DEF WorkingOK
<1> QED
  BY <1>5, <1>6

(* An executor that works keeps its claim on the status, and what it saves *)
(* over an ended mission has the same end.                                 *)
LEMMA ExecuteKeeps ==
    ASSUME TypeInv, NEW e \in Executors, WorkingOK(e), Execute(e),
           ~born => stored = NoMission
    PROVE  /\ WorkingOK(e)'
           /\ EndKept
           /\ stored' = stored \/ Working(e)
<1> DEFINE s == steps(e)
<1>1. /\ copy[e] \in MissionRecord
      /\ s \in Seq(StepRecord)
      /\ stored \in MissionRecord
      /\ pc \in [Executors -> PCs]
      /\ copy \in [Executors -> MissionRecord]
      /\ cur \in [Executors -> Nat]
      /\ pc[e] \in {"turn", "approval"} => cur[e] \in DOMAIN s
  BY DEF TypeInv, TypeOK, IndicesOK, steps, MissionRecord
<1>2. \A t : /\ With(copy[e], t).status = copy[e].status
             /\ With(copy[e], t).steps = t
  BY <1>1, WithIs
(* A move to a place where no gate is at stake, with an executing copy. *)
<1>3. ASSUME Working(e), copy[e].status = "executing",
             NEW m, NEW l \in PCs, l # "approval",
             m.status = "executing",
             pc' = [pc EXCEPT ![e] = l],
             copy' = [copy EXCEPT ![e] = m],
             stored' = stored \/ stored' = m,
             born' = born
      PROVE  /\ WorkingOK(e)'
             /\ EndKept
             /\ stored' = stored \/ Working(e)
  <2>1. born /\ ~IsTerminal(stored.status)
    BY <1>3 DEF WorkingOK
  <2>2. pc'[e] = l /\ copy'[e] = m
    BY <1>1, <1>3
  <2>3. ~IsTerminal(stored'.status)
    BY <1>3, <2>1 DEF IsTerminal
  <2> QED
    BY <1>3, <2>1, <2>2, <2>3 DEF WorkingOK, EndKept
(* Only a condemned executor works on a failed copy. *)
<1>4. Working(e) /\ pc[e] \notin {"seq", "approval"} =>
         copy[e].status = "executing" /\ born /\ ~IsTerminal(stored.status)
  BY DEF WorkingOK, Condemned
<1>5. ASSUME Working(e), copy[e].status = "executing", Return(e)
      PROVE  /\ WorkingOK(e)'
             /\ EndKept
             /\ stored' = stored \/ Working(e)
  <2>1. ~IsTerminal(stored.status)
    BY <1>5 DEF WorkingOK
  <2> QED
    BY <1>5, <2>1, ReturnIdle DEF EndKept
<1>6. ASSUME Return(e), stored' = stored
      PROVE  /\ WorkingOK(e)'
             /\ EndKept
             /\ stored' = stored \/ Working(e)
  BY <1>6, ReturnIdle DEF EndKept
<1>l. /\ PCs = {"idle", "open", "load", "begin", "dispatch", "seq", "turn",
                "approval", "dag", "join", "dagfail"}
      /\ pc[e] # "open" /\ pc[e] # "load" /\ pc[e] # "idle" => Working(e)
  BY DEF PCs, Working
<1>7. CASE OpenStore(e)
  <2>1. stored' = stored /\ born' = born
    BY <1>7 DEF OpenStore, store
  <2>2. CASE Return(e)
    BY <2>1, <2>2, <1>6
  <2>3. CASE ~Return(e)
    <3>1. pc'[e] = "load"
      BY <1>1, <1>7, <2>3 DEF OpenStore, Goto
    <3> QED
      BY <2>1, <3>1 DEF WorkingOK, Working, EndKept
  <2> QED
    BY <2>2, <2>3
<1>8. CASE Load(e)
  <2>1. stored' = stored /\ born' = born
    BY <1>8 DEF Load
  <2>2. CASE stored = NoMission \/ IsTerminal(stored.status)
    BY <2>1, <2>2, <1>6, <1>8 DEF Load
  <2>3. CASE ~(stored = NoMission \/ IsTerminal(stored.status))
    BY <1>8, <2>1, <2>3, LoadedOK DEF EndKept
  <2> QED
    BY <2>2, <2>3
<1>9. CASE Begin(e) \/ Dispatch(e) \/ SaveBatch(e)
  <2>1. CASE Return(e)
    BY <1>4, <1>5, <1>9, <1>l, <2>1 DEF Begin, Dispatch, SaveBatch
  <2>2. CASE ~Return(e)
    <3>1. PICK l \in {"dispatch", "seq", "dag", "dagfail"} :
             pc' = [pc EXCEPT ![e] = l]
      BY <1>9, <2>2 DEF Begin, Dispatch, SaveBatch, Goto
    <3>2. /\ copy' = [copy EXCEPT ![e] = copy[e]]
          /\ stored' = stored \/ stored' = copy[e]
          /\ born' = born
      BY <1>1, <1>9, <2>2 DEF Begin, Dispatch, SaveBatch, store, local
    <3>3. Working(e) /\ copy[e].status = "executing"
      BY <1>4, <1>9, <1>l DEF Begin, Dispatch, SaveBatch
    <3> QED
      BY <1>l, <1>3, <3>1, <3>2, <3>3
  <2> QED
    BY <2>1, <2>2
<1>10. CASE StartStep(e)
  BY <1>10, StartKeeps
<1>11. CASE PanicOnTarget(e)
  BY <1>6, <1>11 DEF PanicOnTarget, store
<1>12. CASE ResolveApproval(e)
  BY <1>12, ApprovalKeeps
<1>13. CASE TurnCompletes(e) \/ TurnRejects(e) \/ TurnFails(e)
  <2>1. Working(e) /\ copy[e].status = "executing"
    BY <1>4, <1>13, <1>l DEF TurnCompletes, TurnRejects, TurnFails
  <2>2. CASE Return(e)
    BY <1>5, <2>1, <2>2
  <2>3. CASE ~Return(e)
    <3>1. PICK t : Checkpoint(e, With(copy[e], t)) /\ Goto(e, "seq")
      BY <1>13, <2>3
      DEF TurnCompletes, TurnRejects, TurnFails, SaveAndReturn
    <3>2. born' = born
      BY <1>13 DEF TurnCompletes, TurnRejects, TurnFails
    <3> QED
      BY <1>2, <1>3, <1>l, <2>1, <3>1, <3>2 DEF Checkpoint, Goto
  <2> QED
    BY <2>2, <2>3
<1>14. CASE FinishSequential(e)
  <2>1. pc[e] = "seq" /\ Unfinished(s) = {} /\ Return(e)
    BY <1>14 DEF FinishSequential, SaveAndReturn
  <2>2. ~Condemned(e)
    BY <2>1 DEF Condemned, IsNext
  <2> QED
    BY <1>5, <1>l, <2>1, <2>2 DEF WorkingOK
<1>15. CASE StartBatch(e)
  <2>1. Working(e) /\ copy[e].status = "executing"
    BY <1>4, <1>15, <1>l DEF StartBatch
  <2>2. PICK t : Checkpoint(e, With(copy[e], t)) /\ Goto(e, "join")
    BY <1>15 DEF StartBatch
  <2>3. born' = born
    BY <1>15 DEF StartBatch
  <2> QED
    BY <1>2, <1>3, <1>l, <2>1, <2>2, <2>3 DEF Checkpoint, Goto
<1>16. CASE \E i \in inflight[e] : JoinOk(e, i) \/ JoinErr(e, i)
  <2>1. Working(e) /\ copy[e].status = "executing"
    BY <1>4, <1>16, <1>l DEF JoinOk, JoinErr
  <2>2. PICK t : copy' = [copy EXCEPT ![e] = With(copy[e], t)]
    BY <1>16 DEF JoinOk, JoinErr
  <2>3. /\ pc' = [pc EXCEPT ![e] = "join"]
        /\ stored' = stored /\ born' = born
    BY <1>1, <1>16 DEF JoinOk, JoinErr, store
  <2> QED
    BY <1>2, <1>3, <1>l, <2>1, <2>2, <2>3
<1>17. CASE FailDag(e) \/ FinishDag(e) \/ DagDeadlock(e)
  <2>1. Return(e) /\ pc[e] \in {"dag", "dagfail"}
    BY <1>17 DEF FailDag, FinishDag, DagDeadlock, Stuck, SaveAndReturn
  <2> QED
    BY <1>4, <1>5, <1>l, <2>1
<1> QED
  BY <1>7, <1>8, <1>9, <1>10, <1>11, <1>12, <1>13, <1>14, <1>15, <1>16, <1>17
  DEF Execute

-----------------------------------------------------------------------------
LEMMA LockInit == Init => LockInv
<1> SUFFICES ASSUME Init PROVE LockInv
  OBVIOUS
<1>1. TypeInv
  BY TypeInit
<1> QED
  BY <1>1 DEF Init, LockInv, Exclusion, Holds, WorkingOK, Working

(* The store was free, so no executor is at work beside e. *)
LEMMA LaunchKeeps ==
    ASSUME LockInv, TypeInv', StoreIsExclusive, Free,
           NEW e \in Executors, NEW c, Launch(e, c),
           pc[e] = "idle", UNCHANGED cancelling
    PROVE  /\ Exclusion'
           /\ cancelling' = NoMission
           /\ \A f \in Executors : WorkingOK(f)'
<1>1. /\ ~answering
      /\ cancelling = NoMission
      /\ \A f \in Executors : pc[f] \in {"idle", "open"}
      /\ pc \in [Executors -> PCs]
  BY DEF Free, LockInv, TypeInv, TypeOK
<1>2. \/ pc' = [pc EXCEPT ![e] = "load"] /\ ~answering'
      \/ pc' = [pc EXCEPT ![e] = "open"]
  BY DEF Launch, Goto
<1>3. \A f \in Executors : ~Working(f)'
  BY <1>1, <1>2 DEF Working
<1>4. \/ ~answering' /\ \A f \in Executors : Holds(f)' => f = e
      \/ \A f \in Executors : ~Holds(f)'
  BY <1>1, <1>2 DEF Holds
<1> QED
  BY <1>1, <1>3, <1>4 DEF Exclusion, WorkingOK

LEMMA LockNext ==
    ASSUME StoreIsExclusive, LockInv, [Next]_vars
    PROVE  LockInv' /\ EndKept
<1>1. TypeInv /\ TypeInv'
  BY TypeNext DEF LockInv
<1>2. ASSUME NEW e \in Executors, NEW c \in Creators, Create(e, c)
      PROVE  LockInv' /\ EndKept
  <2>1. /\ Free /\ Launch(e, c) /\ pc[e] = "idle" /\ UNCHANGED cancelling
        /\ ~born /\ born'
    BY <1>2 DEF Create
  <2>2. stored = NoMission
    BY <2>1 DEF LockInv
  <2>3. EndKept
    BY <2>2 DEF EndKept, IsTerminal, NoMission
  <2>4. /\ Exclusion'
        /\ cancelling' = NoMission
        /\ \A f \in Executors : WorkingOK(f)'
    BY <1>1, <2>1, LaunchKeeps
  <2> QED
    BY <1>1, <2>1, <2>3, <2>4 DEF LockInv
<1>3. ASSUME NEW e \in Executors, NEW c \in Resumers, Resume(e, c)
      PROVE  LockInv' /\ EndKept
  <2>1. /\ Free /\ Launch(e, c) /\ pc[e] = "idle" /\ UNCHANGED cancelling
        /\ born /\ UNCHANGED <<born, stored>>
    BY <1>3 DEF Resume
  <2>2. /\ Exclusion'
        /\ cancelling' = NoMission
        /\ \A f \in Executors : WorkingOK(f)'
    BY <1>1, <2>1, LaunchKeeps
  <2> QED
    BY <1>1, <2>1, <2>2 DEF LockInv, EndKept
<1>4. ASSUME NEW e \in Executors, Execute(e)
      PROVE  LockInv' /\ EndKept
  <2>1. /\ UNCHANGED <<born, answering, cancelling>>
        /\ pc[e] = "open" \/ Holds(e)
        /\ pc[e] = "open" => Free \/ pc'[e] = "idle"
        /\ \A f \in Executors \ {e} :
              /\ pc'[f] = pc[f]
              /\ copy'[f] = copy[f]
              /\ caller'[f] = caller[f]
              /\ cur'[f] = cur[f]
    BY <1>1, <1>4, ExecuteFrame
  <2>2. WorkingOK(e)' /\ EndKept /\ (stored' = stored \/ Working(e))
    BY <1>1, <1>4, ExecuteKeeps DEF LockInv
  <2>3. \A f \in Executors \ {e} : Holds(f)' <=> Holds(f)
    BY <2>1 DEF Holds
  <2>4. Holds(e)' => /\ ~answering /\ cancelling = NoMission
                     /\ \A f \in Executors \ {e} : ~Holds(f)
    BY <2>1 DEF LockInv, Exclusion, Holds, Free
  <2>5. Exclusion'
    BY <2>1, <2>3, <2>4 DEF LockInv, Exclusion
  <2>6. Working(e) => Holds(e)
    BY DEF Working, Holds
  <2>7. ASSUME NEW f \in Executors
        PROVE  WorkingOK(f)'
    <3>1. CASE f = e
      BY <2>2, <3>1
    <3>2. CASE f # e /\ ~Working(f)
      BY <2>1, <3>2 DEF WorkingOK, Working
    <3>3. CASE f # e /\ Working(f)
      <4>1. ~Working(e)
        BY <2>6, <3>3 DEF LockInv, Exclusion, Holds, Working
      <4>2. stored' = stored
        BY <2>2, <4>1
      <4>3. WorkingOK(f)
        BY DEF LockInv
      <4> QED
        BY <2>1, <3>3, <4>2, <4>3
        DEF WorkingOK, Working, AtGate, Condemned, IsApproval, steps
    <3> QED
      BY <3>1, <3>2, <3>3
  <2>8. cancelling # NoMission => stored' = stored
    BY <2>2, <2>6 DEF LockInv, Exclusion
  <2>9. ~born => stored' = stored
    BY <2>2 DEF LockInv, WorkingOK
  <2> QED
    BY <1>1, <2>1, <2>2, <2>5, <2>7, <2>8, <2>9 DEF LockInv
<1>5. ASSUME NEW e \in Executors, Abort(e)
      PROVE  LockInv' /\ EndKept
  <2>1. /\ UNCHANGED <<stored, born, answering, cancelling>>
        /\ Return(e)
        /\ \A f \in Executors \ {e} :
              /\ pc'[f] = pc[f]
              /\ copy'[f] = copy[f]
              /\ caller'[f] = caller[f]
              /\ cur'[f] = cur[f]
        /\ pc'[e] = "idle"
    BY <1>1, <1>5 DEF Abort, store, Return, Goto, TypeInv, TypeOK
  <2>2. \A f \in Executors : Holds(f)' => Holds(f)
    BY <2>1 DEF Holds
  <2>3. Exclusion'
    BY <2>1, <2>2 DEF LockInv, Exclusion
  <2>4. \A f \in Executors : WorkingOK(f)'
    <3> TAKE f \in Executors
    <3>1. CASE f = e
      BY <2>1, <3>1 DEF WorkingOK, Working
    <3>2. CASE f # e
      BY <2>1, <3>2
      DEF LockInv, WorkingOK, Working, AtGate, Condemned, IsApproval, steps
    <3> QED
      BY <3>1, <3>2
  <2> QED
    BY <1>1, <2>1, <2>3, <2>4 DEF LockInv, EndKept
(* A handler that opened the store: no executor has it. *)
<1>6. ASSUME UNCHANGED pc, \A e \in Executors : ~Holds(e)
      PROVE  /\ \A e \in Executors : ~Holds(e)' /\ WorkingOK(e)'
  BY <1>6 DEF Holds, WorkingOK, Working
<1>7. CASE CancelLoad
  <2>1. /\ UNCHANGED <<stored, born, answering, pc>>
        /\ ~IsTerminal(stored.status)
        /\ stored # NoMission
        /\ Free
    BY <1>7 DEF CancelLoad, store, local
  <2>2. \A e \in Executors : ~Holds(e)
    BY <2>1 DEF Free, Holds
  <2>3. ~answering /\ born
    BY <2>1 DEF Free, LockInv
  <2> QED
    BY <1>1, <1>6, <2>1, <2>2, <2>3 DEF LockInv, Exclusion, EndKept
<1>8. CASE CancelSave
  <2>1. /\ UNCHANGED <<born, answering, pc>>
        /\ cancelling # NoMission /\ cancelling' = NoMission
    BY <1>8 DEF CancelSave
  <2>2. (\A e \in Executors : ~Holds(e)) /\ born /\ ~IsTerminal(stored.status)
    BY <2>1 DEF LockInv, Exclusion
  <2> QED
    BY <1>1, <1>6, <2>1, <2>2 DEF LockInv, Exclusion, EndKept
<1>9. CASE Delete
  <2>1. /\ UNCHANGED <<born, answering, pc, cancelling>>
        /\ stored' = NoMission /\ Free
    BY <1>9 DEF Delete, local
  <2>2. (\A e \in Executors : ~Holds(e)) /\ cancelling = NoMission
    BY <2>1 DEF Free, Holds
  <2> QED
    BY <1>1, <1>6, <2>1, <2>2 DEF LockInv, Exclusion, EndKept
<1>10. CASE Crash
  BY <1>1, <1>10
  DEF Crash, LockInv, Exclusion, Holds, WorkingOK, Working, EndKept
<1>11. CASE Restart \/ Answer \/ UNCHANGED vars
  <2>1. /\ UNCHANGED <<stored, born, pc, copy, caller, cur, cancelling>>
        /\ answering' => answering
    BY <1>11 DEF Restart, Answer, vars, local
  <2>2. \A f \in Executors : (Holds(f)' <=> Holds(f)) /\ WorkingOK(f)'
    BY <2>1
    DEF LockInv, Holds, WorkingOK, Working, AtGate, Condemned, IsApproval, steps
  <2> QED
    BY <1>1, <2>1, <2>2 DEF LockInv, Exclusion, EndKept
<1> QED
  BY <1>2, <1>3, <1>4, <1>5, <1>7, <1>8, <1>9, <1>10, <1>11 DEF Next

(* Where an open handle keeps others out of the task store, no execution,  *)
(* cancel, crash or resume ever changes the status a mission ended with.   *)
THEOREM EndCorrect ==
    ASSUME StoreIsExclusive
    PROVE  Spec => TerminalIsFinal
<1>1. Init => LockInv
  BY LockInit
<1>2. LockInv /\ [Next]_vars => LockInv' /\ EndKept
  BY LockNext
<1> QED
  BY <1>1, <1>2, PTL DEF Spec, TerminalIsFinal, EndKept

(* Where an open handle keeps others out of the task store, no two calls   *)
(* ever execute a mission at the same time, and none while a handler does. *)
THEOREM ExclusionCorrect ==
    ASSUME StoreIsExclusive
    PROVE  Spec => []Exclusion
<1>1. Init => LockInv
  BY LockInit
<1>2. LockInv /\ [Next]_vars => LockInv'
  BY LockNext
<1>3. LockInv => Exclusion
  BY DEF LockInv
<1> QED
  BY <1>1, <1>2, <1>3, PTL DEF Spec

-----------------------------------------------------------------------------
(* The attempts at a step.  Where calls exclude each other, an attempt is  *)
(* the current one, has failed and is counted in the step, has completed   *)
(* it, or was cut off by a fault.  The record that tells is the copy of    *)
(* who works on the mission and the store when nobody does; of the store   *)
(* meanwhile only that a fault that loses the copy pays for what is lost.  *)

Faults == Budget["fault"] - left["fault"]

(* The steps executor e has a turn for. *)
Live(e) == inflight[e] \union {i \in {cur[e]} : pc[e] = "turn"}

(* Of the n[i] attempts at a step all but f have failed, and but for one   *)
(* more of a step that is done with or in L.                               *)
CountOK(n, f, s, L) ==
    \A i \in Counted :
        /\ i \notin DOMAIN s => n[i] = 0
        /\ i \in DOMAIN s => n[i] <= s[i].retries + f + 1
        /\ i \in DOMAIN s \ L /\ s[i].status \notin {"completed", "skipped"} =>
              n[i] <= s[i].retries + f

CountedBy(e) ==
    /\ CountOK(starts, Faults, steps(e), Live(e))
    /\ CountOK(starts, Faults, stored.steps, DOMAIN stored.steps)
    /\ pc[e] # "join" => stored.steps = steps(e)

CountInv ==
    /\ LockInv
    /\ SoundInv
    /\ Faults \in Nat
    /\ AttemptsBounded
    /\ ~born => \A i \in Counted : starts[i] = 0
    /\ cancelling # NoMission =>
          CountOK(starts, Faults, cancelling.steps, {})
    /\ stored # NoMission /\ (\A e \in Executors : ~Working(e)) =>
          CountOK(starts, Faults, stored.steps, {})
    /\ \A e \in Executors : Working(e) => CountedBy(e)

LEMMA RetriesTyped ==
    ASSUME NEW s \in Seq(StepRecord)
    PROVE  \A i \in DOMAIN s : s[i].retries \in Nat
<1>1. \A i \in DOMAIN s : s[i] \in StepRecord
  BY ElementOfSeq, LenProperties
<1> QED
  BY <1>1 DEF StepRecord

LEMMA CountWeaker ==
    ASSUME NEW n, NEW f, NEW s, NEW L, NEW M,
           CountOK(n, f, s, L), L \cap DOMAIN s \subseteq M
    PROVE  CountOK(n, f, s, M)
BY DEF CountOK

(* A fault pays for every attempt it cuts off. *)
LEMMA CountFault ==
    ASSUME NEW n \in [Counted -> Nat], NEW f \in Nat, NEW s \in Seq(StepRecord),
           NEW L, CountOK(n, f, s, L)
    PROVE  CountOK(n, f + 1, s, {})
<1> SUFFICES ASSUME NEW i \in Counted
             PROVE  /\ i \notin DOMAIN s => n[i] = 0
                    /\ i \in DOMAIN s => n[i] <= s[i].retries + (f + 1)
                    /\ i \in DOMAIN s => n[i] <= s[i].retries + (f + 1) + 1
  BY DEF CountOK
<1>1. /\ i \notin DOMAIN s => n[i] = 0
      /\ i \in DOMAIN s => n[i] <= s[i].retries + f + 1
  BY DEF CountOK
<1>2. n[i] \in Nat /\ (i \in DOMAIN s => s[i].retries \in Nat)
  BY RetriesTyped
<1> QED
  BY <1>1, <1>2

(* A rewrite takes a step out of L when it completes or skips it.          *)
LEMMA CountChanged ==
    ASSUME NEW n \in [Counted -> Nat], NEW f \in Nat, NEW s \in Seq(StepRecord),
           NEW t, NEW S, NEW st, NEW L, NEW M,
           Changed(s, t, S, st, 0), CountOK(n, f, s, L),
           \A i \in DOMAIN s :
              i \notin M /\ t[i].status \notin {"completed", "skipped"} =>
                 i \notin L /\ s[i].status \notin {"completed", "skipped"}
    PROVE  CountOK(n, f, t, M)
<1>1. DOMAIN t = DOMAIN s
  BY DEF Changed
<1>2. ASSUME NEW i \in Counted, i \in DOMAIN s
      PROVE  /\ n[i] <= t[i].retries + f + 1
             /\ i \notin M /\ t[i].status \notin {"completed", "skipped"} =>
                   n[i] <= t[i].retries + f
  <2>1. n[i] \in Nat /\ s[i].retries \in Nat
    BY <1>2, RetriesTyped
  <2>2. t[i].retries = s[i].retries
    BY <1>2, <2>1 DEF Changed
  <2>3. n[i] <= s[i].retries + f + 1
    BY <1>2 DEF CountOK
  <2>4. i \notin M /\ t[i].status \notin {"completed", "skipped"} =>
           n[i] <= s[i].retries + f
    BY <1>2 DEF CountOK
  <2> QED
    BY <2>2, <2>3, <2>4
<1>3. \A i \in Counted : i \notin DOMAIN s => n[i] = 0
  BY DEF CountOK
<1> QED
  BY <1>1, <1>2, <1>3 DEF CountOK

(* An attempt that failed is counted in its step. *)
LEMMA CountFailed ==
    ASSUME NEW n \in [Counted -> Nat], NEW f \in Nat, NEW s \in Seq(StepRecord),
           NEW t, NEW k, NEW st, NEW L,
           Changed(s, t, {k}, st, 1), CountOK(n, f, s, L)
    PROVE  CountOK(n, f, t, L \ {k})
<1>1. DOMAIN t = DOMAIN s
  BY DEF Changed
<1>2. ASSUME NEW i \in Counted, i \in DOMAIN s
      PROVE  /\ n[i] <= t[i].retries + f + 1
             /\ i \notin L \ {k} /\ t[i].status \notin {"completed", "skipped"} =>
                   n[i] <= t[i].retries + f
  <2>1. n[i] \in Nat /\ s[i].retries \in Nat
    BY <1>2, RetriesTyped
  <2>2. n[i] <= s[i].retries + f + 1
    BY <1>2 DEF CountOK
  <2>3. CASE i = k
    <3>1. t[i].retries = s[i].retries + 1
      BY <1>2, <2>3 DEF Changed
    <3> QED
      BY <2>1, <2>2, <3>1
  <2>4. CASE i # k
    <3>1. t[i].retries = s[i].retries /\ t[i].status = s[i].status
      BY <1>2, <2>1, <2>4 DEF Changed
    <3>2. i \notin L /\ s[i].status \notin {"completed", "skipped"} =>
             n[i] <= s[i].retries + f
      BY <1>2 DEF CountOK
    <3> QED
      BY <2>2, <2>4, <3>1, <3>2
  <2> QED
    BY <2>3, <2>4
<1>3. \A i \in Counted : i \notin DOMAIN s => n[i] = 0
  BY DEF CountOK
<1> QED
  BY <1>1, <1>2, <1>3 DEF CountOK

(* Steps that are not done with are started. *)
LEMMA CountStarted ==
    ASSUME NEW n \in [Counted -> Nat], NEW f \in Nat, NEW s \in Seq(StepRecord),
           NEW t, NEW S, NEW k,
           Changed(s, t, S, "running", 0), CountOK(n, f, s, {}),
           S \subseteq DOMAIN s,
           \A i \in S : s[i].status \notin {"completed", "skipped"},
           k = [i \in DOMAIN n |-> IF i \in S THEN n[i] + 1 ELSE n[i]]
    PROVE  CountOK(k, f, t, S)
<1>1. DOMAIN t = DOMAIN s
  BY DEF Changed
<1>2. ASSUME NEW i \in Counted, i \in DOMAIN s
      PROVE  /\ k[i] <= t[i].retries + f + 1
             /\ i \notin S /\ t[i].status \notin {"completed", "skipped"} =>
                   k[i] <= t[i].retries + f
  <2>1. n[i] \in Nat /\ s[i].retries \in Nat
    BY <1>2, RetriesTyped
  <2>2. t[i].retries = s[i].retries
    BY <1>2, <2>1 DEF Changed
  <2>3. CASE i \in S
    <3>1. n[i] <= s[i].retries + f
      BY <1>2, <2>3 DEF CountOK
    <3>2. k[i] = n[i] + 1
      BY <1>2, <2>3
    <3> QED
      BY <2>1, <2>2, <2>3, <3>1, <3>2
  <2>4. CASE i \notin S
    <3>1. k[i] = n[i] /\ t[i].status = s[i].status
      BY <1>2, <2>4 DEF Changed
    <3>2. /\ n[i] <= s[i].retries + f + 1
          /\ s[i].status \notin {"completed", "skipped"} =>
                n[i] <= s[i].retries + f
      BY <1>2 DEF CountOK
    <3> QED
      BY <2>2, <3>1, <3>2
  <2> QED
    BY <2>3, <2>4
<1>3. \A i \in Counted : i \notin DOMAIN s => k[i] = 0
  BY DEF CountOK
<1> QED
  BY <1>1, <1>2, <1>3 DEF CountOK

(* The steps a rejection appends have not been attempted. *)
LEMMA CountRevised ==
    ASSUME NEW n \in [Counted -> Nat], NEW f \in Nat, NEW s \in Seq(StepRecord),
           NEW i \in DOMAIN s, s[i].left > 0, CountOK(n, f, s, {i})
    PROVE  CountOK(n, f, Revise(s, i), {})
<1> DEFINE c == CompleteStep(s, i, "rejected")
<1> DEFINE r == Revise(s, i)
<1>1. DOMAIN s = 1 .. Len(s) /\ Len(s) \in Nat /\ DOMAIN r = 1 .. Len(s) + 2
  BY ReviseIs
<1>2. \A k \in DOMAIN s :
         /\ c[k].retries = s[k].retries
         /\ c[k].status = IF k = i THEN "completed" ELSE s[k].status
  <2>1. \A k \in DOMAIN s : s[k] \in StepRecord
    BY ElementOfSeq, LenProperties
  <2> QED
    BY <2>1 DEF CompleteStep, StepRecord
<1>x. /\ \A k \in DOMAIN s : r[k] = c[k]
      /\ r[Len(s) + 1] = NewStep("execute", 0, 0)
      /\ r[Len(s) + 2] = NewStep("reflect", Len(s) + 1, s[i].left - 1)
  BY ReviseIs
<1>3. /\ \A k \in DOMAIN s : r[k] = c[k]
      /\ r[Len(s) + 1].retries = 0
      /\ r[Len(s) + 2].retries = 0
  <2> HIDE DEF c, r
  <2> QED BY <1>x DEF NewStep
<1> HIDE DEF c, r
<1>4. ASSUME NEW k \in Counted, k \in DOMAIN s
      PROVE  /\ n[k] <= r[k].retries + f + 1
             /\ r[k].status \notin {"completed", "skipped"} =>
                   n[k] <= r[k].retries + f
  BY <1>2, <1>3, <1>4 DEF CountOK
<1>5. ASSUME NEW k \in Counted, k \in DOMAIN r \ DOMAIN s
      PROVE  n[k] <= r[k].retries + f + 1 /\ n[k] <= r[k].retries + f
  <2>1. k = Len(s) + 1 \/ k = Len(s) + 2
    BY <1>1, <1>5
  <2>2. r[k].retries = 0
    BY <1>3, <2>1
  <2>3. n[k] = 0
    BY <1>5 DEF CountOK
  <2> QED
    BY <2>2, <2>3
<1>6. \A k \in Counted : k \notin DOMAIN r => n[k] = 0
  <2>1. DOMAIN s \subseteq DOMAIN r
    BY <1>1
  <2> QED
    BY <2>1 DEF CountOK
<1>7. CountOK(n, f, r, {})
  BY <1>4, <1>5, <1>6 DEF CountOK
<1> QED
  BY <1>7 DEF r

(* A step used up has failed, and then no further attempt is under way. *)
LEMMA CountBounds ==
    ASSUME NEW n \in [Counted -> Nat], NEW f \in Nat, NEW s \in Seq(StepRecord),
           NEW L, CountOK(n, f, s, L), StepsJustified(s),
           \A i \in DOMAIN s : i \in L => s[i].status # "failed"
    PROVE  \A i \in DOMAIN n : n[i] <= MaxRetries + 1 + f
<1> SUFFICES ASSUME NEW i \in Counted PROVE n[i] <= MaxRetries + 1 + f
  OBVIOUS
<1>1. CASE i \notin DOMAIN s
  BY <1>1, RetriesAssumption DEF CountOK
<1>2. CASE i \in DOMAIN s
  <2>1. n[i] \in Nat /\ s[i].retries \in Nat /\ StepJustified(s[i])
    BY <1>2, RetriesTyped DEF StepsJustified
  <2>2. CASE s[i].retries = MaxRetries + 1
    <3>1. s[i].status = "failed"
      BY <2>1, <2>2 DEF StepJustified
    <3>2. n[i] <= s[i].retries + f
      BY <1>2, <3>1 DEF CountOK
    <3> QED
      BY <2>2, <3>2
  <2>3. CASE s[i].retries # MaxRetries + 1
    <3>1. s[i].retries <= MaxRetries
      BY <2>1, <2>3, RetriesAssumption DEF StepJustified
    <3>2. n[i] <= s[i].retries + f + 1
      BY <1>2 DEF CountOK
    <3> QED
      BY <2>1, <3>1, <3>2, RetriesAssumption
  <2> QED
    BY <2>2, <2>3
<1> QED
  BY <1>1, <1>2

LEMMA LiveIs ==
    ASSUME TypeInv, NEW e \in Executors
    PROVE  /\ Live(e) = IF pc[e] = "join" THEN inflight[e]
                        ELSE IF pc[e] = "turn" THEN {cur[e]} ELSE {}
BY DEF TypeInv, IndicesOK, Live

(* A step of e, which holds the store, leaves what it has to leave. *)
LEMMA CountStep ==
    ASSUME CountInv, LockInv', SoundInv', NEW e \in Executors, Execute(e),
           Holds(e), left' = left,
           starts' = starts \/ (born /\ Working(e)'),
           Working(e)' => CountedBy(e)',
           ~Working(e)' /\ stored' # NoMission =>
              CountOK(starts, Faults, stored'.steps, {})
    PROVE  CountInv'
<1>1. /\ UNCHANGED <<born, answering, cancelling>>
      /\ \A f \in Executors \ {e} : pc'[f] = pc[f]
  BY ExecuteFrame DEF CountInv, LockInv
<1>2. /\ cancelling = NoMission
      /\ \A f \in Executors \ {e} : ~Working(f)'
  BY <1>1 DEF CountInv, LockInv, Exclusion, Holds, Working
<1>3. Faults' = Faults
  BY DEF Faults
<1>4. AttemptsBounded'
  <2>1. CASE starts' = starts
    BY <1>3, <2>1 DEF CountInv, AttemptsBounded, Faults
  <2>2. CASE Working(e)'
    <3>1. /\ starts' \in [Counted -> Nat]
          /\ copy'[e].steps \in Seq(StepRecord)
          /\ TypeInv'
      BY DEF LockInv, TypeInv, TypeOK, MissionRecord
    <3>2. StepsJustified(copy'[e].steps)
      BY DEF SoundInv, ExecutorSound, CopySound
    <3>3. CountOK(starts', Faults', copy'[e].steps, Live(e)')
      BY <2>2 DEF CountedBy, steps
    <3>4. \A i \in DOMAIN copy'[e].steps :
             i \in Live(e)' => copy'[e].steps[i].status # "failed"
      BY DEF Live, SoundInv, OrderInv, ExecutorOK, steps
    <3>5. Faults' \in Nat
      BY <1>3 DEF CountInv
    <3>6. \A i \in DOMAIN starts' : starts'[i] <= MaxRetries + 1 + Faults'
      BY <3>1, <3>2, <3>3, <3>4, <3>5, CountBounds
    <3> QED
      BY <3>6 DEF AttemptsBounded, Faults
  <2> QED
    BY <2>1, <2>2
<1>5. (\A f \in Executors : ~Working(f)') /\ stored' # NoMission =>
         CountOK(starts', Faults', stored'.steps, {})
  BY <1>3
<1>6. \A f \in Executors : Working(f)' => CountedBy(f)'
  BY <1>2
<1>7. ~born' => \A i \in Counted : starts'[i] = 0
  BY <1>1 DEF CountInv
<1> QED
  BY <1>1, <1>2, <1>3, <1>4, <1>5, <1>6, <1>7 DEF CountInv

LEMMA CountExecute ==
    ASSUME CountInv, LockInv', SoundInv', NEW e \in Executors, Execute(e),
           Holds(e)
    PROVE  CountInv'
<1> DEFINE s == steps(e)
           n == starts
           f == Faults
<1>1. /\ copy[e] \in MissionRecord
      /\ s \in Seq(StepRecord)
      /\ stored \in MissionRecord
      /\ stored.steps \in Seq(StepRecord)
      /\ n \in [Counted -> Nat] /\ f \in Nat
      /\ pc \in [Executors -> PCs]
      /\ copy \in [Executors -> MissionRecord]
      /\ cur \in [Executors -> Nat]
      /\ inflight \in [Executors -> SUBSET Nat]
      /\ pc[e] \in {"turn", "approval"} => cur[e] \in DOMAIN s
      /\ inflight[e] \subseteq DOMAIN s
      /\ s = copy[e].steps
      /\ TypeInv /\ TypeInv'
  BY DEF CountInv, LockInv, TypeInv, TypeOK, IndicesOK, steps, MissionRecord
<1>2. /\ Live(e) = IF pc[e] = "join" THEN inflight[e]
                   ELSE IF pc[e] = "turn" THEN {cur[e]} ELSE {}
      /\ Live(e)' = IF pc'[e] = "join" THEN inflight'[e]
                    ELSE IF pc'[e] = "turn" THEN {cur'[e]} ELSE {}
  <2>1. TypeInv => Live(e) = IF pc[e] = "join" THEN inflight[e]
                             ELSE IF pc[e] = "turn" THEN {cur[e]} ELSE {}
    BY LiveIs
  <2>2. TypeInv' => Live(e)' = IF pc'[e] = "join" THEN inflight'[e]
                               ELSE IF pc'[e] = "turn" THEN {cur'[e]} ELSE {}
    BY DEF TypeInv, IndicesOK, Live
  <2> QED
    BY <1>1, <2>1, <2>2
<1>3. Working(e) => /\ CountOK(n, f, s, Live(e))
                    /\ CountOK(n, f, stored.steps, DOMAIN stored.steps)
                    /\ pc[e] # "join" => stored.steps = s
                    /\ born
  BY DEF CountInv, CountedBy, LockInv, WorkingOK
<1>w. \A X : With(copy[e], X).steps = X
  BY <1>1 DEF With, MissionRecord
<1> HIDE DEF s, n, f
<1>t. n \in [Counted -> Nat] /\ f \in Nat /\ s \in Seq(StepRecord)
  BY <1>1
<1>f. left' = left => Faults' = f
  BY DEF Faults, f
(* The call returns with nothing under way and nothing to save. *)
<1>4. ASSUME Working(e), pc[e] \notin {"turn", "join"}, Return(e),
             UNCHANGED <<stored, starts, left>>
      PROVE  CountInv'
  <2>1. ~Working(e)'
    BY <1>1, <1>4 DEF Return, Goto, Working
  <2>2. CountOK(starts, Faults, stored'.steps, {})
    BY <1>2, <1>3, <1>4 DEF n, f
  <2> QED
    BY <1>4, <2>1, <2>2, CountStep
(* The call returns with the mission m saved. *)
<1>5. ASSUME NEW m, CountOK(n, f, m.steps, {}), SaveAndReturn(e, m),
             UNCHANGED <<starts, left>>
      PROVE  CountInv'
  <2>1. ~Working(e)' /\ stored' = m
    BY <1>1, <1>5 DEF SaveAndReturn, Return, Goto, Working
  <2> QED
    BY <1>5, <2>1, CountStep DEF n, f
(* The executor goes on, its copy saved unless it is joining. *)
<1>6. ASSUME Working(e), pc'[e] \notin {"idle", "open", "load"}, left' = left,
             CountOK(starts', f, copy'[e].steps, Live(e)'),
             \/ stored'.steps = copy'[e].steps
             \/ pc'[e] = "join" /\ UNCHANGED <<stored, starts>>
      PROVE  CountInv'
  <2>1. Working(e)'
    BY <1>6 DEF Working
  <2>2. CountOK(starts', f, stored'.steps, DOMAIN stored'.steps)
    <3>1. CASE stored'.steps = copy'[e].steps
      BY <1>6, <3>1, CountWeaker
    <3>2. CASE UNCHANGED <<stored, starts>>
      BY <1>3, <1>6, <3>2 DEF n
    <3> QED
      BY <1>6, <3>1, <3>2
  <2>3. pc'[e] # "join" => stored'.steps = copy'[e].steps
    BY <1>6
  <2>4. CountedBy(e)'
    BY <1>6, <1>f, <2>2, <2>3 DEF CountedBy, steps
  <2> QED
    BY <1>3, <1>6, <2>1, <2>4, CountStep
(* A sequential executor saves m and looks for the next step. *)
<1>7. ASSUME Working(e), NEW m, Checkpoint(e, m), Goto(e, "seq"),
             CountOK(n, f, m.steps, {}), UNCHANGED <<starts, left>>
      PROVE  CountInv'
  <2>1. pc'[e] = "seq"
    BY <1>1, <1>7 DEF Goto
  <2>2. copy'[e] = m /\ stored' = m
    BY <1>1, <1>7 DEF Checkpoint
  <2>3. CountOK(starts', f, copy'[e].steps, Live(e)')
    BY <1>2, <1>7, <2>1, <2>2 DEF n
  <2> QED
    BY <1>6, <1>7, <2>1, <2>2, <2>3
<1>8. CASE OpenStore(e)
  BY <1>8 DEF OpenStore, Holds
<1>9. CASE Load(e)
  <2>1. /\ pc[e] = "load"
        /\ UNCHANGED <<stored, starts, left>>
    BY <1>9 DEF Load
  <2>2. \A g \in Executors : ~Working(g)
    BY <2>1 DEF CountInv, LockInv, Exclusion, Holds, Working
  <2>3. stored # NoMission => CountOK(n, f, stored.steps, {})
    BY <2>2 DEF CountInv, n, f
  <2>4. CASE stored = NoMission \/ IsTerminal(stored.status)
    <3>1. ~Working(e)'
      BY <1>1, <1>9, <2>4 DEF Load, Return, Goto, Working
    <3> QED
      BY <2>1, <2>3, <3>1, CountStep DEF n, f
  <2>5. CASE ~(stored = NoMission \/ IsTerminal(stored.status))
    <3>1. /\ pc'[e] = "begin"
          /\ copy'[e] = [stored EXCEPT !.status = "executing"]
      BY <1>1, <1>9, <2>5 DEF Load, Goto
    <3>2. copy'[e].steps = stored.steps
      BY <1>1, <3>1, StatusTyped DEF TaskStatuses
    <3>3. Live(e)' = {}
      BY <1>2, <3>1
    <3>4. CountOK(n, f, stored.steps, DOMAIN stored.steps)
      BY <2>3, <2>5, CountWeaker
    <3>5. CountedBy(e)'
      BY <1>f, <2>1, <2>3, <2>5, <3>2, <3>3, <3>4 DEF CountedBy, steps, n
    <3> QED
      BY <2>1, <3>1, <3>5, CountStep DEF Working
  <2> QED
    BY <2>4, <2>5
<1>10. CASE Begin(e)
  <2>1. /\ pc[e] = "begin" /\ pc' = [pc EXCEPT ![e] = "dispatch"]
        /\ stored' = copy[e]
        /\ UNCHANGED <<copy, starts, left>>
    BY <1>10 DEF Begin, Goto, local
  <2>2. Working(e) /\ pc'[e] = "dispatch" /\ copy'[e] = copy[e]
    BY <1>1, <2>1 DEF Working
  <2>3. CountOK(starts', f, copy'[e].steps, Live(e)')
    BY <1>1, <1>2, <1>3, <2>1, <2>2 DEF n
  <2> QED
    BY <1>6, <2>1, <2>2, <2>3
<1>11. CASE Dispatch(e)
  <2>1. /\ pc[e] = "dispatch" /\ Working(e)
        /\ UNCHANGED <<stored, starts, left>>
    BY <1>11 DEF Dispatch, store, Working
  <2>2. CASE Return(e)
    BY <1>4, <2>1, <2>2
  <2>3. CASE ~Return(e)
    <3>1. PICK l \in {"seq", "dag"} :
             pc' = [pc EXCEPT ![e] = l] /\ copy' = copy
      BY <1>11, <2>3 DEF Dispatch, Goto
    <3>2. pc'[e] = l /\ copy'[e] = copy[e]
      BY <1>1, <3>1
    <3>3. CountOK(starts', f, copy'[e].steps, Live(e)')
      BY <1>1, <1>2, <1>3, <2>1, <3>2 DEF n
    <3>4. stored'.steps = copy'[e].steps
      BY <1>1, <1>3, <2>1, <3>2
    <3> QED
      BY <1>6, <2>1, <3>2, <3>3, <3>4
  <2> QED
    BY <2>2, <2>3
<1>12. CASE PanicOnTarget(e) \/ DagDeadlock(e)
  BY <1>4, <1>12 DEF PanicOnTarget, DagDeadlock, Stuck, store, Working
<1>13. CASE StartStep(e)
  <2>1. PICK i \in DOMAIN s :
           /\ i \in Unfinished(s)
           /\ Checkpoint(e, With(copy[e], Mark(s, {i}, "running")))
           /\ cur' = [cur EXCEPT ![e] = i]
           /\ Goto(e, IF IsApproval(e, i) THEN "approval" ELSE "turn")
           /\ Began({k \in {i} : ~IsApproval(e, k)})
    BY <1>13 DEF StartStep, Unfinished, s
  <2> DEFINE t == Mark(s, {i}, "running")
             m == With(copy[e], t)
             l == IF IsApproval(e, i) THEN "approval" ELSE "turn"
  <2>2. Changed(s, t, {i}, "running", 0)
    BY <1>1, MarkChanged DEF StepStatuses
  <2>3. s[i].status \notin {"completed", "skipped"}
    BY <2>1 DEF Unfinished
  <2>4. Working(e) /\ CountOK(n, f, s, {}) /\ left' = left
    BY <1>2, <1>3, <1>13 DEF StartStep, Working
  <2>5. pc'[e] = l /\ cur'[e] = i
    BY <1>1, <2>1 DEF Goto
  <2>6. copy'[e] = m /\ stored' = m
    BY <1>1, <2>1 DEF Checkpoint
  <2>7. m.steps = t
    BY <1>w
  <2> HIDE DEF t, m
  <2>8. CountOK(starts', f, t, Live(e)')
    <3>1. CASE IsApproval(e, i)
      <4>1. {k \in {i} : ~IsApproval(e, k)} = {}
        BY <3>1
      <4>2. Began({})
        BY <2>1, <4>1
      <4>3. starts' = n
        BY <1>1, <4>2 DEF Began, n
      <4>4. \A k \in DOMAIN s : t[k].status \notin {"completed", "skipped"} =>
               s[k].status \notin {"completed", "skipped"}
        BY <2>2, <2>3 DEF Changed
      <4>5. CountOK(n, f, t, {})
        BY <1>t, <2>2, <2>4, <4>4, CountChanged
      <4> QED
        BY <1>2, <2>5, <3>1, <4>3, <4>5
    <3>2. CASE ~IsApproval(e, i)
      <4>1. {k \in {i} : ~IsApproval(e, k)} = {i}
        BY <3>2
      <4>2. Began({i})
        BY <2>1, <4>1
      <4>3. starts' = [k \in DOMAIN n |-> IF k \in {i} THEN n[k] + 1 ELSE n[k]]
        BY <4>2 DEF Began, n
      <4>4. CountOK(starts', f, t, {i})
        BY <1>t, <2>2, <2>3, <2>4, <4>3, CountStarted
      <4> QED
        BY <1>2, <2>5, <3>2, <4>4
    <3> QED
      BY <3>1, <3>2
  <2>9. l \notin {"idle", "open", "load"}
    OBVIOUS
  <2> HIDE DEF l
  <2> QED
    BY <1>6, <2>4, <2>5, <2>6, <2>7, <2>8, <2>9
<1>14. CASE ResolveApproval(e)
  <2>1. /\ cur[e] \in DOMAIN s /\ Working(e)
        /\ s[cur[e]].status = "running"
        /\ CountOK(n, f, s, {})
        /\ Goto(e, "seq") /\ UNCHANGED <<starts, left>>
    BY <1>1, <1>2, <1>3, <1>14
    DEF ResolveApproval, Working, CountInv, SoundInv, OrderInv, ExecutorOK, s
  <2>2. CASE Approved(e)
    <3> DEFINE t == CompleteStep(s, cur[e], "approved")
    <3>1. Changed(s, t, {cur[e]}, "completed", 0)
      BY <1>1, <2>1, CompleteChanged
    <3>2. Checkpoint(e, With(copy[e], t))
      BY <1>14, <2>2 DEF ResolveApproval, s
    <3> HIDE DEF t
    <3>3. \A k \in DOMAIN s : t[k].status \notin {"completed", "skipped"} =>
             s[k].status \notin {"completed", "skipped"}
      BY <3>1 DEF Changed
    <3>4. CountOK(n, f, t, {})
      BY <1>t, <2>1, <3>1, <3>3, CountChanged
    <3> QED
      BY <1>7, <1>w, <2>1, <3>2, <3>4
  <2>3. CASE ~Approved(e)
    <3> DEFINE t == Mark(s, {cur[e]}, "failed")
               m == [status |-> "failed", steps |-> t]
    <3>1. Changed(s, t, {cur[e]}, "failed", 0)
      BY <1>1, MarkChanged DEF StepStatuses
    <3>2. Checkpoint(e, m)
      BY <1>14, <2>3 DEF ResolveApproval, s
    <3> HIDE DEF t
    <3>3. \A k \in DOMAIN s : t[k].status \notin {"completed", "skipped"} =>
             s[k].status \notin {"completed", "skipped"}
      <4>1. s[cur[e]].status = "running"
        BY <2>1
      <4> QED
        BY <3>1, <4>1 DEF Changed
    <3>4. CountOK(n, f, t, {})
      BY <1>t, <2>1, <3>1, <3>3, CountChanged
    <3>5. m.steps = t
      OBVIOUS
    <3> HIDE DEF m
    <3> QED
      BY <1>7, <2>1, <3>2, <3>4, <3>5
  <2> QED
    BY <2>2, <2>3
(* What holds at the end of a turn. *)
<1>15. pc[e] = "turn" => /\ cur[e] \in DOMAIN s /\ Working(e)
                         /\ CountOK(n, f, s, {cur[e]})
  BY <1>1, <1>2, <1>3 DEF Working
<1>16. CASE TurnCompletes(e)
  <2> DEFINE t == CompleteStep(s, cur[e], "text")
  <2>1. /\ pc[e] = "turn" /\ Goto(e, "seq") /\ UNCHANGED <<starts, left>>
        /\ Checkpoint(e, With(copy[e], t))
    BY <1>16 DEF TurnCompletes, s
  <2>2. Changed(s, t, {cur[e]}, "completed", 0)
    BY <1>1, <1>15, <2>1, CompleteChanged
  <2> HIDE DEF t
  <2>3. \A k \in DOMAIN s : t[k].status \notin {"completed", "skipped"} =>
           k \notin {cur[e]} /\ s[k].status \notin {"completed", "skipped"}
    BY <2>2 DEF Changed
  <2>4. CountOK(n, f, t, {})
    BY <1>t, <1>15, <2>1, <2>2, <2>3, CountChanged
  <2> QED
    BY <1>7, <1>15, <1>w, <2>1, <2>4
<1>17. CASE TurnRejects(e)
  <2> DEFINE t == Revise(s, cur[e])
  <2>1. /\ pc[e] = "turn" /\ Goto(e, "seq") /\ UNCHANGED <<starts, left>>
        /\ Checkpoint(e, With(copy[e], t))
        /\ s[cur[e]].left > 0
    BY <1>17 DEF TurnRejects, MayRevise, s
  <2>2. CountOK(n, f, t, {})
    BY <1>1, <1>15, <2>1, CountRevised
  <2> HIDE DEF t
  <2> QED
    BY <1>7, <1>15, <1>w, <2>1, <2>2
<1>19. CASE TurnFails(e)
  <2>1. pc[e] = "turn" /\ UNCHANGED <<starts, left>>
    BY <1>19 DEF TurnFails
  <2>2. CASE Exhausted(s[cur[e]])
    <3> DEFINE t == FailStep(s, cur[e])
               m == [status |-> "failed", steps |-> t]
    <3>1. Changed(s, t, {cur[e]}, "failed", 1)
      BY <1>1, <1>15, <2>1, FailChanged
    <3>2. SaveAndReturn(e, m)
      BY <1>19, <2>2 DEF TurnFails, s
    <3> HIDE DEF t
    <3>3. CountOK(n, f, t, {cur[e]} \ {cur[e]})
      BY <1>15, <1>t, <2>1, <3>1, CountFailed
    <3>4. m.steps = t /\ {cur[e]} \ {cur[e]} = {}
      OBVIOUS
    <3> HIDE DEF m
    <3> QED
      BY <1>5, <2>1, <3>2, <3>3, <3>4
  <2>3. CASE ~Exhausted(s[cur[e]])
    <3> DEFINE t == RetryStep(s, cur[e])
    <3>1. Changed(s, t, {cur[e]}, "pending", 1)
      BY <1>1, <1>15, <2>1, RetryChanged
    <3>2. Checkpoint(e, With(copy[e], t)) /\ Goto(e, "seq")
      BY <1>19, <2>3 DEF TurnFails, s
    <3> HIDE DEF t
    <3>3. CountOK(n, f, t, {cur[e]} \ {cur[e]})
      BY <1>15, <1>t, <2>1, <3>1, CountFailed
    <3>4. {cur[e]} \ {cur[e]} = {}
      OBVIOUS
    <3> QED
      BY <1>7, <1>15, <1>w, <2>1, <3>2, <3>3, <3>4
  <2> QED
    BY <2>2, <2>3
<1>20. CASE FinishSequential(e) \/ FinishDag(e) \/ FailDag(e)
  <2>1. PICK st \in {"completed", "failed"} :
           SaveAndReturn(e, [copy[e] EXCEPT !.status = st])
    BY <1>20 DEF FinishSequential, FinishDag, FailDag
  <2>2. /\ pc[e] \in {"seq", "dag", "dagfail"} /\ UNCHANGED <<starts, left>>
    BY <1>20 DEF FinishSequential, FinishDag, FailDag
  <2> DEFINE m == [copy[e] EXCEPT !.status = st]
  <2>3. m.steps = s
    BY <1>1, StatusTyped DEF TaskStatuses
  <2>4. CountOK(n, f, s, {})
    BY <1>2, <1>3, <2>2 DEF Working
  <2>5. SaveAndReturn(e, m)
    BY <2>1
  <2> HIDE DEF m
  <2> QED
    BY <1>5, <2>2, <2>3, <2>4, <2>5
<1>21. CASE StartBatch(e)
  <2> DEFINE S == Ready(s)
             t == Mark(s, S, "running")
             m == With(copy[e], t)
  <2>1. Changed(s, t, S, "running", 0)
    BY <1>1, MarkChanged DEF StepStatuses
  <2>2. S \subseteq DOMAIN s /\ \A i \in S : s[i].status = "pending"
    BY DEF Ready
  <2>3. /\ pc[e] = "dag" /\ pc' = [pc EXCEPT ![e] = "join"]
        /\ Checkpoint(e, m)
        /\ inflight' = [inflight EXCEPT ![e] = S]
        /\ Began(S) /\ left' = left
    BY <1>21 DEF StartBatch, Goto, s
  <2>4. m.steps = t
    BY <1>w
  <2> HIDE DEF S, t, m
  <2>5. /\ pc'[e] = "join" /\ Live(e)' = S /\ Working(e)
        /\ copy'[e] = m /\ stored' = m
    BY <1>1, <1>2, <2>3 DEF Working, Checkpoint
  <2>6. starts' = [k \in DOMAIN n |-> IF k \in S THEN n[k] + 1 ELSE n[k]]
    BY <2>3 DEF Began, n
  <2>7. CountOK(n, f, s, {})
    BY <1>2, <1>3, <2>3, <2>5
  <2>8. CountOK(starts', f, t, S)
    BY <1>t, <2>1, <2>2, <2>6, <2>7, CountStarted
  <2> QED
    BY <1>6, <2>3, <2>4, <2>5, <2>8
<1>22. ASSUME NEW i \in inflight[e], JoinOk(e, i) \/ JoinErr(e, i)
       PROVE  CountInv'
  <2>1. /\ pc[e] = "join" /\ pc' = [pc EXCEPT ![e] = pc[e]]
        /\ inflight' = [inflight EXCEPT ![e] = inflight[e] \ {i}]
        /\ UNCHANGED <<stored, starts, left>>
    BY <1>1, <1>22 DEF JoinOk, JoinErr, store
  <2>2. /\ i \in DOMAIN s /\ Working(e)
        /\ CountOK(n, f, s, inflight[e])
    BY <1>1, <1>2, <1>3, <1>22, <2>1 DEF Working
  <2>3. Live(e)' = inflight[e] \ {i} /\ pc'[e] = "join"
    BY <1>1, <1>2, <2>1
  <2>4. PICK t : /\ CountOK(n, f, t, inflight[e] \ {i})
                 /\ copy' = [copy EXCEPT ![e] = With(copy[e], t)]
    <3>1. CASE JoinOk(e, i)
      <4> DEFINE t == CompleteStep(s, i, "text")
      <4>1. Changed(s, t, {i}, "completed", 0)
        BY <1>1, <2>2, CompleteChanged
      <4>2. copy' = [copy EXCEPT ![e] = With(copy[e], t)]
        BY <3>1 DEF JoinOk, s
      <4> HIDE DEF t
      <4>3. \A k \in DOMAIN s \ (inflight[e] \ {i}) :
               t[k].status \notin {"completed", "skipped"} =>
                  /\ k \notin inflight[e]
                  /\ s[k].status \notin {"completed", "skipped"}
        BY <4>1 DEF Changed
      <4>4. CountOK(n, f, t, inflight[e] \ {i})
        BY <1>t, <2>2, <4>1, <4>3, CountChanged
      <4> QED
        BY <4>2, <4>4
    <3>2. CASE JoinErr(e, i) /\ ~Exhausted(s[i])
      <4> DEFINE t == RetryStep(s, i)
      <4>1. Changed(s, t, {i}, "pending", 1)
        BY <1>1, <2>2, RetryChanged
      <4>2. copy' = [copy EXCEPT ![e] = With(copy[e], t)]
        BY <3>2 DEF JoinErr, s
      <4> HIDE DEF t
      <4>3. CountOK(n, f, t, inflight[e] \ {i})
        BY <1>t, <2>2, <4>1, CountFailed
      <4> QED
        BY <4>2, <4>3
    <3>3. CASE JoinErr(e, i) /\ Exhausted(s[i])
      <4> DEFINE g == FailStep(s, i)
                 S == {j \in Downstream(g, i) \ {i} :
                          g[j].status \in {"pending", "running"}}
                 t == Mark(g, S, "skipped")
      <4>1. Changed(s, g, {i}, "failed", 1)
        BY <1>1, <2>2, FailChanged
      <4>2. g \in Seq(StepRecord)
        BY <1>1, <2>2, FailShape DEF SameShape
      <4>3. copy' = [copy EXCEPT ![e] = With(copy[e], t)]
        BY <3>3 DEF JoinErr, SkipDownstream, s
      <4> HIDE DEF g, S
      <4>4. CountOK(n, f, g, inflight[e] \ {i})
        BY <1>t, <2>2, <4>1, CountFailed
      <4>5. Changed(g, t, S, "skipped", 0)
        BY <4>2, MarkChanged DEF StepStatuses
      <4> HIDE DEF t
      <4>6. \A k \in DOMAIN g \ (inflight[e] \ {i}) :
               t[k].status \notin {"completed", "skipped"} =>
                  /\ k \notin inflight[e] \ {i}
                  /\ g[k].status \notin {"completed", "skipped"}
        BY <4>5 DEF Changed
      <4>7. CountOK(n, f, t, inflight[e] \ {i})
        BY <1>t, <4>2, <4>4, <4>5, <4>6, CountChanged
      <4> QED
        BY <4>3, <4>7
    <3> QED
      BY <1>22, <3>1, <3>2, <3>3
  <2> DEFINE m == With(copy[e], t)
  <2>5. m.steps = t /\ copy'[e] = m
    BY <1>1, <1>w, <2>4
  <2> HIDE DEF m
  <2>6. CountOK(starts', f, copy'[e].steps, Live(e)')
    BY <2>1, <2>3, <2>4, <2>5 DEF n
  <2> QED
    BY <1>6, <2>1, <2>2, <2>3, <2>6
<1>23. CASE SaveBatch(e)
  <2>1. PICK l \in {"dag", "dagfail"} : pc' = [pc EXCEPT ![e] = l]
    BY <1>23 DEF SaveBatch, Goto
  <2>2. /\ pc[e] = "join" /\ inflight[e] = {} /\ stored' = copy[e]
        /\ UNCHANGED <<copy, starts, left>>
    BY <1>23 DEF SaveBatch, local
  <2>3. Working(e) /\ pc'[e] = l /\ copy'[e] = copy[e]
    BY <1>1, <2>1, <2>2 DEF Working
  <2>4. CountOK(starts', f, copy'[e].steps, Live(e)')
    BY <1>1, <1>2, <1>3, <2>2, <2>3 DEF n
  <2> QED
    BY <1>6, <2>2, <2>3, <2>4
<1> QED
  BY <1>8, <1>9, <1>10, <1>11, <1>12, <1>13, <1>14, <1>16, <1>17, <1>19, <1>20,
     <1>21, <1>22, <1>23 DEF Execute

(* A fault pays for what its end of a call loses; another handler pays     *)
(* nothing.                                                                *)
LEMMA Spent ==
    ASSUME CountInv, NEW h \in Handlers, Spend(h)
    PROVE  Faults' = IF h = "fault" THEN Faults + 1 ELSE Faults
<1>1. left \in [Handlers -> Nat] /\ "fault" \in Handlers
  BY DEF CountInv, LockInv, TypeInv, TypeOK, Handlers
<1>2. left' = [left EXCEPT ![h] = left[h] - 1]
  BY DEF Spend
<1>3. Budget["fault"] \in Nat /\ left["fault"] \in Nat
  BY <1>1, BudgetAssumption
<1>4. left'["fault"] = IF h = "fault" THEN left["fault"] - 1 ELSE left["fault"]
  BY <1>1, <1>2
<1> QED
  BY <1>3, <1>4 DEF Faults

(* What holds with f faults holds with one more. *)
LEMMA CountMore ==
    ASSUME NEW n \in [Counted -> Nat], NEW f \in Nat, NEW s \in Seq(StepRecord),
           NEW L, CountOK(n, f, s, L)
    PROVE  CountOK(n, f + 1, s, L)
<1> SUFFICES ASSUME NEW i \in Counted
             PROVE  /\ i \notin DOMAIN s => n[i] = 0
                    /\ i \in DOMAIN s => n[i] <= s[i].retries + (f + 1) + 1
                    /\ i \in DOMAIN s \ L /\ s[i].status \notin {"completed", "skipped"} =>
                          n[i] <= s[i].retries + (f + 1)
  BY DEF CountOK
<1>1. /\ i \notin DOMAIN s => n[i] = 0
      /\ i \in DOMAIN s => n[i] <= s[i].retries + f + 1
      /\ i \in DOMAIN s \ L /\ s[i].status \notin {"completed", "skipped"} =>
            n[i] <= s[i].retries + f
  BY DEF CountOK
<1>2. n[i] \in Nat /\ (i \in DOMAIN s => s[i].retries \in Nat)
  BY RetriesTyped
<1> QED
  BY <1>1, <1>2

(* Nothing is attempted or saved, and a call that ends with its work       *)
(* unsaved ends by a fault.                                                *)
LEMMA CountKept ==
    ASSUME CountInv, LockInv', SoundInv',
           UNCHANGED <<stored, born, starts>>,
           cancelling' \in {cancelling, NoMission},
           \/ Faults' = Faults + 1
           \/ Faults' = Faults /\ \A e \in Executors : Working(e) => Working(e)',
           \A e \in Executors : Working(e)' =>
              Working(e) /\ UNCHANGED <<pc[e], copy[e], Live(e)>>
    PROVE  CountInv'
<1>1. /\ starts \in [Counted -> Nat] /\ Faults \in Nat
      /\ stored.steps \in Seq(StepRecord)
      /\ cancelling.steps \in Seq(StepRecord)
      /\ \A e \in Executors : steps(e) \in Seq(StepRecord)
  BY DEF CountInv, LockInv, TypeInv, TypeOK, MissionRecord, steps
<1>2. \A s \in Seq(StepRecord) : \A L :
         CountOK(starts, Faults, s, L) => CountOK(starts, Faults', s, L)
  BY <1>1, CountMore
<1>3. AttemptsBounded'
  <2>1. Faults' \in {Faults, Faults + 1}
    OBVIOUS
  <2>2. \A i \in Counted : /\ starts[i] \in Nat
                           /\ starts[i] <= MaxRetries + 1 + Faults
    BY <1>1 DEF CountInv, AttemptsBounded, Faults
  <2>3. \A i \in Counted : starts[i] <= MaxRetries + 1 + Faults'
    BY <1>1, <2>1, <2>2, RetriesAssumption
  <2>4. DOMAIN starts' = Counted /\ starts' = starts
    BY <1>1
  <2> QED
    BY <2>3, <2>4 DEF AttemptsBounded, Faults
<1>4. cancelling' # NoMission => CountOK(starts', Faults', cancelling'.steps, {})
  BY <1>1, <1>2 DEF CountInv
<1>5. stored' # NoMission /\ (\A e \in Executors : ~Working(e)') =>
         CountOK(starts', Faults', stored'.steps, {})
  <2> SUFFICES ASSUME stored # NoMission, \A e \in Executors : ~Working(e)'
               PROVE  CountOK(starts, Faults', stored.steps, {})
    OBVIOUS
  <2>1. CASE \A e \in Executors : ~Working(e)
    BY <1>1, <1>2, <2>1 DEF CountInv
  <2>2. CASE Faults' = Faults + 1 /\ \E e \in Executors : Working(e)
    <3>1. CountOK(starts, Faults, stored.steps, DOMAIN stored.steps)
      BY <2>2 DEF CountInv, CountedBy
    <3> QED
      BY <1>1, <2>2, <3>1, CountFault
  <2> QED
    BY <2>1, <2>2
<1>6. ASSUME NEW e \in Executors, Working(e)'
      PROVE  CountedBy(e)'
  <2>1. /\ CountOK(starts, Faults, steps(e), Live(e))
        /\ CountOK(starts, Faults, stored.steps, DOMAIN stored.steps)
        /\ pc[e] # "join" => stored.steps = steps(e)
    BY <1>6 DEF CountInv, CountedBy
  <2>2. /\ CountOK(starts, Faults', steps(e), Live(e))
        /\ CountOK(starts, Faults', stored.steps, DOMAIN stored.steps)
    BY <1>1, <1>2, <2>1
  <2>3. UNCHANGED <<pc[e], copy[e], Live(e), stored, starts>>
    BY <1>6
  <2> QED
    BY <2>1, <2>2, <2>3 DEF CountedBy, steps
<1>7. Faults' \in Nat
  BY <1>1
<1>8. ~born' => \A i \in Counted : starts'[i] = 0
  BY DEF CountInv
<1> QED
  BY <1>3, <1>4, <1>5, <1>6, <1>7, <1>8 DEF CountInv

(* A handler that opened the store rewrites the mission or draws one up. *)
LEMMA CountHandled ==
    ASSUME CountInv, LockInv', SoundInv', starts' = starts, Faults' = Faults,
           \A e \in Executors : ~Working(e)',
           stored' # NoMission => CountOK(starts, Faults, stored'.steps, {}),
           cancelling' # NoMission =>
              CountOK(starts, Faults, cancelling'.steps, {}),
           born' \/ born' = born
    PROVE  CountInv'
<1>1. AttemptsBounded'
  BY DEF CountInv, AttemptsBounded, Faults
<1>2. Faults' \in Nat /\ (~born' => \A i \in Counted : starts'[i] = 0)
  BY DEF CountInv
<1> QED
  BY <1>1, <1>2 DEF CountInv

LEMMA CountNext ==
    ASSUME StoreIsExclusive, StreamsOnlySequential, CountInv, [Next]_vars
    PROVE  CountInv'
<1>1. LockInv' /\ SoundInv'
  BY LockNext, SoundNext DEF CountInv
<1>2. /\ starts \in [Counted -> Nat] /\ Faults \in Nat
      /\ stored.steps \in Seq(StepRecord)
      /\ stored'.steps \in Seq(StepRecord)
      /\ pc \in [Executors -> PCs] /\ copy \in [Executors -> MissionRecord]
      /\ cur \in [Executors -> Nat] /\ inflight \in [Executors -> SUBSET Nat]
      /\ "cancel" \in Handlers /\ "resume" \in Handlers
      /\ "delete" \in Handlers /\ "fault" \in Handlers
  BY <1>1 DEF CountInv, LockInv, TypeInv, TypeOK, MissionRecord, Handlers
<1>3. left' = left => Faults' = Faults
  BY DEF Faults
<1>4. Free => \A e \in Executors : ~Holds(e) /\ ~Working(e)
  BY DEF Free, Holds, Working
<1>5. ASSUME NEW e \in Executors, NEW c \in Creators, Create(e, c)
      PROVE  CountInv'
  <2>1. /\ Free /\ Launch(e, c) /\ ~born /\ born'
        /\ UNCHANGED <<cancelling, starts, left>>
    BY <1>5 DEF Create
  <2>2. \A g \in Executors : ~Working(g)'
    BY <1>2, <1>4, <2>1 DEF Launch, Goto, Working
  <2>3. CountOK(starts, Faults, stored'.steps, {})
    <3>1. \A i \in Counted : starts[i] = 0
      BY <2>1 DEF CountInv
    <3>2. \A i \in DOMAIN stored'.steps : stored'.steps[i].retries \in Nat
      BY <1>2, RetriesTyped
    <3> QED
      BY <1>2, <3>1, <3>2 DEF CountOK
  <2>4. cancelling = NoMission
    BY <2>1 DEF Free
  <2> QED
    BY <1>1, <1>3, <2>1, <2>2, <2>3, <2>4, CountHandled
<1>6. ASSUME NEW e \in Executors, NEW c \in Resumers, Resume(e, c)
      PROVE  CountInv'
  <2>1. /\ Free /\ Launch(e, c) /\ Spend("resume")
        /\ UNCHANGED <<stored, born, cancelling, starts>>
    BY <1>6 DEF Resume
  <2>2. \A g \in Executors : ~Working(g)' /\ ~Working(g)
    BY <1>2, <1>4, <2>1 DEF Launch, Goto, Working
  <2>3. Faults' = Faults
    BY <1>2, <2>1, Spent
  <2> QED
    BY <1>1, <2>1, <2>2, <2>3, CountKept
<1>7. ASSUME NEW e \in Executors, Execute(e)
      PROVE  CountInv'
  <2>1. CASE Holds(e)
    BY <1>1, <1>7, <2>1, CountExecute
  <2>2. CASE ~Holds(e)
    <3>1. pc[e] = "open" /\ OpenStore(e)
      <4>1. pc[e] = "open"
        BY <1>7, <2>2, ExecuteFrame DEF CountInv, LockInv
      <4>2. inflight[e] = {}
        BY <4>1 DEF CountInv, LockInv, TypeInv, IndicesOK
      <4>3. /\ ~Load(e) /\ ~Begin(e) /\ ~Dispatch(e)
            /\ ~TurnCompletes(e) /\ ~TurnRejects(e) /\ ~TurnFails(e)
        BY <4>1
        DEF Load, Begin, Dispatch, TurnCompletes, TurnRejects, TurnFails
      <4>4. ~StartStep(e) /\ ~PanicOnTarget(e) /\ ~ResolveApproval(e)
        BY <4>1 DEF StartStep, PanicOnTarget, ResolveApproval
      <4>5. /\ ~FinishSequential(e) /\ ~StartBatch(e) /\ ~SaveBatch(e)
            /\ ~FailDag(e) /\ ~FinishDag(e) /\ ~DagDeadlock(e)
        BY <4>1
        DEF FinishSequential, StartBatch, SaveBatch, FailDag, FinishDag,
            DagDeadlock, Stuck
      <4> QED
        BY <1>7, <4>1, <4>2, <4>3, <4>4, <4>5 DEF Execute
    <3>2. UNCHANGED <<stored, born, cancelling, starts, left>>
      BY <3>1 DEF OpenStore, store
    <3>3. /\ pc'[e] \in {"load", "idle"}
          /\ \A g \in Executors \ {e} :
                UNCHANGED <<pc[g], copy[g], cur[g], inflight[g]>>
      BY <1>2, <3>1 DEF OpenStore, Goto, Return
    <3>4. \A g \in Executors : Working(g)' <=> Working(g)
      BY <3>1, <3>3 DEF Working
    <3>5. \A g \in Executors : Working(g)' => g # e
      BY <3>3 DEF Working
    <3>6. \A g \in Executors \ {e} : Live(g)' = Live(g)
      BY <3>3 DEF Live
    <3> QED
      BY <1>1, <1>3, <3>2, <3>3, <3>4, <3>5, <3>6, CountKept
  <2> QED
    BY <2>1, <2>2
<1>8. ASSUME NEW e \in Executors, Abort(e)
      PROVE  CountInv'
  <2>1. /\ UNCHANGED <<stored, born, cancelling, starts>>
        /\ Spend("fault") /\ Return(e)
    BY <1>8 DEF Abort, store
  <2>2. /\ pc'[e] = "idle"
        /\ \A g \in Executors \ {e} :
              UNCHANGED <<pc[g], copy[g], cur[g], inflight[g]>>
    BY <1>2, <2>1 DEF Goto, Return
  <2>3. \A g \in Executors : Working(g)' => g # e /\ Working(g)
    BY <2>2 DEF Working
  <2>4. \A g \in Executors \ {e} : Live(g)' = Live(g)
    BY <2>2 DEF Live
  <2>5. Faults' = Faults + 1
    BY <1>2, <2>1, Spent
  <2> QED
    BY <1>1, <2>1, <2>2, <2>3, <2>4, <2>5, CountKept
<1>9. CASE Crash
  <2>1. /\ UNCHANGED <<stored, born, starts>>
        /\ cancelling' = NoMission /\ Spend("fault")
        /\ \A e \in Executors : ~Working(e)'
    BY <1>9 DEF Crash, Working
  <2>2. Faults' = Faults + 1
    BY <1>2, <2>1, Spent
  <2> QED
    BY <1>1, <2>1, <2>2, CountKept
<1>10. CASE CancelLoad
  <2> DEFINE s == stored.steps
             S == {i \in DOMAIN s : s[i].status \in {"pending", "running"}}
             t == CancelSteps(s)
  <2>1. /\ UNCHANGED <<stored, born, pc, starts>>
        /\ Spend("cancel") /\ Free /\ stored # NoMission
        /\ cancelling' = [status |-> "cancelled", steps |-> t]
    BY <1>10 DEF CancelLoad, store, local
  <2>2. \A e \in Executors : ~Working(e) /\ ~Working(e)'
    BY <1>4, <2>1 DEF Working
  <2>3. CountOK(starts, Faults, s, {})
    BY <2>1, <2>2 DEF CountInv
  <2>4. Changed(s, t, S, "skipped", 0)
    BY <1>2, MarkChanged DEF CancelSteps, StepStatuses
  <2>5. cancelling'.steps = t
    BY <2>1
  <2> HIDE DEF s, t, S
  <2>6. \A i \in DOMAIN s : t[i].status \notin {"completed", "skipped"} =>
           s[i].status \notin {"completed", "skipped"}
    BY <2>4 DEF Changed
  <2>7. CountOK(starts, Faults, t, {})
    <3>1. /\ starts \in [Counted -> Nat] /\ Faults \in Nat
          /\ s \in Seq(StepRecord)
      BY <1>2 DEF s
    <3> QED
      BY <2>3, <2>4, <2>6, <3>1, CountChanged
  <2>8. Faults' = Faults
    BY <1>2, <2>1, Spent
  <2> QED
    BY <1>1, <2>1, <2>2, <2>3, <2>5, <2>7, <2>8, CountHandled DEF s
<1>11. CASE CancelSave
  <2>1. /\ UNCHANGED <<born, pc, starts, left>>
        /\ cancelling # NoMission /\ cancelling' = NoMission
        /\ stored' = cancelling
    BY <1>11 DEF CancelSave
  <2>2. \A e \in Executors : ~Working(e)'
    BY <2>1 DEF CountInv, LockInv, Exclusion, Holds, Working
  <2>3. CountOK(starts, Faults, stored'.steps, {})
    BY <2>1 DEF CountInv
  <2> QED
    BY <1>1, <1>3, <2>1, <2>2, <2>3, CountHandled
<1>12. CASE Delete
  <2>1. /\ UNCHANGED <<born, pc, cancelling, starts>>
        /\ stored' = NoMission /\ Free /\ Spend("delete")
    BY <1>12 DEF Delete, local
  <2>2. \A e \in Executors : ~Working(e)'
    BY <1>4, <2>1 DEF Working
  <2>3. Faults' = Faults /\ cancelling = NoMission
    BY <1>2, <2>1, Spent DEF Free
  <2> QED
    BY <1>1, <2>1, <2>2, <2>3, CountHandled
<1>13. CASE Restart \/ Answer \/ UNCHANGED vars
  <2>1. UNCHANGED <<stored, born, pc, copy, cur, inflight, cancelling, starts,
                    left>>
    BY <1>13 DEF Restart, Answer, vars, local
  <2>2. \A e \in Executors : /\ Working(e)' <=> Working(e)
                             /\ UNCHANGED <<pc[e], copy[e], Live(e)>>
    BY <2>1 DEF Working, Live
  <2> QED
    BY <1>1, <1>3, <2>1, <2>2, CountKept
<1> QED
  BY <1>5, <1>6, <1>7, <1>8, <1>9, <1>10, <1>11, <1>12, <1>13 DEF Next

(* Where an open handle keeps others out of the task store, a step is      *)
(* attempted at most max_step_retries + 1 times and once more for each     *)
(* fault, whatever is resumed, cancelled, crashed and resumed again,       *)
(* provided execute_mission_stream is not given a DAG.                     *)
THEOREM AttemptsCorrect ==
    ASSUME StoreIsExclusive, StreamsOnlySequential
    PROVE  Spec => []AttemptsBounded
<1>1. Init => CountInv
  <2> SUFFICES ASSUME Init PROVE CountInv
    OBVIOUS
  <2>1. LockInv
    BY LockInit
  <2>2. SoundInv
    BY OrderInit, NoMissionSound DEF Init, SoundInv, ExecutorSound
  <2>3. Faults = 0
    <3>1. left = Budget /\ Budget["fault"] \in Nat
      BY BudgetAssumption DEF Init, Handlers
    <3> QED
      BY <3>1 DEF Faults
  <2>4. /\ starts = [i \in Counted |-> 0]
        /\ stored = NoMission /\ cancelling = NoMission
        /\ \A e \in Executors : ~Working(e)
    BY DEF Init, Working
  <2>5. AttemptsBounded
    BY <2>3, <2>4, RetriesAssumption DEF AttemptsBounded, Faults
  <2> QED
    BY <2>1, <2>2, <2>3, <2>4, <2>5 DEF CountInv
<1>2. CountInv /\ [Next]_vars => CountInv'
  BY CountNext
<1>3. CountInv => AttemptsBounded
  BY DEF CountInv
<1> QED
  BY <1>1, <1>2, <1>3, PTL DEF Spec

-----------------------------------------------------------------------------
(* What an agent is told.  Every step of the protocol is one of the engine *)
(* or leaves it alone, so what is proved of the engine holds of it, too.   *)

LEMMA ProtocolStep == [ProtocolNext]_allVars => [Next]_vars
<1> SUFFICES ASSUME [ProtocolNext]_allVars PROVE [Next]_vars
  OBVIOUS
<1>1. ASSUME NEW e \in Executors, TasksSend(e) \/ ResumeTask(e)
      PROVE  Next
  BY <1>1 DEF TasksSend, ResumeTask, Next
<1>2. ASSUME NEW e \in Executors, SendSubscribe(e)
      PROVE  \E c \in Creators : Create(e, c)
  BY <1>2, AgentAssumption DEF SendSubscribe
<1>3. ASSUME NEW e \in Executors, Perform(e) \/ PerformAborts(e)
      PROVE  Next
  BY <1>3 DEF Perform, PerformAborts, Next
<1>4. CASE TasksCancel \/ Others \/ CrashWithStreams
  BY <1>4 DEF TasksCancel, Others, CrashWithStreams, Next
<1>5. ASSUME NEW e \in Executors, TellSubmitted(e)
      PROVE  UNCHANGED vars
  BY <1>5 DEF TellSubmitted
<1>6. CASE PushNotificationSet \/ PushNotificationDelete \/ UNCHANGED allVars
  BY <1>6 DEF PushNotificationSet, PushNotificationDelete, allVars
<1> QED
  BY <1>1, <1>2, <1>3, <1>4, <1>5, <1>6 DEF ProtocolNext, Next

(* Missions that other agents create, follow and cancel are missions of    *)
(* the engine: the protocol adds no step to theirs.                        *)
THEOREM ProtocolImplementsEngine == ProtocolSpec => Spec
<1>1. ProtocolInit => Init
  BY DEF ProtocolInit
<1>2. [ProtocolNext]_allVars => [Next]_vars
  BY ProtocolStep
<1> QED
  BY <1>1, <1>2, PTL DEF ProtocolSpec, Spec

Ended == stored = NoMission \/ IsTerminal(stored.status)

(* Who has loaded the mission has one: nobody deletes it meanwhile. *)
Present ==
    /\ \A e \in Executors : Working(e) => stored # NoMission
    /\ cancelling # NoMission => stored # NoMission

(* What a step of an executor may leave in the store. *)
LEMMA ExecuteStores ==
    ASSUME LockInv, NEW e \in Executors, Execute(e)
    PROVE  \/ stored' = stored
           \/ Working(e) /\ stored'.status \in {"executing", "failed", "completed"}
<1> USE DEF Working, Checkpoint, SaveAndReturn, With, store
<1>1. copy[e] \in MissionRecord /\ pc \in [Executors -> PCs]
  BY DEF LockInv, TypeInv, TypeOK
<1>2. Working(e) => copy[e].status \in {"executing", "failed"}
  BY DEF LockInv, WorkingOK
<1>3. CASE OpenStore(e) \/ Load(e) \/ Dispatch(e) \/ PanicOnTarget(e) \/ DagDeadlock(e)
  BY <1>3 DEF OpenStore, Load, Dispatch, PanicOnTarget, DagDeadlock
<1>4. CASE Begin(e) \/ SaveBatch(e)
  BY <1>2, <1>4 DEF Begin, SaveBatch
<1>5. ASSUME NEW s, stored' = [copy[e] EXCEPT !.steps = s], Working(e)
      PROVE  stored'.status \in {"executing", "failed"}
  BY <1>1, <1>2, <1>5 DEF MissionRecord
<1>6. CASE StartStep(e) \/ TurnCompletes(e) \/ TurnRejects(e) \/ StartBatch(e)
  BY <1>5, <1>6 DEF StartStep, TurnCompletes, TurnRejects, StartBatch
<1>7. CASE ResolveApproval(e) \/ TurnFails(e)
  BY <1>5, <1>7 DEF ResolveApproval, TurnFails
<1>8. CASE FinishSequential(e) \/ FailDag(e) \/ FinishDag(e)
  BY <1>1, <1>8 DEF FinishSequential, FailDag, FinishDag, MissionRecord
<1>9. CASE \E i \in inflight[e] : JoinOk(e, i) \/ JoinErr(e, i)
  BY <1>9 DEF JoinOk, JoinErr
<1> QED
  BY <1>3, <1>4, <1>6, <1>7, <1>8, <1>9 DEF Execute

(* A mission that is gone stays gone once its id is known. *)
GoneKept == born /\ stored = NoMission => stored' = NoMission

LEMMA PresentNext ==
    ASSUME StoreIsExclusive, LockInv, Present, [Next]_vars
    PROVE  Present' /\ GoneKept
<1>1. LockInv' /\ TypeInv
  BY LockNext DEF LockInv
<1>2. /\ pc \in [Executors -> PCs] /\ stored \in MissionRecord
      /\ copy \in [Executors -> MissionRecord]
  BY <1>1 DEF TypeInv, TypeOK
<1>3. ASSUME NEW e \in Executors,
             \/ \E c \in Creators : Create(e, c)
             \/ \E c \in Resumers : Resume(e, c)
      PROVE  Present' /\ GoneKept
  <2>1. /\ Free /\ pc'[e] \in {"load", "open"} /\ cancelling' = cancelling
        /\ \A f \in Executors \ {e} : pc'[f] = pc[f]
        /\ ~born \/ stored' = stored
    BY <1>2, <1>3 DEF Create, Resume, Launch, Goto
  <2>2. cancelling = NoMission /\ \A f \in Executors : pc'[f] \in {"idle", "open", "load"}
    BY <2>1 DEF Free
  <2> QED
    BY <2>1, <2>2 DEF Present, Working, GoneKept
<1>4. ASSUME NEW e \in Executors, Execute(e)
      PROVE  Present' /\ GoneKept
  <2>1. /\ cancelling' = cancelling
        /\ \A f \in Executors \ {e} : pc'[f] = pc[f]
    BY <1>1, <1>4, ExecuteFrame
  <2>2. \/ stored' = stored
        \/ Working(e) /\ stored'.status \in {"executing", "failed", "completed"}
    BY <1>4, ExecuteStores
  <2>3. stored # NoMission => stored' # NoMission
    BY <2>2 DEF NoMission
  <2>4. Working(e)' => Working(e) \/ (pc[e] = "load" /\ stored # NoMission) 
    <3>1. CASE pc[e] \in {"idle", "open"}
      BY <1>2, <1>4, <3>1
      DEF Execute, OpenStore, Load, Begin, Dispatch, StartStep, PanicOnTarget,
          ResolveApproval, TurnCompletes, TurnRejects, TurnFails, FinishSequential,
          StartBatch, JoinOk, JoinErr, SaveBatch, FailDag, FinishDag, DagDeadlock,
          Stuck, Goto, Return, Working
    <3>2. CASE pc[e] = "load"
      BY <1>2, <1>4, <3>2
      DEF Execute, OpenStore, Load, Begin, Dispatch, StartStep, PanicOnTarget,
          ResolveApproval, TurnCompletes, TurnRejects, TurnFails, FinishSequential,
          StartBatch, JoinOk, JoinErr, SaveBatch, FailDag, FinishDag, DagDeadlock,
          Stuck, Goto, Return, Working
    <3> QED
      BY <3>1, <3>2 DEF Working
  <2>5. GoneKept
    BY <2>2 DEF GoneKept, Present
  <2> QED
    BY <2>1, <2>3, <2>4, <2>5 DEF Present, Working
<1>5. ASSUME NEW e \in Executors, Abort(e)
      PROVE  Present' /\ GoneKept
  BY <1>2, <1>5 DEF Abort, Return, Goto, store, Present, Working, GoneKept
<1>6. CASE CancelLoad
  BY <1>2, <1>6 DEF CancelLoad, store, Present, Working, GoneKept
<1>7. CASE CancelSave
  <2>1. /\ stored' = cancelling /\ cancelling # NoMission /\ cancelling' = NoMission
        /\ pc' = pc
    BY <1>7 DEF CancelSave
  <2> QED
    BY <2>1 DEF Present, Working, GoneKept
<1>8. CASE Delete
  <2>1. /\ Free /\ stored' = NoMission /\ cancelling' = cancelling /\ pc' = pc
    BY <1>8 DEF Delete
  <2> QED
    BY <2>1 DEF Free, Present, Working, GoneKept
<1>9. CASE Crash
  BY <1>9 DEF Crash, Present, Working, GoneKept
<1>10. CASE Answer \/ Restart \/ UNCHANGED vars
  BY <1>10 DEF Answer, Restart, vars, Present, Working, GoneKept
<1> QED
  BY <1>3, <1>4, <1>5, <1>6, <1>7, <1>8, <1>9, <1>10 DEF Next

(* execute_mission returns Ok only of a mission it has ended. *)
LEMMA FinalIsEnd ==
    ASSUME TypeInv, NEW e \in Executors, Execute(e),
           pc'[e] = "idle", Final(e) = <<"completed">>
    PROVE  IsTerminal(stored'.status)
<1> USE DEF Goto, SaveAndReturn, Return, IsTerminal
<1> pc \in [Executors -> PCs] /\ copy[e] \in MissionRecord
  BY DEF TypeInv, TypeOK
<1>1. /\ pc[e] \notin {"open", "load", "dispatch"} /\ ~Stuck(e)
      /\ ~(pc[e] = "seq" /\ Unfinished(steps(e)) # {})
  BY DEF Final
<1>2. CASE OpenStore(e) \/ Load(e) \/ Begin(e) \/ Dispatch(e)
  BY <1>1, <1>2 DEF OpenStore, Load, Begin, Dispatch
<1>3. CASE StartStep(e) \/ PanicOnTarget(e)
  BY <1>1, <1>3 DEF StartStep, PanicOnTarget
<1>4. CASE ResolveApproval(e) \/ TurnCompletes(e) \/ TurnRejects(e)
  BY <1>4 DEF ResolveApproval, TurnCompletes, TurnRejects
<1>5. CASE TurnFails(e)
  BY <1>5 DEF TurnFails
<1>6. CASE FinishSequential(e) \/ FailDag(e) \/ FinishDag(e)
  BY <1>6 DEF FinishSequential, FailDag, FinishDag, MissionRecord
<1>7. CASE StartBatch(e) \/ SaveBatch(e)
  BY <1>7 DEF StartBatch, SaveBatch
<1>8. CASE \E i \in inflight[e] : JoinOk(e, i) \/ JoinErr(e, i)
  BY <1>8 DEF JoinOk, JoinErr
<1>9. CASE DagDeadlock(e)
  BY <1>1, <1>9 DEF DagDeadlock
<1> QED
  BY <1>2, <1>3, <1>4, <1>5, <1>6, <1>7, <1>8, <1>9 DEF Execute

LEMMA EndedState ==
    ASSUME stored \in MissionRecord
    PROVE  IsTerminal(TaskState(stored)) <=> IsTerminal(stored.status)
BY DEF MissionRecord, TaskStatuses, TaskState, IsTerminal

ToldCompleted == \E i \in DOMAIN told : told[i] = "completed"

EndInv ==
    /\ LockInv
    /\ Present
    /\ told \in Seq(TaskEvents)
    /\ ToldCompleted => born /\ Ended

LEMMA ToldMore ==
    ASSUME told \in Seq(TaskEvents), NEW event \in TaskEvents,
           told' = told \o <<event>>
    PROVE  /\ told' \in Seq(TaskEvents)
           /\ ToldCompleted' => ToldCompleted \/ event = "completed"
<1>1. <<event>> \in Seq(TaskEvents) /\ Len(<<event>>) = 1 /\ <<event>>[1] = event
  OBVIOUS
<1>2. told' \in Seq(TaskEvents) /\ Len(told') = Len(told) + 1
  BY <1>1, ConcatProperties
<1>3. ASSUME NEW i \in DOMAIN told'
      PROVE  told'[i] = event \/ (i \in DOMAIN told /\ told'[i] = told[i])
  BY <1>1, <1>2, <1>3, LenProperties, ConcatProperties
<1> QED
  BY <1>2, <1>3 DEF ToldCompleted

LEMMA EndNext ==
    ASSUME StoreIsExclusive, EndInv, [ProtocolNext]_allVars
    PROVE  EndInv'
<1>1. LockInv' /\ Present' /\ EndKept /\ GoneKept
  BY ProtocolStep, LockNext, PresentNext DEF EndInv
<1>2. /\ TypeInv /\ stored \in MissionRecord /\ stored' \in MissionRecord
      /\ pc \in [Executors -> PCs]
  BY <1>1 DEF EndInv, LockInv, TypeInv, TypeOK
<1>3. born => born'
  <2>1. \A e \in Executors : Execute(e) => born' = born
    BY <1>2, ExecuteFrame
  <2>2. [Next]_vars
    BY ProtocolStep
  <2> QED
    BY <2>1, <2>2
    DEF Next, vars, Create, Resume, Abort, Answer, CancelLoad, CancelSave,
        Delete, Crash, Restart, store
<1>4. born /\ Ended => Ended'
  BY <1>1, <1>2 DEF EndKept, GoneKept, Ended
<1>5. CASE told' = told
  BY <1>1, <1>3, <1>4, <1>5 DEF EndInv, ToldCompleted
<1>6. ASSUME NEW event \in TaskEvents, told' = told \o <<event>>,
             event = "completed" => born' /\ Ended'
      PROVE  EndInv'
  <2>1. /\ told' \in Seq(TaskEvents)
        /\ ToldCompleted' => ToldCompleted \/ event = "completed"
    BY <1>6, ToldMore DEF EndInv
  <2> QED
    BY <1>1, <1>3, <1>4, <1>6, <2>1 DEF EndInv
<1>7. ASSUME NEW e \in Executors, TellSubmitted(e)
      PROVE  EndInv'
  <2>1. told = <<>> /\ told' = <<"submitted">>
    BY <1>7 DEF TellSubmitted
  <2>2. told' = told \o <<"submitted">>
    BY <2>1
  <2> QED
    BY <1>6, <2>2 DEF TaskEvents
<1>8. ASSUME NEW e \in Executors, Perform(e)
      PROVE  EndInv'
  <2>1. CASE pc'[e] # "idle" \/ e \notin follows \/ Final(e) = <<>>
    <3>1. told' = told \/ told' = told \o <<>>
      BY <1>8, <2>1 DEF Perform, Tells
    <3>2. told \o <<>> = told
      BY DEF EndInv
    <3> QED
      BY <1>5, <3>1, <3>2
  <2>2. CASE pc'[e] = "idle" /\ Final(e) = <<"failed">>
    <3>1. told' = told \/ told' = told \o <<"failed">>
      BY <1>8, <2>2 DEF Perform, Tells
    <3> QED
      BY <1>5, <1>6, <3>1 DEF TaskEvents
  <2>3. CASE pc'[e] = "idle" /\ Final(e) = <<"completed">>
    <3>1. told' = told \/ told' = told \o <<"completed">>
      BY <1>8, <2>3 DEF Perform, Tells
    <3>2. IsTerminal(stored'.status) /\ Execute(e)
      BY <1>2, <1>8, <2>3, FinalIsEnd DEF Perform
    <3>3. born'
      <4>1. pc[e] \notin {"idle", "open", "load"}
        BY <1>2, <2>3, <3>2
        DEF Final, Execute, OpenStore, Load, Begin, Dispatch, StartStep,
            PanicOnTarget, ResolveApproval, TurnCompletes, TurnRejects, TurnFails,
            FinishSequential, StartBatch, JoinOk, JoinErr, SaveBatch, FailDag,
            FinishDag, DagDeadlock, Stuck
      <4> QED
        BY <1>3, <4>1 DEF EndInv, LockInv, WorkingOK, Working
    <3> QED
      BY <1>5, <1>6, <3>1, <3>2, <3>3 DEF TaskEvents, Ended
  <2> QED
    BY <2>1, <2>2, <2>3 DEF Final
<1>9. ASSUME NEW e \in Executors, PerformAborts(e)
      PROVE  EndInv'
  <2>1. \/ told' = told \/ told' = told \o <<>> \/ told' = told \o <<"failed">>
    BY <1>9 DEF PerformAborts, Tells
  <2>2. told \o <<>> = told
    BY DEF EndInv
  <2> QED
    BY <1>5, <1>6, <2>1, <2>2 DEF TaskEvents
<1>10. ASSUME NEW e \in Executors, TasksSend(e) \/ ResumeTask(e) \/ SendSubscribe(e)
       PROVE  EndInv'
  BY <1>5, <1>10 DEF TasksSend, ResumeTask, SendSubscribe, protocol
<1>11. CASE \/ TasksCancel \/ Others \/ CrashWithStreams \/ PushNotificationSet
            \/ PushNotificationDelete \/ UNCHANGED allVars
  BY <1>5, <1>11
  DEF TasksCancel, Others, CrashWithStreams, PushNotificationSet,
      PushNotificationDelete, allVars, protocol
<1> QED
  BY <1>7, <1>8, <1>9, <1>10, <1>11 DEF ProtocolNext

(* A stream that says "completed" says so of a mission that has ended for  *)
(* good, whatever cancels, deletes, faults, crashes and resumes come       *)
(* between, where an open handle keeps others out of the task store.       *)
THEOREM EndIsFinalCorrect ==
    ASSUME StoreIsExclusive
    PROVE  ProtocolSpec => []EndIsFinal
<1>1. ProtocolInit => EndInv
  BY LockInit DEF ProtocolInit, Init, EndInv, Present, Working, ToldCompleted
<1>2. EndInv /\ [ProtocolNext]_allVars => EndInv'
  BY EndNext
<1>3. EndInv => EndIsFinal
  BY EndedState
  DEF EndInv, EndIsFinal, ToldCompleted, Ended, LockInv, TypeInv, TypeOK
<1> QED
  BY <1>1, <1>2, <1>3, PTL DEF ProtocolSpec

-----------------------------------------------------------------------------
(* The graph of a plan: Kahn's algorithm accepts exactly the plans that    *)
(* have no cycle, and skip_downstream reaches exactly what cannot run.     *)

(* A set of naturals that is not empty has a least member.  Taken of the   *)
(* set of counterexamples this is induction.                               *)
LEMMA LeastMember ==
    ASSUME NEW T \in SUBSET Nat, T # {}
    PROVE  \E n \in T : \A m \in T : n <= m
<1>1. PICK n \in T : \A m \in T : <<m, n>> \notin OpToRel(<, Nat)
  BY NatLessThanWellFounded, WFMin
<1>2. ASSUME NEW m \in T
      PROVE  n <= m
  <2>1. m \in Nat /\ n \in Nat
    OBVIOUS
  <2>2. ~(m < n)
    BY <1>1, <2>1 DEF OpToRel
  <2> QED
    BY <2>1, <2>2
<1> QED
  BY <1>2

(* What holds at 0 and passes from each n to n + 1 holds up to N. *)
LEMMA UpTo ==
    ASSUME NEW N \in Nat, NEW G \in SUBSET Nat, 0 \in G,
           \A n \in 0 .. N : n \in G /\ n < N => n + 1 \in G
    PROVE  0 .. N \subseteq G
<1> DEFINE T == (0 .. N) \ G
<1>1. SUFFICES ASSUME T # {} PROVE FALSE
  OBVIOUS
<1>2. PICK n \in T : \A m \in T : n <= m
  <2>1. T \in SUBSET Nat
    OBVIOUS
  <2> HIDE DEF T
  <2> QED
    BY <1>1, <2>1, LeastMember
<1>3. /\ n \in 0 .. N /\ n # 0
      /\ n - 1 \in 0 .. N /\ n - 1 < N /\ ~(n <= n - 1)
  OBVIOUS
<1>6. n - 1 \notin T
  BY <1>2, <1>3
<1>4. n - 1 \in G
  BY <1>3, <1>6
<1>5. (n - 1) + 1 \in G
  BY <1>3, <1>4
<1> QED
  BY <1>3, <1>5

(* A function defined by recursion on 0 .. N exists. *)
HasRounds(N, D, a, F) ==
    \E f \in [0 .. N -> SUBSET D] : f[0] = a /\ \A n \in 1 .. N : f[n] = F[f[n - 1]]

LEMMA Rounds ==
    ASSUME NEW N \in Nat, NEW D, NEW a \in SUBSET D,
           NEW F \in [SUBSET D -> SUBSET D]
    PROVE  HasRounds(N, D, a, F)
<1> DEFINE R(m) == \E f \in [0 .. m -> SUBSET D] :
                     f[0] = a /\ \A n \in 1 .. m : f[n] = F[f[n - 1]]
           G == {m \in Nat : R(m)}
<1>1. 0 \in G
  <2> DEFINE f == [n \in 0 .. 0 |-> a]
  <2>1. f \in [0 .. 0 -> SUBSET D] /\ f[0] = a
    OBVIOUS
  <2>2. \A n \in 1 .. 0 : f[n] = F[f[n - 1]]
    OBVIOUS
  <2>3. R(0)
    BY <2>1, <2>2
  <2> QED
    BY <2>3
<1>2. ASSUME NEW n \in 0 .. N, n \in G
      PROVE  n + 1 \in G
  <2>1. PICK f \in [0 .. n -> SUBSET D] :
           f[0] = a /\ \A k \in 1 .. n : f[k] = F[f[k - 1]]
    BY <1>2
  <2> DEFINE g == [k \in 0 .. n + 1 |-> IF k = n + 1 THEN F[f[n]] ELSE f[k]]
  <2>2. g \in [0 .. n + 1 -> SUBSET D] /\ g[0] = a
    BY <2>1
  <2>3. ASSUME NEW k \in 1 .. n + 1
        PROVE  g[k] = F[g[k - 1]]
    <3>1. CASE k = n + 1
      BY <3>1
    <3>2. CASE k \in 1 .. n
      <4>1. g[k] = f[k] /\ g[k - 1] = f[k - 1]
        BY <3>2
      <4> QED
        BY <2>1, <3>2, <4>1
    <3> QED
      BY <3>1, <3>2
  <2>4. R(n + 1)
    BY <2>2, <2>3
  <2> QED
    BY <2>4
<1> HIDE DEF R
<1>3. 0 .. N \subseteq G
  BY <1>1, <1>2, UpTo
<1>4. R(N)
  BY <1>3
<1> QED
  BY <1>4 DEF R, HasRounds

(* Rounds that only add to a set of at most N members end in a fixed point.*)
LEMMA Saturated ==
    ASSUME NEW N \in Nat, NEW D, IsFiniteSet(D), Cardinality(D) <= N,
           NEW F \in [SUBSET D -> SUBSET D], NEW f \in [0 .. N -> SUBSET D],
           \A n \in 1 .. N : f[n] = F[f[n - 1]],
           \A n \in 0 .. N : f[n] \subseteq F[f[n]]
    PROVE  F[f[N]] = f[N]
<1> DEFINE Done(n) == Cardinality(f[n]) >= n \/ F[f[n]] = f[n]
           G == {n \in Nat : n <= N => Done(n)}
<1>1. \A n \in 0 .. N : IsFiniteSet(f[n]) /\ Cardinality(f[n]) \in Nat
  BY FS_Subset, FS_CardinalityType
<1>2. 0 \in G
  BY <1>1
<1>3. ASSUME NEW n \in 0 .. N, n \in G, n < N
      PROVE  n + 1 \in G
  <2>1. n + 1 \in 1 .. N /\ (n + 1) - 1 = n /\ n + 1 \in 0 .. N
    BY <1>3
  <2>2. f[n + 1] = F[f[n]] /\ f[n] \subseteq f[n + 1]
    BY <2>1
  <2>3. CASE F[f[n]] = f[n]
    BY <2>2, <2>3
  <2>4. CASE F[f[n]] # f[n]
    <3>1. Cardinality(f[n]) >= n /\ f[n] # f[n + 1]
      BY <1>3, <2>2, <2>4
    <3>2. /\ Cardinality(f[n]) <= Cardinality(f[n + 1])
          /\ Cardinality(f[n + 1]) # Cardinality(f[n])
      BY <1>1, <2>1, <2>2, <3>1, FS_Subset
    <3>3. Cardinality(f[n + 1]) >= n + 1
      BY <1>1, <2>1, <3>1, <3>2
    <3> QED
      BY <3>3
  <2> QED
    BY <2>3, <2>4
<1> HIDE DEF Done
<1>4. 0 .. N \subseteq G
  BY <1>2, <1>3, UpTo
<1>5. Done(N)
  BY <1>4
<1>6. CASE Cardinality(f[N]) >= N
  <2>1. f[N] \in SUBSET D /\ N \in 0 .. N
    OBVIOUS
  <2>2. Cardinality(f[N]) <= Cardinality(D)
    BY <2>1, FS_Subset
  <2>3. Cardinality(f[N]) = Cardinality(D)
    BY <1>1, <1>6, <2>1, <2>2, FS_CardinalityType
  <2>4. f[N] = D
    BY <2>1, <2>3, FS_Subset
  <2> QED
    BY <2>1, <2>4
<1> QED
  BY <1>5, <1>6 DEF Done

-----------------------------------------------------------------------------
Acyclic(s) ==
    \A T \in SUBSET (DOMAIN s) : T # {} => \E i \in T : s[i].deps \cap T = {}

(* The steps are finitely many. *)
LEMMA StepsFinite ==
    ASSUME NEW s \in Seq(StepRecord)
    PROVE  /\ Len(s) \in Nat /\ DOMAIN s = 1 .. Len(s)
           /\ IsFiniteSet(DOMAIN s) /\ Cardinality(DOMAIN s) <= Len(s)
<1>1. Len(s) \in Nat /\ DOMAIN s = 1 .. Len(s)
  BY LenProperties
<1>2. IsFiniteSet(1 .. Len(s)) /\ Cardinality(1 .. Len(s)) <= Len(s)
  BY <1>1, FS_Interval
<1> QED
  BY <1>1, <1>2

(* The rounds of Kahn's algorithm. *)
LEMMA ConsumedIs ==
    ASSUME NEW s \in Seq(StepRecord)
    PROVE  \E round \in [0 .. Len(s) -> SUBSET (DOMAIN s)] :
              /\ round[0] = {}
              /\ \A n \in 1 .. Len(s) :
                    round[n] = {i \in DOMAIN s : s[i].deps \subseteq round[n - 1]}
              /\ Consumed(s) = round[Len(s)]
<1>1. Len(s) \in Nat
  BY LenProperties
<1> DEFINE D == DOMAIN s
           Round(S) == {i \in D : s[i].deps \subseteq S}
           Is(f) == f = [n \in 0 .. Len(s) |-> IF n = 0 THEN {} ELSE Round(f[n - 1])]
           round == CHOOSE f : Is(f)
<1>2. \E f : Is(f)
  <2> DEFINE F == [S \in SUBSET D |-> Round(S)]
  <2>1. F \in [SUBSET D -> SUBSET D]
    OBVIOUS
  <2>0. {} \in SUBSET D
    OBVIOUS
  <2> HIDE DEF Round, Is, round, D
  <2>2. \A S \in SUBSET D : F[S] = Round(S)
    OBVIOUS
  <2> HIDE DEF F
  <2>3. PICK f \in [0 .. Len(s) -> SUBSET D] :
           f[0] = {} /\ \A n \in 1 .. Len(s) : f[n] = F[f[n - 1]]
    <3>1. HasRounds(Len(s), D, {}, F)
      BY <1>1, <2>0, <2>1, Rounds
    <3> QED
      BY <3>1 DEF HasRounds
  <2>4. ASSUME NEW n \in 0 .. Len(s)
        PROVE  f[n] = IF n = 0 THEN {} ELSE Round(f[n - 1])
    <3>1. n # 0 => n \in 1 .. Len(s) /\ n - 1 \in 0 .. Len(s)
      BY <1>1
    <3>2. n # 0 => f[n] = F[f[n - 1]] /\ f[n - 1] \in SUBSET D
      BY <2>3, <3>1
    <3> QED
      BY <2>2, <2>3, <3>2
  <2>5. f = [n \in 0 .. Len(s) |-> f[n]]
    OBVIOUS
  <2>6. Is(f)
    BY <2>4, <2>5 DEF Is
  <2> QED
    BY <2>6
<1>3. Is(round)
  <2> HIDE DEF Is
  <2> QED
    BY <1>2
<1>4. Consumed(s) = round[Len(s)]
  BY DEF Consumed
<1>5. \A n \in 0 .. Len(s) : round[n] = IF n = 0 THEN {} ELSE Round(round[n - 1])
  <2> HIDE DEF round, D, Round
  <2> QED
    BY <1>3
<1>6. round = [n \in 0 .. Len(s) |-> round[n]]
  <2> HIDE DEF round, D, Round
  <2> QED
    BY <1>3, <1>5
<1> HIDE DEF round, Is
<1>7. /\ \A S : Round(S) \in SUBSET D
      /\ \A n \in 1 .. Len(s) : n \in 0 .. Len(s) /\ n # 0
      /\ 0 \in 0 .. Len(s)
  BY <1>1
<1>8. \A n \in 0 .. Len(s) : round[n] \in SUBSET D
  BY <1>5, <1>7
<1>9. round \in [0 .. Len(s) -> SUBSET D]
  BY <1>6, <1>8
<1> QED
  BY <1>4, <1>5, <1>7, <1>9

WellFormed(s) == \A i \in DOMAIN s : s[i].deps \subseteq DOMAIN s

LEMMA ValidIsAcyclic ==
    ASSUME NEW s \in Seq(StepRecord), ValidDag(s)
    PROVE  WellFormed(s) /\ Acyclic(s)
<1>1. Len(s) \in Nat
  BY LenProperties
<1> DEFINE D == DOMAIN s
<1>2. PICK round \in [0 .. Len(s) -> SUBSET D] :
         /\ round[0] = {}
         /\ \A n \in 1 .. Len(s) :
               round[n] = {i \in D : s[i].deps \subseteq round[n - 1]}
         /\ Consumed(s) = round[Len(s)]
  BY ConsumedIs
<1>5. round[Len(s)] = D /\ \A i \in D : s[i].deps \subseteq D
  BY <1>2 DEF ValidDag
<1> HIDE DEF D
<1>7. ASSUME NEW T \in SUBSET D, T # {}
      PROVE  \E i \in T : s[i].deps \cap T = {}
  <2> DEFINE G == {n \in 0 .. Len(s) : round[n] \cap T # {}}
  <2>1. G \in SUBSET Nat /\ G # {}
    <3>1. Len(s) \in G
      BY <1>1, <1>5, <1>7
    <3> QED
      BY <3>1
  <2>2. PICK n \in G : \A m \in G : n <= m
    <3> HIDE DEF G
    <3> QED
      BY <2>1, LeastMember
  <2>3. n \in 1 .. Len(s) /\ n - 1 \in 0 .. Len(s) /\ ~(n <= n - 1)
    BY <1>1, <1>2
  <2>4. round[n - 1] \cap T = {}
    BY <2>2, <2>3
  <2>5. PICK i \in T : i \in round[n]
    OBVIOUS
  <2>6. s[i].deps \subseteq round[n - 1]
    BY <1>2, <2>3, <2>5
  <2> QED
    BY <2>4, <2>6
<1> QED
  BY <1>5, <1>7 DEF Acyclic, WellFormed, D

LEMMA AcyclicIsValid ==
    ASSUME NEW s \in Seq(StepRecord), WellFormed(s), Acyclic(s)
    PROVE  ValidDag(s)
<1>1. /\ Len(s) \in Nat /\ IsFiniteSet(DOMAIN s)
      /\ Cardinality(DOMAIN s) <= Len(s)
  BY StepsFinite
<1> DEFINE D == DOMAIN s
           F == [S \in SUBSET D |-> {i \in D : s[i].deps \subseteq S}]
<1>2. PICK round \in [0 .. Len(s) -> SUBSET D] :
         /\ round[0] = {}
         /\ \A n \in 1 .. Len(s) :
               round[n] = {i \in D : s[i].deps \subseteq round[n - 1]}
         /\ Consumed(s) = round[Len(s)]
  BY ConsumedIs
<1>3. /\ F \in [SUBSET D -> SUBSET D]
      /\ \A S \in SUBSET D : F[S] = {i \in D : s[i].deps \subseteq S}
  OBVIOUS
<1>4. ASSUME NEW n \in 1 .. Len(s)
      PROVE  round[n] = F[round[n - 1]]
  <2>1. n - 1 \in 0 .. Len(s)
    BY <1>1
  <2>2. round[n - 1] \in SUBSET D
    BY <2>1
  <2> QED
    BY <1>2, <1>3, <2>2
<1> HIDE DEF F
<1>5. \A n \in 0 .. Len(s) : round[n] \subseteq F[round[n]]
  <2> DEFINE G == {n \in Nat : n <= Len(s) => round[n] \subseteq F[round[n]]}
  <2>1. 0 \in G
    BY <1>2
  <2>2. ASSUME NEW n \in 0 .. Len(s), n \in G, n < Len(s)
        PROVE  n + 1 \in G
    <3>1. n + 1 \in 1 .. Len(s) /\ n + 1 \in 0 .. Len(s) /\ (n + 1) - 1 = n
      BY <1>1, <2>2
    <3>2. round[n + 1] = F[round[n]] /\ round[n] \subseteq F[round[n]]
      BY <1>4, <2>2, <3>1
    <3>3. round[n] \in SUBSET D /\ round[n + 1] \in SUBSET D
      BY <3>1
    <3>4. round[n + 1] \subseteq F[round[n + 1]]
      BY <1>3, <3>2, <3>3
    <3> QED
      BY <3>4
  <2> HIDE DEF G
  <2>3. 0 .. Len(s) \subseteq G
    <3>1. G \in SUBSET Nat
      BY DEF G
    <3> QED
      BY <1>1, <2>1, <2>2, <3>1, UpTo
  <2> QED
    BY <1>1, <2>3 DEF G
<1>6. F[round[Len(s)]] = round[Len(s)]
  <2>1. IsFiniteSet(D) /\ Cardinality(D) <= Len(s)
    BY <1>1
  <2>2. F \in [SUBSET D -> SUBSET D]
    BY <1>3
  <2> HIDE DEF D
  <2> QED
    BY <1>1, <1>4, <1>5, <2>1, <2>2, Saturated
<1>7. Len(s) \in 0 .. Len(s)
  BY <1>1
<1>8. round[Len(s)] \in SUBSET D
  BY <1>7
<1>9. D \subseteq round[Len(s)]
  <2> SUFFICES ASSUME D \ round[Len(s)] # {} PROVE FALSE
    OBVIOUS
  <2>1. PICK i \in D \ round[Len(s)] : s[i].deps \cap (D \ round[Len(s)]) = {}
    BY DEF Acyclic
  <2>2. s[i].deps \subseteq round[Len(s)]
    BY <2>1 DEF WellFormed
  <2> QED
    BY <1>3, <1>6, <1>8, <2>1, <2>2
<1>10. \A i \in DOMAIN s : i \notin s[i].deps
  <2> TAKE i \in DOMAIN s
  <2>1. {i} \in SUBSET (DOMAIN s) /\ {i} # {}
    OBVIOUS
  <2>2. \E k \in {i} : s[k].deps \cap {i} = {}
    BY <2>1 DEF Acyclic
  <2> QED
    BY <2>2
<1> QED
  BY <1>2, <1>8, <1>9, <1>10 DEF ValidDag, WellFormed

(* dag.rs accepts a plan exactly when its dependencies are steps of the    *)
(* plan and no steps depend on each other in a circle, for every plan.     *)
THEOREM ValidDagExact ==
    \A s \in Seq(StepRecord) : ValidDag(s) <=> WellFormed(s) /\ Acyclic(s)
BY ValidIsAcyclic, AcyclicIsValid

(* What is downstream of a step is the least set that has the step and all *)
(* that depend on a member of it.                                          *)
LEMMA DownstreamIs ==
    ASSUME NEW s \in Seq(StepRecord), NEW i \in DOMAIN s
    PROVE  /\ i \in Downstream(s, i) /\ Downstream(s, i) \subseteq DOMAIN s
           /\ \A j \in DOMAIN s :
                 s[j].deps \cap Downstream(s, i) # {} => j \in Downstream(s, i)
           /\ \A T : i \in T /\ (\A j \in DOMAIN s : s[j].deps \cap T # {} => j \in T)
                 => Downstream(s, i) \subseteq T
<1>1. /\ Len(s) \in Nat /\ IsFiniteSet(DOMAIN s)
      /\ Cardinality(DOMAIN s) <= Len(s)
  BY StepsFinite
<1> DEFINE D == DOMAIN s
           Round(S) == {j \in D : j \in S \/ s[j].deps \cap S # {}}
           Is(f) == f = [n \in 0 .. Len(s) |-> IF n = 0 THEN {i} ELSE Round(f[n - 1])]
           reach == CHOOSE f : Is(f)
           F == [S \in SUBSET D |-> Round(S)]
<1>2. F \in [SUBSET D -> SUBSET D] /\ {i} \in SUBSET D
  OBVIOUS
<1>3. /\ \A S \in SUBSET D : F[S] = Round(S) /\ S \subseteq F[S]
      /\ Downstream(s, i) = reach[Len(s)]
  BY DEF Downstream
<1>4. /\ reach \in [0 .. Len(s) -> SUBSET D] /\ reach[0] = {i}
      /\ \A n \in 1 .. Len(s) : reach[n] = F[reach[n - 1]]
  <2> HIDE DEF Round, D, F
  <2>1. \E f \in [0 .. Len(s) -> SUBSET D] : Is(f)
    <3>1. HasRounds(Len(s), D, {i}, F)
      BY <1>1, <1>2, Rounds
    <3>2. PICK f \in [0 .. Len(s) -> SUBSET D] :
             f[0] = {i} /\ \A n \in 1 .. Len(s) : f[n] = F[f[n - 1]]
      BY <3>1 DEF HasRounds
    <3>3. ASSUME NEW n \in 0 .. Len(s)
          PROVE  f[n] = IF n = 0 THEN {i} ELSE Round(f[n - 1])
      <4>1. n # 0 => n \in 1 .. Len(s) /\ n - 1 \in 0 .. Len(s)
        BY <1>1
      <4>2. n # 0 => f[n] = F[f[n - 1]] /\ f[n - 1] \in SUBSET D
        BY <3>2, <4>1
      <4> QED
        BY <1>3, <3>2, <4>2
    <3>4. f = [n \in 0 .. Len(s) |-> f[n]]
      OBVIOUS
    <3> QED
      BY <3>3, <3>4 DEF Is
  <2>2. Is(reach)
    <3> HIDE DEF Is
    <3> QED
      BY <2>1
  <2>3. PICK f \in [0 .. Len(s) -> SUBSET D] : Is(f)
    BY <2>1
  <2> HIDE DEF reach
  <2>4. \A n \in 0 .. Len(s) : reach[n] = IF n = 0 THEN {i} ELSE Round(reach[n - 1])
    BY <2>2
  <2>5. reach[0] = {i} /\ reach = [n \in 0 .. Len(s) |-> reach[n]]
    BY <1>1, <2>2, <2>4
  <2>6. \A S : Round(S) \in SUBSET D
    BY DEF Round
  <2>7. \A n \in 0 .. Len(s) : reach[n] \in SUBSET D
    BY <1>2, <2>4, <2>6
  <2>8. \A n \in 1 .. Len(s) : n \in 0 .. Len(s) /\ n # 0 /\ n - 1 \in 0 .. Len(s)
    BY <1>1
  <2> QED
    BY <1>3, <2>4, <2>5, <2>7, <2>8
<1> HIDE DEF reach, Is
<1>5. F[reach[Len(s)]] = reach[Len(s)]
  <2>1. \A n \in 0 .. Len(s) : reach[n] \subseteq F[reach[n]]
    BY <1>3, <1>4
  <2>2. IsFiniteSet(D) /\ Cardinality(D) <= Len(s)
    BY <1>1
  <2> HIDE DEF F, D, Round
  <2>3. /\ F \in [SUBSET D -> SUBSET D]
        /\ reach \in [0 .. Len(s) -> SUBSET D]
        /\ \A n \in 1 .. Len(s) : reach[n] = F[reach[n - 1]]
    BY <1>2, <1>4
  <2> QED
    BY <1>1, <2>1, <2>2, <2>3, Saturated
<1>6. Len(s) \in 0 .. Len(s) /\ 0 \in 0 .. Len(s)
  BY <1>1
<1>7. ASSUME NEW j \in DOMAIN s, s[j].deps \cap reach[Len(s)] # {}
      PROVE  j \in reach[Len(s)]
  <2>1. reach[Len(s)] \in SUBSET D
    BY <1>4, <1>6
  <2> QED
    BY <1>3, <1>5, <1>7, <2>1
<1>8. ASSUME NEW T, i \in T, \A j \in DOMAIN s : s[j].deps \cap T # {} => j \in T
      PROVE  \A n \in 0 .. Len(s) : reach[n] \subseteq T
  <2> DEFINE G == {n \in Nat : n <= Len(s) => reach[n] \subseteq T}
  <2>1. 0 \in G
    BY <1>4, <1>8
  <2>2. ASSUME NEW n \in 0 .. Len(s), n \in G, n < Len(s)
        PROVE  n + 1 \in G
    <3>1. n + 1 \in 1 .. Len(s) /\ (n + 1) - 1 = n /\ n \in 0 .. Len(s)
      BY <1>1, <2>2
    <3>4. reach[n + 1] = F[reach[n]] /\ reach[n] \in SUBSET D
      BY <1>4, <3>1
    <3>2. reach[n + 1] = Round(reach[n]) /\ reach[n] \subseteq T
      BY <1>3, <2>2, <3>4
    <3>3. reach[n + 1] \subseteq T
      BY <1>8, <3>2
    <3> QED
      BY <3>3
  <2> HIDE DEF G
  <2>3. 0 .. Len(s) \subseteq G
    <3>1. G \in SUBSET Nat
      BY DEF G
    <3> QED
      BY <1>1, <2>1, <2>2, <3>1, UpTo
  <2> QED
    BY <1>1, <2>3 DEF G
<1>9. i \in reach[Len(s)]
  <2> DEFINE G == {n \in Nat : n <= Len(s) => i \in reach[n]}
  <2>1. 0 \in G
    BY <1>4
  <2>2. ASSUME NEW n \in 0 .. Len(s), n \in G, n < Len(s)
        PROVE  n + 1 \in G
    <3>1. n + 1 \in 1 .. Len(s) /\ (n + 1) - 1 = n /\ n \in 0 .. Len(s)
      BY <1>1, <2>2
    <3>2. reach[n + 1] = Round(reach[n]) /\ i \in reach[n]
      BY <1>3, <1>4, <2>2, <3>1
    <3> QED
      BY <3>2
  <2> HIDE DEF G
  <2>3. 0 .. Len(s) \subseteq G
    <3>1. G \in SUBSET Nat
      BY DEF G
    <3> QED
      BY <1>1, <2>1, <2>2, <3>1, UpTo
  <2> QED
    BY <1>1, <1>6, <2>3 DEF G
<1>10. reach[Len(s)] \subseteq DOMAIN s
  BY <1>4, <1>6
<1> QED
  BY <1>3, <1>6, <1>7, <1>8, <1>9, <1>10

-----------------------------------------------------------------------------
(* A DAG that an undisturbed executor works on, the steps of L in flight:  *)
(* what has started has its dependencies, and what waits may still get     *)
(* them, as skip_downstream has skipped what cannot.                       *)
DagSteps(s, L) ==
    /\ WellFormed(s) /\ Acyclic(s)
    /\ \A j \in DOMAIN s :
          /\ s[j].status = "running" <=> j \in L
          /\ s[j].status \in Started =>
                \A d \in s[j].deps : s[d].status = "completed"
          /\ s[j].status = "pending" =>
                \A d \in s[j].deps : s[d].status \notin {"failed", "skipped"}

AllPending(s) == \A j \in DOMAIN s : s[j].status = "pending"

LEMMA ShapeKeepsGraph ==
    ASSUME NEW s, NEW t, SameShape(s, t), WellFormed(s), Acyclic(s)
    PROVE  WellFormed(t) /\ Acyclic(t)
<1>1. DOMAIN t = DOMAIN s /\ \A i \in DOMAIN s : t[i].deps = s[i].deps
  BY DEF SameShape
<1>2. WellFormed(t)
  BY <1>1 DEF WellFormed
<1>3. ASSUME NEW T \in SUBSET (DOMAIN t), T # {}
      PROVE  \E i \in T : t[i].deps \cap T = {}
  <2>1. PICK i \in T : s[i].deps \cap T = {}
    BY <1>1, <1>3 DEF Acyclic
  <2> QED
    BY <1>1, <2>1
<1> QED
  BY <1>2, <1>3 DEF Acyclic

LEMMA DagStarts ==
    ASSUME NEW s \in Seq(StepRecord), ValidDag(s), AllPending(s)
    PROVE  DagSteps(s, {})
<1>1. WellFormed(s) /\ Acyclic(s)
  BY ValidIsAcyclic
<1> QED
  BY <1>1 DEF DagSteps, AllPending, WellFormed, Started

(* No step of it waits for ever. *)
LEMMA DagProgress ==
    ASSUME NEW s \in Seq(StepRecord), DagSteps(s, {}), Ready(s) = {}
    PROVE  AllTerminal(s)
<1>1. \A j \in DOMAIN s : s[j].status \in StepStatuses
  <2>1. \A j \in DOMAIN s : s[j] \in StepRecord
    BY ElementOfSeq, LenProperties
  <2> QED
    BY <2>1 DEF StepRecord
<1> DEFINE T == {j \in DOMAIN s : s[j].status = "pending"}
<1>2. CASE T = {}
  BY <1>1, <1>2 DEF AllTerminal, DagSteps, StepStatuses
<1>3. CASE T # {}
  <2>1. PICK i \in T : s[i].deps \cap T = {}
    BY <1>3 DEF DagSteps, Acyclic
  <2>2. \A d \in s[i].deps : d \in DOMAIN s /\ s[d].status = "completed"
    BY <1>1, <2>1 DEF DagSteps, WellFormed, StepStatuses
  <2>3. i \in Ready(s)
    BY <2>1, <2>2 DEF Ready
  <2> QED
    BY <2>3
<1> QED
  BY <1>2, <1>3

LEMMA DagBatch ==
    ASSUME NEW s \in Seq(StepRecord), DagSteps(s, {})
    PROVE  DagSteps(Mark(s, Ready(s), "running"), Ready(s))
<1> DEFINE t == Mark(s, Ready(s), "running")
<1>1. /\ SameShape(s, t)
      /\ \A i \in DOMAIN s :
            t[i].status = IF i \in Ready(s) THEN "running" ELSE s[i].status
  BY MarkShape DEF StepStatuses
<1> HIDE DEF t
<1>2. /\ DOMAIN t = DOMAIN s /\ \A i \in DOMAIN s : t[i].deps = s[i].deps
      /\ WellFormed(t) /\ Acyclic(t)
  BY <1>1, ShapeKeepsGraph DEF SameShape, DagSteps
<1>3. \A i \in Ready(s) :
         /\ i \in DOMAIN s /\ s[i].status = "pending"
         /\ \A d \in s[i].deps : d \in DOMAIN s /\ s[d].status = "completed"
  BY DEF Ready
<1>4. \A i \in DOMAIN s : \A d \in s[i].deps : d \in DOMAIN s
  BY DEF DagSteps, WellFormed
<1> QED
  BY <1>1, <1>2, <1>3, <1>4 DEF DagSteps, Started, t

(* A step that was in flight is completed or to be tried again. *)
LEMMA DagReturns ==
    ASSUME NEW s \in Seq(StepRecord), NEW L, DagSteps(s, L),
           NEW i \in L, i \in DOMAIN s, NEW st \in {"completed", "pending"},
           NEW t, SameShape(s, t),
           \A k \in DOMAIN s : t[k].status = IF k = i THEN st ELSE s[k].status
    PROVE  DagSteps(t, L \ {i})
<1>1. /\ DOMAIN t = DOMAIN s /\ \A j \in DOMAIN s : t[j].deps = s[j].deps
      /\ WellFormed(t) /\ Acyclic(t)
  BY ShapeKeepsGraph DEF SameShape, DagSteps
<1>2. \A j \in DOMAIN s : \A d \in s[j].deps : d \in DOMAIN s
  BY DEF DagSteps, WellFormed
<1>3. s[i].status = "running"
  BY DEF DagSteps
<1> QED
  BY <1>1, <1>2, <1>3 DEF DagSteps, Started

(* A step that was in flight has failed for good: what depends on it is    *)
(* skipped, and nothing of that has started.                               *)
LEMMA DagFails ==
    ASSUME NEW s \in Seq(StepRecord), NEW L, DagSteps(s, L),
           NEW i \in L, i \in DOMAIN s
    PROVE  DagSteps(SkipDownstream(FailStep(s, i), i), L \ {i})
<1> DEFINE f == FailStep(s, i)
           t == SkipDownstream(f, i)
           S == {j \in Downstream(f, i) \ {i} : f[j].status \in {"pending", "running"}}
<1>1. /\ SameShape(s, f)
      /\ \A k \in DOMAIN s : f[k].status = IF k = i THEN "failed" ELSE s[k].status
  BY FailShape
<1>2. f \in Seq(StepRecord) /\ DOMAIN f = DOMAIN s
  BY <1>1 DEF SameShape
<1>3. /\ SameShape(f, t)
      /\ \A k \in DOMAIN f : t[k].status = IF k \in S THEN "skipped" ELSE f[k].status
  <2> HIDE DEF f
  <2> QED
    BY <1>2, MarkShape DEF SkipDownstream, StepStatuses
<1>4. /\ i \in Downstream(f, i) /\ Downstream(f, i) \subseteq DOMAIN f
      /\ \A j \in DOMAIN f :
            f[j].deps \cap Downstream(f, i) # {} => j \in Downstream(f, i)
      /\ \A T : i \in T /\ (\A j \in DOMAIN f : f[j].deps \cap T # {} => j \in T)
            => Downstream(f, i) \subseteq T
  <2> HIDE DEF f
  <2> QED
    BY <1>2, DownstreamIs
<1> DEFINE T == {i} \union {j \in DOMAIN s : s[j].status \in {"pending", "skipped"}}
<1> HIDE DEF f, t
<1>5. /\ DOMAIN t = DOMAIN s
      /\ \A j \in DOMAIN s : t[j].deps = s[j].deps /\ f[j].deps = s[j].deps
      /\ WellFormed(t) /\ Acyclic(t)
  BY <1>1, <1>2, <1>3, ShapeKeepsGraph DEF SameShape, DagSteps
<1>6. s[i].status = "running"
  BY DEF DagSteps
<1>7. \A j \in DOMAIN s : s[j].status \in StepStatuses
  <2>1. \A j \in DOMAIN s : s[j] \in StepRecord
    BY ElementOfSeq, LenProperties
  <2> QED
    BY <2>1 DEF StepRecord
<1>8. Downstream(f, i) \subseteq T
  <2>1. ASSUME NEW j \in DOMAIN f, f[j].deps \cap T # {}
        PROVE  j \in T
    <3>1. PICK d \in s[j].deps : d \in T
      BY <1>2, <1>5, <2>1
    <3>2. s[d].status # "completed"
      BY <1>6, <3>1
    <3>3. s[j].status \notin Started
      BY <1>2, <2>1, <3>1, <3>2 DEF DagSteps
    <3> QED
      BY <1>2, <1>7, <2>1, <3>3 DEF Started, StepStatuses
  <2> HIDE DEF T
  <2>2. i \in T
    BY DEF T
  <2> QED
    BY <1>4, <2>1, <2>2
<1>9. \A j \in S : j \in DOMAIN s /\ j # i /\ s[j].status = "pending"
  BY <1>1, <1>2, <1>4, <1>8
<1>10. \A j \in DOMAIN s :
          t[j].status = IF j = i THEN "failed"
                        ELSE IF j \in S THEN "skipped" ELSE s[j].status
  BY <1>1, <1>2, <1>3, <1>9
<1>11. ASSUME NEW j \in DOMAIN s
       PROVE  /\ t[j].status = "running" <=> j \in L \ {i}
              /\ t[j].status \in Started =>
                    \A d \in t[j].deps : t[d].status = "completed"
  <2> HIDE DEF S
  <2>1. \A d \in s[j].deps : d \in DOMAIN s
    BY DEF DagSteps, WellFormed
  <2>2. t[j].status \in Started => s[j].status \in Started
    BY <1>6, <1>10 DEF Started
  <2>3. \A d \in DOMAIN s : s[d].status = "completed" => t[d].status = "completed"
    BY <1>6, <1>9, <1>10
  <2>4. t[j].status = "running" <=> j \in L \ {i}
    BY <1>9, <1>10 DEF DagSteps
  <2> QED
    BY <1>5, <2>1, <2>2, <2>3, <2>4 DEF DagSteps
<1>12. ASSUME NEW j \in DOMAIN s, t[j].status = "pending", NEW d \in t[j].deps
       PROVE  t[d].status \notin {"failed", "skipped"}
  <2>1. s[j].status = "pending" /\ j \notin S /\ j # i
    BY <1>10, <1>12
  <2>2. d \in DOMAIN s /\ s[d].status \notin {"failed", "skipped"}
    BY <1>5, <1>12, <2>1 DEF DagSteps, WellFormed
  <2>3. f[j].status = "pending"
    BY <1>1, <2>1
  <2>4. j \notin Downstream(f, i)
    BY <2>1, <2>3
  <2>5. d \notin Downstream(f, i)
    BY <1>2, <1>4, <1>5, <1>12, <2>4
  <2>6. d # i /\ d \notin S
    BY <1>4, <2>5
  <2> HIDE DEF S
  <2> QED
    BY <1>10, <2>2, <2>6
<1> QED
  BY <1>5, <1>11, <1>12 DEF DagSteps, f, t
-----------------------------------------------------------------------------
(* Where nothing but one executor at a time works on a mission and no      *)
(* fault has come between, a DAG is worked on from its first step to its   *)
(* end, and never resumed half way.                                        *)

InSequence(e) == pc[e] \in {"seq", "turn", "approval"}
InDag(e) == pc[e] \in {"dag", "join", "dagfail"}

DagOK(e) ==
    /\ pc[e] \in {"begin", "dispatch"} /\ IsDag(steps(e)) => AllPending(steps(e))
    /\ InSequence(e) /\ IsDag(steps(e)) => caller[e].stream
    /\ pc[e] \in {"dag", "join"} => DagSteps(steps(e), inflight[e])
    /\ Working(e) /\ pc[e] # "join" => stored.steps = steps(e)

StoredFresh ==
    IsDag(stored.steps) /\ ~IsTerminal(stored.status) =>
        AllPending(stored.steps) \/ \E e \in Executors : InSequence(e) \/ InDag(e)

Undisturbed ==
    /\ \A e \in Executors : DagOK(e)
    /\ StoredFresh
    /\ cancelling # NoMission => IsTerminal(cancelling.status)

NoFault == left["fault"] = Budget["fault"]

DagInv ==
    /\ LockInv
    /\ left["fault"] <= Budget["fault"]
    /\ NoFault => Undisturbed

(* What e leaves in the store is at an end, untouched or in its hands. *)
StoredKept(e) ==
    \/ IsTerminal(stored'.status) \/ ~IsDag(stored'.steps)
    \/ AllPending(stored'.steps)
    \/ InSequence(e)' \/ InDag(e)'
    \/ UNCHANGED stored /\ ~InSequence(e) /\ ~InDag(e)

LEMMA DagReturn ==
    ASSUME TypeInv, NEW e \in Executors, Return(e)
    PROVE  DagOK(e)'
BY DEF TypeInv, TypeOK, Return, Goto, DagOK, Working, InSequence

(* A step of a sequential execution that goes on. *)
LEMMA DagSequence ==
    ASSUME NEW e \in Executors, DagOK(e), InSequence(e),
           pc'[e] \in {"seq", "turn", "approval"}, caller'[e] = caller[e],
           stored' = copy'[e], IsDag(copy'[e].steps) => IsDag(steps(e))
    PROVE  DagOK(e)' /\ StoredKept(e)
BY DEF DagOK, InSequence, StoredKept, steps, Working

LEMMA ReviseNotDag ==
    ASSUME NEW s \in Seq(StepRecord), NEW i \in DOMAIN s, s[i].left > 0,
           IsDag(Revise(s, i))
    PROVE  IsDag(s)
<1> DEFINE r == Revise(s, i)
<1>1. PICK k \in DOMAIN r : r[k].deps # {}
  BY DEF IsDag
<1>2. /\ \A j \in DOMAIN s : r[j].deps = s[j].deps
      /\ \A j \in DOMAIN r \ DOMAIN s : r[j].deps = {}
  BY ReviseShape
<1> QED
  BY <1>1, <1>2 DEF IsDag

LEMMA DagExecute ==
    ASSUME StoreIsExclusive, LockInv, Undisturbed, NEW e \in Executors, Execute(e)
    PROVE  DagOK(e)' /\ StoredKept(e)
<1> USE DEF Checkpoint, Goto, store, local
<1>1. /\ pc \in [Executors -> PCs] /\ copy \in [Executors -> MissionRecord]
      /\ caller \in [Executors -> Callers]
      /\ inflight \in [Executors -> SUBSET Nat]
      /\ stored \in MissionRecord
      /\ TypeInv /\ IndicesOK
  BY DEF LockInv, TypeInv, TypeOK
<1>2. /\ copy[e] \in MissionRecord /\ steps(e) = copy[e].steps
      /\ steps(e) \in Seq(StepRecord)
  BY <1>1 DEF MissionRecord, steps
<1>3. DagOK(e) /\ StoredFresh
  BY DEF Undisturbed
(* A rewrite of the steps that keeps their shape. *)
<1>4. ASSUME NEW t, SameShape(steps(e), t)
      PROVE  /\ IsDag(t) <=> IsDag(steps(e))
             /\ With(copy[e], t).steps = t
             /\ With(copy[e], t).status = copy[e].status
  BY <1>2, <1>4, ShapeKeepsMode, WithShape
<1>5. CASE OpenStore(e)
  <2>1. UNCHANGED stored /\ pc[e] = "open"
    BY <1>5 DEF OpenStore
  <2>2. pc'[e] \in {"idle", "load"}
    BY <1>1, <1>5 DEF OpenStore, Return
  <2> QED
    BY <2>1, <2>2 DEF DagOK, StoredKept, Working, InSequence, InDag
<1>6. CASE Load(e)
  <2>1. UNCHANGED stored /\ pc[e] = "load"
    BY <1>6 DEF Load
  <2>2. StoredKept(e)
    BY <2>1 DEF StoredKept, InSequence, InDag
  <2>3. CASE Return(e)
    BY <1>1, <2>2, <2>3, DagReturn
  <2>4. CASE ~Return(e)
    <3>1. /\ ~IsTerminal(stored.status)
          /\ copy' = [copy EXCEPT ![e] = [stored EXCEPT !.status = "executing"]]
          /\ pc' = [pc EXCEPT ![e] = "begin"]
      BY <1>6, <2>4 DEF Load
    <3>2. \A f \in Executors : ~InSequence(f) /\ ~InDag(f)
      BY <2>1 DEF LockInv, Exclusion, Holds, InSequence, InDag
    <3>3. IsDag(stored.steps) => AllPending(stored.steps)
      BY <1>3, <3>1, <3>2 DEF StoredFresh
    <3>4. pc'[e] = "begin" /\ copy'[e].steps = stored.steps
      BY <1>1, <3>1, StatusTyped DEF TaskStatuses
    <3>5. DagOK(e)'
      BY <2>1, <3>3, <3>4 DEF DagOK, InSequence, steps
    <3> QED
      BY <2>2, <3>5
  <2> QED
    BY <2>3, <2>4
<1>7. CASE Begin(e)
  <2>1. pc[e] = "begin" /\ pc'[e] = "dispatch" /\ stored' = copy[e] /\ copy' = copy
    BY <1>1, <1>7 DEF Begin
  <2> QED
    BY <1>2, <1>3, <2>1 DEF DagOK, StoredKept, InSequence, steps
<1>8. CASE Dispatch(e)
  <2>1. pc[e] = "dispatch" /\ UNCHANGED stored /\ stored.steps = steps(e)
    BY <1>3, <1>8 DEF Dispatch, DagOK, Working
  <2>2. StoredKept(e)
    BY <1>3, <2>1 DEF StoredKept, DagOK, InSequence, InDag
  <2>3. CASE Return(e)
    BY <1>1, <2>2, <2>3, DagReturn
  <2>4. CASE ~Return(e)
    <3>1. UNCHANGED <<copy, caller, inflight>> /\ inflight[e] = {}
      BY <1>1, <1>8, <2>1, <2>4 DEF Dispatch, IndicesOK
    <3>2. \/ pc'[e] = "seq" /\ (caller[e].stream \/ ~IsDag(steps(e)))
          \/ pc'[e] = "dag" /\ ValidDag(steps(e)) /\ IsDag(steps(e))
      BY <1>1, <1>8, <2>4 DEF Dispatch
    <3>3. pc'[e] = "dag" => DagSteps(steps(e), {})
      BY <1>2, <1>3, <2>1, <3>2, DagStarts DEF DagOK
    <3>4. DagOK(e)'
      BY <2>1, <3>1, <3>2, <3>3 DEF DagOK, InSequence, steps
    <3> QED
      BY <2>2, <3>4
  <2> QED
    BY <2>3, <2>4
<1>9. CASE StartStep(e)
  <2>1. PICK i \in Unfinished(steps(e)) :
           /\ Checkpoint(e, With(copy[e], Mark(steps(e), {i}, "running")))
           /\ Goto(e, IF IsApproval(e, i) THEN "approval" ELSE "turn")
    BY <1>9 DEF StartStep
  <2>2. SameShape(steps(e), Mark(steps(e), {i}, "running"))
    BY <1>2, MarkShape DEF StepStatuses
  <2>3. /\ InSequence(e) /\ pc'[e] \in {"seq", "turn", "approval"}
        /\ caller'[e] = caller[e] /\ stored' = copy'[e]
        /\ copy'[e] = With(copy[e], Mark(steps(e), {i}, "running"))
    BY <1>1, <1>9, <2>1 DEF StartStep, InSequence
  <2> QED
    BY <1>3, <1>4, <2>2, <2>3, DagSequence
<1>10. CASE PanicOnTarget(e)
  <2>1. /\ pc[e] = "seq" /\ UNCHANGED stored /\ ~caller[e].stream /\ Return(e)
    BY <1>10 DEF PanicOnTarget, TargetMissing
  <2>2. ~IsDag(stored.steps)
    BY <1>3, <2>1 DEF DagOK, InSequence, Working
  <2> QED
    BY <1>1, <2>1, <2>2, DagReturn DEF StoredKept
<1>11. CASE ResolveApproval(e)
  <2>1. cur[e] \in DOMAIN steps(e) /\ pc[e] = "approval" /\ caller' = caller
    BY <1>1, <1>11 DEF ResolveApproval, IndicesOK
  <2>2. /\ SameShape(steps(e), CompleteStep(steps(e), cur[e], "approved"))
        /\ SameShape(steps(e), Mark(steps(e), {cur[e]}, "failed"))
    BY <1>2, <2>1, CompleteShape, MarkShape DEF StepStatuses, Results
  <2>3. /\ InSequence(e) /\ pc'[e] = "seq" /\ stored' = copy'[e]
        /\ \/ copy'[e] = With(copy[e], CompleteStep(steps(e), cur[e], "approved"))
           \/ copy'[e].steps = Mark(steps(e), {cur[e]}, "failed")
    BY <1>1, <1>11, <2>1 DEF ResolveApproval, InSequence
  <2>4. IsDag(copy'[e].steps) => IsDag(steps(e))
    BY <1>4, <2>2, <2>3
  <2> QED
    BY <1>3, <2>1, <2>3, <2>4, DagSequence
<1>12. CASE TurnCompletes(e)
  <2>1. cur[e] \in DOMAIN steps(e) /\ pc[e] = "turn" /\ caller' = caller
    BY <1>1, <1>12 DEF TurnCompletes, IndicesOK
  <2>2. SameShape(steps(e), CompleteStep(steps(e), cur[e], "text"))
    BY <1>2, <2>1, CompleteShape DEF Results
  <2>3. /\ InSequence(e) /\ pc'[e] = "seq" /\ stored' = copy'[e]
        /\ copy'[e] = With(copy[e], CompleteStep(steps(e), cur[e], "text"))
    BY <1>1, <1>12, <2>1 DEF TurnCompletes, InSequence
  <2> QED
    BY <1>3, <1>4, <2>1, <2>2, <2>3, DagSequence
<1>13. CASE TurnRejects(e)
  <2>1. /\ cur[e] \in DOMAIN steps(e) /\ pc[e] = "turn" /\ caller' = caller
        /\ steps(e)[cur[e]].left > 0
    BY <1>1, <1>13 DEF TurnRejects, IndicesOK, MayRevise
  <2>2. /\ Revise(steps(e), cur[e]) \in Seq(StepRecord)
        /\ IsDag(Revise(steps(e), cur[e])) => IsDag(steps(e))
    <3>1. steps(e) \in Seq(StepRecord)
      BY <1>2
    <3> QED
      BY <2>1, <3>1, ReviseShape, ReviseNotDag
  <2>3. /\ InSequence(e) /\ pc'[e] = "seq" /\ stored' = copy'[e]
        /\ copy'[e] = With(copy[e], Revise(steps(e), cur[e]))
    BY <1>1, <1>13, <2>1 DEF TurnRejects, InSequence
  <2>4. IsDag(copy'[e].steps) => IsDag(steps(e))
    BY <1>2, <2>2, <2>3, WithTyped
  <2> QED
    BY <1>3, <2>1, <2>3, <2>4, DagSequence
<1>14. CASE TurnFails(e)
  <2>1. cur[e] \in DOMAIN steps(e) /\ pc[e] = "turn"
    BY <1>1, <1>14 DEF TurnFails, IndicesOK
  <2>2. CASE Exhausted(steps(e)[cur[e]])
    <3>1. Return(e) /\ IsTerminal(stored'.status)
      BY <1>14, <2>2 DEF TurnFails, SaveAndReturn, IsTerminal
    <3> QED
      BY <1>1, <3>1, DagReturn DEF StoredKept
  <2>3. CASE ~Exhausted(steps(e)[cur[e]])
    <3>1. SameShape(steps(e), RetryStep(steps(e), cur[e]))
      BY <1>2, <2>1, RetryShape
    <3>2. /\ InSequence(e) /\ pc'[e] = "seq" /\ stored' = copy'[e] /\ caller' = caller
          /\ copy'[e] = With(copy[e], RetryStep(steps(e), cur[e]))
      BY <1>1, <1>14, <2>1, <2>3 DEF TurnFails, InSequence
    <3> QED
      BY <1>3, <1>4, <3>1, <3>2, DagSequence
  <2> QED
    BY <2>2, <2>3
<1>15. CASE FinishSequential(e) \/ FailDag(e) \/ FinishDag(e)
  <2>1. Return(e) /\ IsTerminal(stored'.status)
    BY <1>2, <1>15
    DEF FinishSequential, FailDag, FinishDag, SaveAndReturn, IsTerminal, MissionRecord
  <2> QED
    BY <1>1, <2>1, DagReturn DEF StoredKept
<1>16. CASE StartBatch(e)
  <2> DEFINE t == Mark(steps(e), Ready(steps(e)), "running")
  <2>1. /\ pc[e] = "dag" /\ pc'[e] = "join" /\ copy'[e] = With(copy[e], t)
        /\ inflight'[e] = Ready(steps(e))
    <3>1. Ready(steps(e)) \in SUBSET Nat
      BY <1>2, LenProperties DEF Ready
    <3> QED
      BY <1>1, <1>16, <3>1 DEF StartBatch
  <2>2. inflight[e] = {}
    BY <1>1, <2>1 DEF IndicesOK
  <2>3. DagSteps(t, Ready(steps(e)))
    BY <1>2, <1>3, <2>1, <2>2, DagBatch DEF DagOK
  <2>4. SameShape(steps(e), t)
    BY <1>2, MarkShape DEF StepStatuses
  <2> HIDE DEF t
  <2>5. copy'[e].steps = t
    BY <1>4, <2>1, <2>4
  <2> QED
    BY <2>1, <2>3, <2>5 DEF DagOK, StoredKept, InSequence, InDag, steps
<1>17. ASSUME NEW i \in inflight[e], JoinOk(e, i) \/ JoinErr(e, i)
       PROVE  DagOK(e)' /\ StoredKept(e)
  <2>1. /\ pc[e] = "join" /\ pc' = pc /\ inflight'[e] = inflight[e] \ {i}
        /\ UNCHANGED stored
    BY <1>1, <1>17 DEF JoinOk, JoinErr
  <2>2. /\ i \in DOMAIN steps(e) /\ DagSteps(steps(e), inflight[e])
    BY <1>1, <1>3, <2>1 DEF IndicesOK, DagOK
  <2>3. PICK t \in Seq(StepRecord) :
           /\ copy'[e] = With(copy[e], t)
           /\ DagSteps(t, inflight[e] \ {i})
    <3>1. CASE JoinOk(e, i)
      <4> DEFINE t == CompleteStep(steps(e), i, "text")
      <4>1. /\ SameShape(steps(e), t)
            /\ \A k \in DOMAIN steps(e) :
                  t[k].status = IF k = i THEN "completed" ELSE steps(e)[k].status
        BY <1>2, <2>2, CompleteShape DEF Results
      <4>2. copy'[e] = With(copy[e], t)
        BY <1>1, <3>1 DEF JoinOk
      <4> HIDE DEF t
      <4>3. DagSteps(t, inflight[e] \ {i})
        BY <1>2, <2>2, <4>1, DagReturns
      <4> QED
        BY <4>1, <4>2, <4>3 DEF SameShape
    <3>2. CASE JoinErr(e, i) /\ Exhausted(steps(e)[i])
      <4> DEFINE t == SkipDownstream(FailStep(steps(e), i), i)
      <4>1. t \in Seq(StepRecord)
        <5>1. FailStep(steps(e), i) \in Seq(StepRecord)
          BY <1>2, <2>2, FailShape DEF SameShape
        <5> QED
          BY <5>1, MarkShape DEF SkipDownstream, SameShape, StepStatuses
      <4>2. copy'[e] = With(copy[e], t)
        BY <1>1, <3>2 DEF JoinErr
      <4>3. DagSteps(t, inflight[e] \ {i})
        BY <1>2, <2>2, DagFails
      <4> HIDE DEF t
      <4> QED
        BY <4>1, <4>2, <4>3
    <3>3. CASE JoinErr(e, i) /\ ~Exhausted(steps(e)[i])
      <4> DEFINE t == RetryStep(steps(e), i)
      <4>1. /\ SameShape(steps(e), t)
            /\ \A k \in DOMAIN steps(e) :
                  t[k].status = IF k = i THEN "pending" ELSE steps(e)[k].status
        BY <1>2, <2>2, RetryShape
      <4>2. copy'[e] = With(copy[e], t)
        BY <1>1, <3>3 DEF JoinErr
      <4> HIDE DEF t
      <4>3. DagSteps(t, inflight[e] \ {i})
        BY <1>2, <2>2, <4>1, DagReturns
      <4> QED
        BY <4>1, <4>2, <4>3 DEF SameShape
    <3> QED
      BY <1>17, <3>1, <3>2, <3>3
  <2>4. copy'[e].steps = t
    BY <1>2, <2>3, WithTyped
  <2> QED
    BY <2>1, <2>3, <2>4 DEF DagOK, StoredKept, InSequence, InDag, steps
<1>18. CASE SaveBatch(e)
  <2>1. /\ pc[e] = "join" /\ pc'[e] \in {"dag", "dagfail"} /\ stored' = copy[e]
        /\ UNCHANGED <<copy, inflight>>
    BY <1>1, <1>18 DEF SaveBatch
  <2> QED
    BY <1>2, <1>3, <2>1 DEF DagOK, StoredKept, InSequence, InDag, steps
<1>19. CASE DagDeadlock(e)
  <2>1. pc[e] = "dag" /\ Ready(steps(e)) = {} /\ ~AllTerminal(steps(e))
    BY <1>19 DEF DagDeadlock, Stuck
  <2>2. DagSteps(steps(e), {})
    BY <1>1, <1>3, <2>1 DEF DagOK, IndicesOK
  <2> QED
    BY <1>2, <2>1, <2>2, DagProgress
<1> QED
  BY <1>5, <1>6, <1>7, <1>8, <1>9, <1>10, <1>11, <1>12, <1>13, <1>14, <1>15, <1>16,
     <1>17, <1>18, <1>19 DEF Execute

LEMMA FaultsLeft ==
    ASSUME left \in [Handlers -> Nat], left["fault"] <= Budget["fault"],
           NEW h \in Handlers, Spend(h)
    PROVE  /\ left'["fault"] <= Budget["fault"]
           /\ NoFault' => NoFault /\ h # "fault"
<1>1. "fault" \in Handlers /\ left["fault"] \in Nat /\ Budget["fault"] \in Nat
  BY BudgetAssumption DEF Handlers
<1>2. left'["fault"] = IF h = "fault" THEN left["fault"] - 1 ELSE left["fault"]
  BY <1>1 DEF Spend
<1> QED
  BY <1>1, <1>2 DEF NoFault

(* Nobody works on the mission, before the step or after it. *)
LEMMA IdleUndisturbed ==
    ASSUME Undisturbed,
           \A e \in Executors : ~Working(e) /\ ~Working(e)',
           stored' = stored \/ ~IsDag(stored'.steps) \/ IsTerminal(stored'.status)
              \/ AllPending(stored'.steps),
           cancelling' # NoMission => IsTerminal(cancelling'.status)
    PROVE  Undisturbed'
BY DEF Undisturbed, StoredFresh, DagOK, Working, InSequence, InDag

LEMMA DagNext ==
    ASSUME StoreIsExclusive, DagInv, [Next]_vars
    PROVE  DagInv'
<1>1. LockInv /\ LockInv' /\ TypeInv
  BY LockNext DEF DagInv, LockInv
<1>2. /\ pc \in [Executors -> PCs] /\ left \in [Handlers -> Nat]
      /\ left["fault"] <= Budget["fault"]
  BY <1>1 DEF DagInv, TypeInv, TypeOK
<1>3. ASSUME UNCHANGED left, NoFault => Undisturbed'
      PROVE  DagInv'
  BY <1>1, <1>2, <1>3 DEF DagInv, NoFault
<1>4. ASSUME NEW h \in Handlers \ {"fault"}, Spend(h), NoFault => Undisturbed'
      PROVE  DagInv'
  BY <1>1, <1>2, <1>4, FaultsLeft DEF DagInv
<1>5. ASSUME NEW e \in Executors, NEW c, Free, Launch(e, c),
             UNCHANGED cancelling, Undisturbed,
             stored' = stored \/ AllPending(stored'.steps)
      PROVE  Undisturbed'
  <2>1. \A f \in Executors : pc[f] \in {"idle", "open"}
    BY <1>1, <1>5 DEF Free
  <2>2. \A f \in Executors : pc'[f] \in {"idle", "open", "load"}
    BY <1>2, <1>5, <2>1 DEF Launch, Goto
  <2>3. \A f \in Executors : ~Working(f) /\ ~Working(f)'
    BY <2>1, <2>2 DEF Working
  <2>4. cancelling' # NoMission => IsTerminal(cancelling'.status)
    BY <1>5 DEF Undisturbed
  <2> QED
    BY <1>5, <2>3, <2>4, IdleUndisturbed
<1>6. ASSUME NEW e \in Executors, NEW c \in Creators, Create(e, c)
      PROVE  DagInv'
  <2>1. /\ Free /\ Launch(e, c) /\ UNCHANGED <<cancelling, left>>
        /\ \E plan \in Plans : stored' = [status |-> "planned", steps |-> plan]
    BY <1>6 DEF Create
  <2>2. AllPending(stored'.steps)
    BY <2>1, PlansAssumption DEF AllPending, IsPlan
  <2> QED
    BY <1>3, <1>5, <2>1, <2>2 DEF DagInv
<1>7. ASSUME NEW e \in Executors, NEW c \in Resumers, Resume(e, c)
      PROVE  DagInv'
  <2>1. /\ Free /\ Launch(e, c) /\ UNCHANGED <<stored, cancelling>>
        /\ Spend("resume")
    BY <1>7 DEF Resume
  <2> QED
    BY <1>4, <1>5, <2>1 DEF DagInv, Handlers
<1>8. ASSUME NEW e \in Executors, Execute(e)
      PROVE  DagInv'
  <2>1. left' = left
    BY <1>8
    DEF Execute, OpenStore, Load, Begin, Dispatch, StartStep, PanicOnTarget,
        ResolveApproval, TurnCompletes, TurnRejects, TurnFails, FinishSequential,
        StartBatch, JoinOk, JoinErr, SaveBatch, FailDag, FinishDag, DagDeadlock
  <2>2. ASSUME NoFault
        PROVE  Undisturbed'
    <3>1. Undisturbed
      BY <2>2 DEF DagInv
    <3>2. /\ UNCHANGED <<born, answering, cancelling>>
          /\ pc[e] = "open" \/ Holds(e)
          /\ pc[e] = "open" => Free \/ pc'[e] = "idle"
          /\ \A f \in Executors \ {e} :
                /\ pc'[f] = pc[f]
                /\ copy'[f] = copy[f]
                /\ caller'[f] = caller[f]
                /\ cur'[f] = cur[f]
                /\ inflight'[f] = inflight[f]
      BY <1>1, <1>8, ExecuteFrame
    <3>3. DagOK(e)' /\ StoredKept(e)
      BY <1>1, <1>8, <3>1, DagExecute
    <3>4. stored' = stored \/ Working(e)
      BY <1>1, <1>8, ExecuteStores
    <3>5. ASSUME NEW f \in Executors \ {e}
          PROVE  DagOK(f)'
      <4>1. DagOK(f) /\ UNCHANGED <<pc[f], copy[f], caller[f], inflight[f]>>
        BY <3>1, <3>2, <3>5 DEF Undisturbed
      <4>2. Working(f) => ~Working(e)
        BY <1>1, <3>5 DEF LockInv, Exclusion, Holds, Working
      <4>3. Working(f) => stored' = stored
        BY <3>4, <4>2
      <4> QED
        BY <4>1, <4>3 DEF DagOK, Working, InSequence, steps
    <3>6. StoredFresh'
      <4>1. CASE stored' = stored /\ ~InSequence(e) /\ ~InDag(e)
        <5>1. ASSUME NEW f \in Executors, InSequence(f) \/ InDag(f)
              PROVE  InSequence(f)' \/ InDag(f)'
          <6>1. f # e
            BY <4>1, <5>1
          <6>2. pc'[f] = pc[f]
            BY <3>2, <5>1, <6>1
          <6> QED
            BY <5>1, <6>2 DEF InSequence, InDag
        <5> QED
          BY <3>1, <4>1, <5>1 DEF Undisturbed, StoredFresh
      <4>2. CASE ~(stored' = stored /\ ~InSequence(e) /\ ~InDag(e))
        BY <3>3, <4>2 DEF StoredKept, StoredFresh
      <4> QED
        BY <4>1, <4>2
    <3>7. \A f \in Executors : DagOK(f)'
      BY <3>3, <3>5
    <3> QED
      BY <3>1, <3>2, <3>6, <3>7 DEF Undisturbed
  <2> QED
    BY <1>3, <2>1, <2>2
<1>9. CASE Crash \/ \E e \in Executors : Abort(e)
  <2>1. Spend("fault")
    BY <1>9 DEF Crash, Abort
  <2>2. left'["fault"] <= Budget["fault"] /\ ~NoFault'
    BY <1>2, <2>1, FaultsLeft DEF Handlers
  <2> QED
    BY <1>1, <2>2 DEF DagInv
<1>10. CASE CancelLoad
  <2>1. /\ Free /\ Spend("cancel") /\ UNCHANGED <<stored, pc>>
        /\ IsTerminal(cancelling'.status)
    BY <1>10 DEF CancelLoad, store, IsTerminal
  <2>2. \A f \in Executors : ~Working(f) /\ ~Working(f)'
    BY <1>1, <2>1 DEF Free, Working
  <2> QED
    BY <1>4, <2>1, <2>2, IdleUndisturbed DEF DagInv, Handlers
<1>11. CASE CancelSave
  <2>1. /\ cancelling # NoMission /\ stored' = cancelling
        /\ cancelling' = NoMission /\ UNCHANGED <<pc, left>>
    BY <1>11 DEF CancelSave, local
  <2>2. \A f \in Executors : ~Working(f) /\ ~Working(f)'
    BY <1>1, <2>1 DEF LockInv, Exclusion, Holds, Working
  <2>3. Undisturbed => IsTerminal(stored'.status)
    BY <2>1 DEF Undisturbed
  <2> QED
    BY <1>3, <2>1, <2>2, <2>3, IdleUndisturbed DEF DagInv
<1>12. CASE Delete
  <2>1. /\ Free /\ Spend("delete") /\ UNCHANGED <<pc, cancelling>>
        /\ stored' = NoMission
    BY <1>12 DEF Delete, local
  <2>2. \A f \in Executors : ~Working(f) /\ ~Working(f)'
    BY <1>1, <2>1 DEF Free, Working
  <2>3. ~IsDag(stored'.steps)
    BY <2>1 DEF NoMission, IsDag
  <2>4. Undisturbed => (cancelling' # NoMission => IsTerminal(cancelling'.status))
    BY <2>1 DEF Undisturbed
  <2> QED
    BY <1>4, <2>1, <2>2, <2>3, <2>4, IdleUndisturbed DEF DagInv, Handlers
<1>13. CASE Answer \/ Restart \/ UNCHANGED vars
  <2>1. UNCHANGED <<stored, pc, copy, caller, inflight, cancelling, left>>
    BY <1>13 DEF Answer, Restart, vars, local
  <2>2. Undisturbed => Undisturbed'
    BY <2>1
    DEF Undisturbed, StoredFresh, DagOK, InSequence, InDag, Working, steps
  <2> QED
    BY <1>3, <2>1, <2>2 DEF DagInv
<1> QED
  BY <1>6, <1>7, <1>8, <1>9, <1>10, <1>11, <1>12, <1>13 DEF Next

(* Where an open handle keeps others out of the task store and no fault    *)
(* has come between, a validated DAG never runs into the "DAG deadlock"    *)
(* error, for every plan: skip_downstream leaves no step waiting for a     *)
(* dependency that will not complete.                                      *)
THEOREM DagsProgress ==
    ASSUME StoreIsExclusive
    PROVE  Spec => []NoDagDeadlock
<1>1. Init => DagInv
  <2> SUFFICES ASSUME Init PROVE DagInv
    OBVIOUS
  <2>1. LockInv
    BY LockInit
  <2>2. left["fault"] <= Budget["fault"]
    <3>1. Budget["fault"] \in Nat
      BY BudgetAssumption DEF Handlers
    <3> QED
      BY <3>1 DEF Init
  <2> QED
    BY <2>1, <2>2
    DEF Init, DagInv, Undisturbed, DagOK, StoredFresh, InSequence, Working,
        IsDag, NoMission
<1>2. DagInv /\ [Next]_vars => DagInv'
  BY DagNext
<1>3. DagInv => NoDagDeadlock
  <2> SUFFICES ASSUME DagInv, NoFault, NEW e \in Executors, Stuck(e)
               PROVE  FALSE
    BY DEF NoDagDeadlock, NoFault
  <2>1. pc[e] = "dag" /\ Ready(steps(e)) = {} /\ ~AllTerminal(steps(e))
    BY DEF Stuck
  <2>2. steps(e) \in Seq(StepRecord) /\ inflight[e] = {}
    BY <2>1 DEF DagInv, LockInv, TypeInv, TypeOK, IndicesOK, MissionRecord, steps
  <2>3. DagSteps(steps(e), {})
    BY <2>1, <2>2 DEF DagInv, Undisturbed, DagOK
  <2> QED
    BY <2>1, <2>2, <2>3, DagProgress
<1> QED
  BY <1>1, <1>2, <1>3, PTL DEF Spec


-----------------------------------------------------------------------------
(* The contract of a mission: where handles on the task store exclude each *)
(* other and no fault, cancel or delete comes between, every step of the   *)
(* engine is one of MissionContract, however many executors there are and  *)
(* however often the mission is resumed.  What has to be known for it is   *)
(* that a save takes nothing completed back, and that a step is Skipped    *)
(* only where one has Failed, so a mission finalized as Completed has      *)
(* completed all of its steps.                                             *)

SkipFree(s) == \A i \in DOMAIN s : s[i].status # "skipped"

Grown(s, t) ==
    /\ DOMAIN s \subseteq DOMAIN t
    /\ CompletedSteps(s) \subseteq CompletedSteps(t)

SameWork(s, t) ==
    /\ DOMAIN t = DOMAIN s
    /\ CompletedSteps(t) = CompletedSteps(s)

ContractOK(e) ==
    /\ Working(e) /\ pc[e] # "begin" => stored.status = copy[e].status
    /\ Working(e) /\ ~InDag(e) => SkipFree(steps(e))
    /\ InDag(e) => SkipFree(steps(e)) \/ AnyFailed(steps(e))
    /\ pc[e] = "dag" /\ AllTerminal(steps(e)) =>
          SkipFree(steps(e)) /\ ~AnyFailed(steps(e))
    /\ pc[e] = "dagfail" => AnyFailed(steps(e))
    /\ pc[e] = "join" => Grown(stored.steps, steps(e))

StoredClean ==
    \/ IsTerminal(stored.status)
    \/ SkipFree(stored.steps)
    \/ \E e \in Executors : InDag(e)

(* What e leaves in the store has ended, has nothing skipped or is a DAG   *)
(* that e goes on with.                                                    *)
CleanKept(e) ==
    \/ IsTerminal(stored'.status)
    \/ SkipFree(stored'.steps)
    \/ InDag(e)'
    \/ UNCHANGED stored /\ ~InDag(e)

(* The actions of MissionContract as the store shows them. *)
Works ==
    /\ stored.status \in {"planned", "executing"}
    /\ stored'.status = "executing"
    /\ Grown(stored.steps, stored'.steps)

Ends ==
    /\ stored.status = "executing"
    /\ SameWork(stored.steps, stored'.steps)
    /\ \/ /\ stored'.status = "completed"
          /\ CompletedSteps(stored.steps) = DOMAIN stored.steps
       \/ /\ stored'.status = "failed"
          /\ CompletedSteps(stored.steps) # DOMAIN stored.steps

Keeps ==
    /\ stored'.status = stored.status
    /\ SameWork(stored.steps, stored'.steps)

Promised == Works \/ Ends \/ Keeps

LEMMA PromisedStep == Promised => [Promise!Next]_Promise!vars
BY DEF Promised, Works, Ends, Keeps, Grown, SameWork, CompletedSteps,
       Promise!Next, Promise!Work, Promise!Complete, Promise!Fail, Promise!vars

(* One step changes its status, and nothing else is done or skipped. *)
LEMMA OneChange ==
    ASSUME NEW s, NEW t, NEW i \in DOMAIN s, NEW st,
           DOMAIN t = DOMAIN s, s[i].status # "completed",
           \A k \in DOMAIN s : t[k].status = IF k = i THEN st ELSE s[k].status
    PROVE  /\ Grown(s, t)
           /\ st # "completed" => SameWork(s, t)
           /\ CompletedSteps(s) # DOMAIN s
           /\ SkipFree(s) /\ st # "skipped" => SkipFree(t)
BY DEF Grown, SameWork, CompletedSteps, SkipFree

LEMMA GrownFrom ==
    ASSUME NEW r, NEW s, NEW t, Grown(r, s), Grown(s, t)
    PROVE  Grown(r, t)
BY DEF Grown

LEMMA GrownSelf == \A s : Grown(s, s) /\ SameWork(s, s)
BY DEF Grown, SameWork

LEMMA ContractReturn ==
    ASSUME TypeInv, NEW e \in Executors, Return(e)
    PROVE  ContractOK(e)'
BY DEF TypeInv, TypeOK, Return, Goto, ContractOK, Working, InDag

(* A step of a sequential execution that goes on. *)
LEMMA ContractSequence ==
    ASSUME NEW e \in Executors, NEW t, InSequence(e),
           pc'[e] \in {"seq", "turn", "approval"},
           stored' = copy'[e], copy'[e].steps = t, SkipFree(t)
    PROVE  ContractOK(e)' /\ CleanKept(e)
BY DEF ContractOK, InSequence, CleanKept, steps, Working, InDag

(* What is skipped downstream of a step that fails for good. *)
LEMMA SkipWork ==
    ASSUME NEW s \in Seq(StepRecord), NEW i \in DOMAIN s, s[i].status = "running"
    PROVE  LET t == SkipDownstream(FailStep(s, i), i)
           IN  SameWork(s, t) /\ AnyFailed(t)
<1> DEFINE u == FailStep(s, i)
           t == SkipDownstream(u, i)
<1>1. /\ SameShape(s, u)
      /\ \A k \in DOMAIN s : u[k].status = IF k = i THEN "failed" ELSE s[k].status
  BY FailShape
<1> HIDE DEF u
<1> DEFINE S == {j \in Downstream(u, i) \ {i} : u[j].status \in {"pending", "running"}}
<1>2. /\ t = Mark(u, S, "skipped")
      /\ i \notin S
      /\ \A j \in S : u[j].status \in {"pending", "running"}
  BY DEF SkipDownstream
<1> HIDE DEF t, S
<1>3. /\ DOMAIN t = DOMAIN u
      /\ \A k \in DOMAIN u : t[k].status = IF k \in S THEN "skipped" ELSE u[k].status
  <2>1. u \in Seq(StepRecord)
    BY <1>1 DEF SameShape
  <2> QED
    BY <1>2, <2>1, MarkShape DEF SameShape, StepStatuses
<1>4. SameWork(s, t)
  BY <1>1, <1>2, <1>3 DEF SameShape, SameWork, CompletedSteps
<1>5. AnyFailed(t)
  BY <1>1, <1>2, <1>3 DEF SameShape, AnyFailed
<1> QED
  BY <1>4, <1>5 DEF t, u

LEMMA ContractExecute ==
    ASSUME StoreIsExclusive, LockInv, OrderInv, Undisturbed, StoredClean,
           NEW e \in Executors, ContractOK(e), Execute(e),
           Working(e) => stored.status # "none"
    PROVE  ContractOK(e)' /\ CleanKept(e) /\ Promised
<1> USE DEF Checkpoint, Goto, store, local
<1> DEFINE s == steps(e)
<1>1. /\ pc \in [Executors -> PCs] /\ copy \in [Executors -> MissionRecord]
      /\ inflight \in [Executors -> SUBSET Nat]
      /\ cur \in [Executors -> Nat]
      /\ stored \in MissionRecord
      /\ TypeInv /\ IndicesOK
  BY DEF LockInv, TypeInv, TypeOK
<1>2. /\ copy[e] \in MissionRecord /\ steps(e) = copy[e].steps
      /\ steps(e) \in Seq(StepRecord)
  BY <1>1 DEF MissionRecord, steps
<1>3. DagOK(e)
  BY DEF Undisturbed
<1>4. ExecutorOK(e) /\ WorkingOK(e)
  BY DEF LockInv, OrderInv
<1>5. Working(e) /\ pc[e] # "join" => stored.steps = s
  BY <1>3 DEF DagOK
<1>6. Working(e) => stored.status \in {"planned", "executing", "failed"}
  BY <1>1, <1>4 DEF WorkingOK, IsTerminal, MissionRecord, TaskStatuses
<1>7. UNCHANGED stored => Promised
  BY GrownSelf DEF Promised, Keeps
(* What an executor at work saves of what it goes on with. *)
<1>8. ASSUME Working(e), pc[e] \notin {"begin", "join"}, NEW t,
             stored'.status = copy[e].status, stored'.steps = t,
             \/ Grown(s, t) /\ copy[e].status = "executing"
             \/ SameWork(s, t)
      PROVE  Promised
  <2>1. stored.steps = s /\ stored.status = copy[e].status
    BY <1>5, <1>8 DEF ContractOK
  <2> QED
    BY <1>8, <2>1 DEF Promised, Works, Keeps
<1>9. ASSUME pc[e] \in {"turn", "dag", "dagfail"}
      PROVE  copy[e].status = "executing" /\ stored.status = "executing" /\ Working(e)
  BY <1>4, <1>9 DEF WorkingOK, Condemned, Working, ContractOK
<1>10. CASE OpenStore(e)
  <2>1. UNCHANGED stored /\ pc[e] = "open"
    BY <1>10 DEF OpenStore
  <2>2. pc'[e] \in {"idle", "load"}
    BY <1>1, <1>10 DEF OpenStore, Return
  <2> QED
    BY <1>7, <2>1, <2>2 DEF ContractOK, CleanKept, Working, InDag
<1>11. CASE Load(e)
  <2>1. UNCHANGED stored /\ pc[e] = "load"
    BY <1>11 DEF Load
  <2>2. CleanKept(e)
    BY <2>1 DEF CleanKept, InDag
  <2>3. CASE Return(e)
    BY <1>1, <1>7, <2>1, <2>2, <2>3, ContractReturn
  <2>4. CASE ~Return(e)
    <3>1. /\ ~IsTerminal(stored.status)
          /\ copy' = [copy EXCEPT ![e] = [stored EXCEPT !.status = "executing"]]
          /\ pc' = [pc EXCEPT ![e] = "begin"]
      BY <1>11, <2>4 DEF Load
    <3>2. SkipFree(stored.steps)
      BY <2>1, <3>1 DEF StoredClean, LockInv, Exclusion, Holds, InDag
    <3>3. pc'[e] = "begin" /\ copy'[e].steps = stored.steps
      BY <1>1, <3>1, StatusTyped DEF TaskStatuses
    <3>4. ContractOK(e)'
      BY <3>2, <3>3 DEF ContractOK, InDag, steps
    <3> QED
      BY <1>7, <2>1, <2>2, <3>4
  <2> QED
    BY <2>3, <2>4
<1>12. CASE Begin(e)
  <2>1. pc[e] = "begin" /\ pc'[e] = "dispatch" /\ stored' = copy[e] /\ copy' = copy
    BY <1>1, <1>12 DEF Begin
  <2>2. /\ Working(e) /\ ~InDag(e) /\ SkipFree(s)
        /\ copy[e].status = "executing" /\ stored.status \in {"planned", "executing"}
    BY <1>4, <1>6, <2>1
    DEF WorkingOK, Condemned, Working, InDag, ContractOK, IsTerminal
  <2>3. Works
    BY <1>2, <1>5, <2>1, <2>2, GrownSelf DEF Works
  <2> QED
    BY <1>2, <2>1, <2>2, <2>3 DEF ContractOK, CleanKept, InDag, steps, Promised
<1>13. CASE Dispatch(e)
  <2>1. /\ pc[e] = "dispatch" /\ UNCHANGED stored
        /\ SkipFree(s) /\ stored.status = copy[e].status
    BY <1>13 DEF Dispatch, ContractOK, Working, InDag
  <2>2. CleanKept(e)
    BY <2>1 DEF CleanKept, InDag
  <2>3. CASE Return(e)
    BY <1>1, <1>7, <2>1, <2>2, <2>3, ContractReturn
  <2>4. CASE ~Return(e)
    <3>1. UNCHANGED <<copy, caller, inflight>>
      BY <1>1, <1>13, <2>1, <2>4 DEF Dispatch, IndicesOK
    <3>2. pc'[e] = "seq" \/ (pc'[e] = "dag" /\ IsDag(s))
      BY <1>1, <1>13, <2>4 DEF Dispatch
    <3>3. IsDag(s) => ~AnyFailed(s)
      BY <1>3, <2>1 DEF DagOK, AllPending, AnyFailed
    <3>4. ContractOK(e)'
      BY <2>1, <3>1, <3>2, <3>3 DEF ContractOK, InDag, steps
    <3> QED
      BY <1>7, <2>1, <2>2, <3>4
  <2> QED
    BY <2>3, <2>4
<1>14. CASE StartStep(e)
  <2>1. PICK i \in Unfinished(s) :
           /\ Checkpoint(e, With(copy[e], Mark(s, {i}, "running")))
           /\ Goto(e, IF IsApproval(e, i) THEN "approval" ELSE "turn")
    BY <1>14 DEF StartStep
  <2> DEFINE t == Mark(s, {i}, "running")
  <2>2. /\ SameShape(s, t)
        /\ \A k \in DOMAIN s : t[k].status = IF k = i THEN "running" ELSE s[k].status
    BY <1>2, MarkShape DEF StepStatuses
  <2>3. /\ pc[e] = "seq" /\ pc'[e] \in {"turn", "approval"}
        /\ stored' = With(copy[e], t) /\ copy'[e] = With(copy[e], t)
    BY <1>1, <1>14, <2>1 DEF StartStep
  <2>4. i \in DOMAIN s /\ s[i].status # "completed"
    BY <2>1 DEF Unfinished
  <2> HIDE DEF t
  <2>5. With(copy[e], t).status = copy[e].status /\ With(copy[e], t).steps = t
    BY <1>2, <2>2, WithShape
  <2>6. Working(e) /\ ~InDag(e) /\ InSequence(e)
    BY <2>3 DEF Working, InDag, InSequence
  <2>7. SameWork(s, t) /\ SkipFree(t)
    <3>1. DOMAIN t = DOMAIN s /\ SkipFree(s)
      BY <2>2, <2>6 DEF SameShape, ContractOK
    <3> QED
      BY <2>2, <2>4, <3>1, OneChange
  <2> QED
    BY <1>8, <2>3, <2>5, <2>6, <2>7, ContractSequence
<1>15. CASE PanicOnTarget(e)
  <2>1. pc[e] = "seq" /\ UNCHANGED stored /\ Return(e)
    BY <1>15 DEF PanicOnTarget
  <2> QED
    BY <1>1, <1>7, <2>1, ContractReturn DEF CleanKept, InDag
<1>16. CASE ResolveApproval(e)
  <2> DEFINE i == cur[e]
  <2>1. /\ i \in DOMAIN s /\ pc[e] = "approval" /\ pc'[e] = "seq"
        /\ Working(e) /\ ~InDag(e) /\ InSequence(e) /\ AtGate(e)
    BY <1>1, <1>4, <1>16
    DEF ResolveApproval, IndicesOK, Working, InDag, InSequence, WorkingOK
  <2>2. s[i].status # "completed"
    BY <2>1 DEF AtGate, IsNext, Unfinished
  <2>3. /\ stored.status = copy[e].status /\ stored.steps = s /\ SkipFree(s)
        /\ \/ copy[e].status = "executing"
           \/ copy[e].status = "failed" /\ Condemned(e)
    BY <1>4, <1>5, <2>1 DEF ContractOK, WorkingOK
  <2>4. CASE Approved(e)
    <3> DEFINE t == CompleteStep(s, i, "approved")
    <3>1. /\ SameShape(s, t)
          /\ \A k \in DOMAIN s : t[k].status = IF k = i THEN "completed" ELSE s[k].status
      BY <1>2, <2>1, CompleteShape DEF Results
    <3>2. stored' = With(copy[e], t) /\ copy'[e] = With(copy[e], t)
      BY <1>1, <1>16, <2>4 DEF ResolveApproval
    <3> HIDE DEF t, i
    <3>3. With(copy[e], t).status = copy[e].status /\ With(copy[e], t).steps = t
      BY <1>2, <3>1, WithShape
    <3>4. Grown(s, t) /\ SkipFree(t)
      <4>1. i \in DOMAIN s /\ SkipFree(s) /\ DOMAIN t = DOMAIN s
        BY <2>1, <2>3, <3>1 DEF SameShape
      <4> QED
        BY <2>2, <3>1, <4>1, OneChange
    <3>5. copy[e].status = "executing"
      <4>1. Condemned(e) => ~caller[e].channel /\ s[i].kind = "gate"
        BY <1>2, <2>1, NextUnique DEF Condemned, AtGate, i
      <4> QED
        BY <2>3, <2>4, <4>1 DEF Approved, i
    <3> QED
      BY <1>8, <2>1, <3>2, <3>3, <3>4, <3>5, ContractSequence
  <2>5. CASE ~Approved(e)
    <3> DEFINE t == Mark(s, {i}, "failed")
    <3>1. /\ SameShape(s, t)
          /\ \A k \in DOMAIN s : t[k].status = IF k = i THEN "failed" ELSE s[k].status
      BY <1>2, MarkShape DEF StepStatuses
    <3>2. stored' = [status |-> "failed", steps |-> t] /\ copy'[e] = stored'
      BY <1>1, <1>16, <2>5 DEF ResolveApproval
    <3> HIDE DEF t, i
    <3>3. stored'.status = "failed" /\ stored'.steps = t
      BY <3>2
    <3>4. SameWork(s, t) /\ SkipFree(t) /\ CompletedSteps(s) # DOMAIN s
      <4>1. i \in DOMAIN s /\ SkipFree(s) /\ DOMAIN t = DOMAIN s
        BY <2>1, <2>3, <3>1 DEF SameShape
      <4> QED
        BY <2>2, <3>1, <4>1, OneChange
    <3>5. Promised
      BY <2>3, <3>3, <3>4 DEF Promised, Ends, Keeps
    <3> QED
      BY <2>1, <3>2, <3>3, <3>4, <3>5, ContractSequence
  <2> QED
    BY <2>4, <2>5
<1>17. ASSUME pc[e] = "turn"
       PROVE  /\ cur[e] \in DOMAIN s /\ s[cur[e]].status = "running" /\ SkipFree(s)
              /\ Working(e) /\ ~InDag(e) /\ InSequence(e)
              /\ copy[e].status = "executing" /\ stored.status = "executing"
              /\ stored.steps = s
  BY <1>1, <1>4, <1>5, <1>9, <1>17
  DEF IndicesOK, ExecutorOK, ContractOK, Working, InDag, InSequence
(* A turn whose outcome the executor saves and goes on from. *)
<1>18. ASSUME pc[e] = "turn", pc'[e] = "seq", NEW t,
              With(copy[e], t).status = copy[e].status, With(copy[e], t).steps = t,
              stored' = With(copy[e], t), copy'[e] = With(copy[e], t),
              Grown(s, t), SkipFree(t)
       PROVE  ContractOK(e)' /\ CleanKept(e) /\ Promised
  <2>1. Promised
    BY <1>8, <1>17, <1>18
  <2> QED
    BY <1>17, <1>18, <2>1, ContractSequence
<1>19. CASE TurnCompletes(e)
  <2> DEFINE i == cur[e]
             t == CompleteStep(s, i, "text")
  <2>1. /\ pc[e] = "turn" /\ pc'[e] = "seq"
        /\ stored' = With(copy[e], t) /\ copy'[e] = With(copy[e], t)
    BY <1>1, <1>19 DEF TurnCompletes
  <2>2. i \in DOMAIN s /\ s[i].status # "completed" /\ SkipFree(s)
    BY <1>17, <2>1
  <2>3. /\ SameShape(s, t)
        /\ \A k \in DOMAIN s : t[k].status = IF k = i THEN "completed" ELSE s[k].status
    BY <1>2, <2>2, CompleteShape DEF Results
  <2> HIDE DEF t, i
  <2>4. With(copy[e], t).status = copy[e].status /\ With(copy[e], t).steps = t
    BY <1>2, <2>3, WithShape
  <2>5. DOMAIN t = DOMAIN s
    BY <2>3 DEF SameShape
  <2>6. Grown(s, t) /\ SkipFree(t)
    BY <2>2, <2>3, <2>5, OneChange
  <2> QED
    BY <1>18, <2>1, <2>4, <2>6
<1>20. CASE TurnRejects(e)
  <2> DEFINE i == cur[e]
             t == Revise(s, i)
  <2>1. /\ pc[e] = "turn" /\ pc'[e] = "seq" /\ s[i].left > 0
        /\ stored' = With(copy[e], t) /\ copy'[e] = With(copy[e], t)
    BY <1>1, <1>20 DEF TurnRejects, MayRevise
  <2>2. i \in DOMAIN s /\ SkipFree(s)
    BY <1>17, <2>1
  <2>3. /\ t \in Seq(StepRecord)
        /\ \A k \in DOMAIN s :
              k \in DOMAIN t /\ t[k].status = IF k = i THEN "completed" ELSE s[k].status
        /\ \A k \in DOMAIN t \ DOMAIN s : t[k].status = "pending"
    <3>1. s \in Seq(StepRecord)
      BY <1>2
    <3> HIDE DEF s, i
    <3> QED
      BY <2>1, <2>2, <3>1, ReviseShape
  <2> HIDE DEF t, i
  <2>4. With(copy[e], t).status = copy[e].status /\ With(copy[e], t).steps = t
    BY <1>2, <2>3, WithTyped
  <2>5. Grown(s, t) /\ SkipFree(t)
    BY <2>2, <2>3 DEF Grown, CompletedSteps, SkipFree
  <2> QED
    BY <1>18, <2>1, <2>4, <2>5
<1>21. CASE TurnFails(e)
  <2> DEFINE i == cur[e]
  <2>1. pc[e] = "turn"
    BY <1>21 DEF TurnFails
  <2>2. i \in DOMAIN s /\ s[i].status # "completed" /\ SkipFree(s)
    BY <1>17, <2>1
  <2>3. CASE Exhausted(s[i])
    <3> DEFINE t == FailStep(s, i)
    <3>1. /\ SameShape(s, t)
          /\ \A k \in DOMAIN s : t[k].status = IF k = i THEN "failed" ELSE s[k].status
      BY <1>2, <2>2, FailShape
    <3>2. stored' = [status |-> "failed", steps |-> t] /\ Return(e)
      BY <1>21, <2>3 DEF TurnFails, SaveAndReturn
    <3> HIDE DEF t, i
    <3>3. stored'.status = "failed" /\ stored'.steps = t /\ DOMAIN t = DOMAIN s
      BY <3>1, <3>2 DEF SameShape
    <3>4. SameWork(s, t) /\ CompletedSteps(s) # DOMAIN s
      BY <2>2, <3>1, <3>3, OneChange
    <3>5. Promised /\ CleanKept(e)
      BY <1>17, <2>1, <3>3, <3>4 DEF Promised, Ends, CleanKept, IsTerminal
    <3> QED
      BY <1>1, <3>2, <3>5, ContractReturn
  <2>4. CASE ~Exhausted(s[i])
    <3> DEFINE t == RetryStep(s, i)
    <3>1. /\ SameShape(s, t)
          /\ \A k \in DOMAIN s : t[k].status = IF k = i THEN "pending" ELSE s[k].status
      BY <1>2, <2>2, RetryShape
    <3>2. /\ pc'[e] = "seq" /\ stored' = With(copy[e], t)
          /\ copy'[e] = With(copy[e], t)
      BY <1>1, <1>21, <2>4 DEF TurnFails
    <3> HIDE DEF t, i
    <3>3. With(copy[e], t).status = copy[e].status /\ With(copy[e], t).steps = t
      BY <1>2, <3>1, WithShape
    <3>4. DOMAIN t = DOMAIN s
      BY <3>1 DEF SameShape
    <3>5. Grown(s, t) /\ SkipFree(t)
      BY <2>2, <3>1, <3>4, OneChange
    <3> QED
      BY <1>18, <2>1, <3>2, <3>3, <3>5
  <2> QED
    BY <2>3, <2>4
(* A mission that is finalized. *)
<1>22. ASSUME NEW m, SaveAndReturn(e, m), m.steps = copy[e].steps,
              Working(e), pc[e] # "join", stored.status = "executing",
              \/ m.status = "completed" /\ CompletedSteps(s) = DOMAIN s
              \/ m.status = "failed" /\ CompletedSteps(s) # DOMAIN s
       PROVE  ContractOK(e)' /\ CleanKept(e) /\ Promised
  <2>1. /\ Return(e) /\ stored'.status = m.status /\ stored'.steps = s
        /\ stored.steps = s
    BY <1>2, <1>5, <1>22 DEF SaveAndReturn
  <2>2. Promised /\ CleanKept(e)
    BY <1>22, <2>1, GrownSelf DEF Promised, Ends, CleanKept, IsTerminal
  <2> QED
    BY <1>1, <2>1, <2>2, ContractReturn
<1>23. CASE FinishSequential(e)
  <2>1. /\ pc[e] = "seq" /\ Unfinished(s) = {}
        /\ SaveAndReturn(e, [copy[e] EXCEPT !.status = "completed"])
    BY <1>23 DEF FinishSequential
  <2>2. Working(e) /\ ~InDag(e) /\ SkipFree(s)
    BY <2>1 DEF Working, InDag, ContractOK
  <2>3. ~Condemned(e)
    BY <2>1 DEF Condemned, IsNext
  <2>4. stored.status = "executing"
    BY <1>4, <2>1, <2>2, <2>3 DEF WorkingOK, ContractOK
  <2>5. CompletedSteps(s) = DOMAIN s
    <3>1. \A k \in DOMAIN s : s[k].status \in StepStatuses
      <4>1. \A k \in DOMAIN s : s[k] \in StepRecord
        BY <1>2, ElementOfSeq, LenProperties
      <4> QED
        BY <4>1 DEF StepRecord
    <3> QED
      BY <2>1, <2>2, <3>1 DEF Unfinished, SkipFree, CompletedSteps, StepStatuses
  <2>6. /\ [copy[e] EXCEPT !.status = "completed"].steps = copy[e].steps
        /\ [copy[e] EXCEPT !.status = "completed"].status = "completed"
    BY <1>2, StatusTyped DEF TaskStatuses
  <2> HIDE DEF s
  <2> QED
    BY <1>22, <2>1, <2>2, <2>4, <2>5, <2>6
<1>24. CASE FailDag(e)
  <2>1. /\ pc[e] = "dagfail"
        /\ SaveAndReturn(e, [copy[e] EXCEPT !.status = "failed"])
    BY <1>24 DEF FailDag
  <2>2. AnyFailed(s)
    BY <2>1 DEF ContractOK
  <2>3. CompletedSteps(s) # DOMAIN s
    BY <2>2 DEF AnyFailed, CompletedSteps
  <2>4. /\ [copy[e] EXCEPT !.status = "failed"].steps = copy[e].steps
        /\ [copy[e] EXCEPT !.status = "failed"].status = "failed"
    BY <1>2, StatusTyped DEF TaskStatuses
  <2> HIDE DEF s
  <2> QED
    BY <1>9, <1>22, <2>1, <2>3, <2>4
<1>25. CASE FinishDag(e)
  <2>1. /\ pc[e] = "dag" /\ AllTerminal(s)
        /\ SaveAndReturn(e, [copy[e] EXCEPT !.status = "completed"])
    BY <1>25 DEF FinishDag
  <2>2. SkipFree(s) /\ ~AnyFailed(s)
    BY <2>1 DEF ContractOK
  <2>3. CompletedSteps(s) = DOMAIN s
    BY <2>1, <2>2 DEF AllTerminal, SkipFree, AnyFailed, CompletedSteps
  <2>4. /\ [copy[e] EXCEPT !.status = "completed"].steps = copy[e].steps
        /\ [copy[e] EXCEPT !.status = "completed"].status = "completed"
    BY <1>2, StatusTyped DEF TaskStatuses
  <2> HIDE DEF s
  <2> QED
    BY <1>9, <1>22, <2>1, <2>3, <2>4
<1>26. CASE StartBatch(e)
  <2> DEFINE R == Ready(s)
             t == Mark(s, R, "running")
  <2>1. /\ pc[e] = "dag" /\ pc'[e] = "join"
        /\ stored' = With(copy[e], t) /\ copy'[e] = With(copy[e], t)
    BY <1>1, <1>26 DEF StartBatch
  <2>2. /\ SameShape(s, t)
        /\ \A k \in DOMAIN s : t[k].status = IF k \in R THEN "running" ELSE s[k].status
    BY <1>2, MarkShape DEF StepStatuses
  <2>3. \A k \in R : s[k].status = "pending"
    BY DEF Ready
  <2>4. SkipFree(s) \/ AnyFailed(s)
    BY <2>1 DEF ContractOK, InDag
  <2> HIDE DEF t, R
  <2>5. With(copy[e], t).status = copy[e].status /\ With(copy[e], t).steps = t
    BY <1>2, <2>2, WithShape
  <2>6. SameWork(s, t)
    BY <2>2, <2>3 DEF SameShape, SameWork, CompletedSteps
  <2>7. SkipFree(t) \/ AnyFailed(t)
    BY <2>2, <2>3, <2>4 DEF SameShape, SkipFree, AnyFailed
  <2>8. Working(e) /\ copy[e].status = "executing"
    BY <1>9, <2>1
  <2>9. Promised
    BY <1>8, <2>1, <2>5, <2>6, <2>8
  <2> QED
    BY <2>1, <2>5, <2>7, <2>9, GrownSelf DEF ContractOK, CleanKept, InDag, steps
<1>27. ASSUME NEW i \in inflight[e], JoinOk(e, i) \/ JoinErr(e, i)
       PROVE  ContractOK(e)' /\ CleanKept(e) /\ Promised
  <2>1. /\ pc[e] = "join" /\ pc' = pc /\ UNCHANGED stored
    BY <1>1, <1>27 DEF JoinOk, JoinErr
  <2>2. /\ i \in DOMAIN s /\ s[i].status = "running"
    BY <1>1, <1>3, <2>1 DEF IndicesOK, DagOK, DagSteps
  <2>3. /\ SkipFree(s) \/ AnyFailed(s)
        /\ Grown(stored.steps, s)
        /\ stored.status = copy[e].status
    BY <2>1 DEF ContractOK, InDag, Working
  <2>4. PICK t \in Seq(StepRecord) :
           /\ copy'[e] = With(copy[e], t)
           /\ Grown(s, t)
           /\ SkipFree(t) \/ AnyFailed(t)
    <3>1. CASE JoinOk(e, i)
      <4> DEFINE t == CompleteStep(s, i, "text")
      <4>1. /\ SameShape(s, t)
            /\ \A k \in DOMAIN s : t[k].status = IF k = i THEN "completed" ELSE s[k].status
        BY <1>2, <2>2, CompleteShape DEF Results
      <4>2. copy'[e] = With(copy[e], t)
        BY <1>1, <3>1 DEF JoinOk
      <4> HIDE DEF t
      <4>3. Grown(s, t)
        BY <2>2, <4>1, OneChange DEF SameShape
      <4>4. SkipFree(t) \/ AnyFailed(t)
        BY <2>2, <2>3, <4>1 DEF SameShape, SkipFree, AnyFailed
      <4> QED
        BY <4>1, <4>2, <4>3, <4>4 DEF SameShape
    <3>2. CASE JoinErr(e, i) /\ Exhausted(s[i])
      <4> DEFINE t == SkipDownstream(FailStep(s, i), i)
      <4>1. t \in Seq(StepRecord)
        <5>1. FailStep(s, i) \in Seq(StepRecord)
          BY <1>2, <2>2, FailShape DEF SameShape
        <5> QED
          BY <5>1, MarkShape DEF SkipDownstream, SameShape, StepStatuses
      <4>2. copy'[e] = With(copy[e], t)
        BY <1>1, <3>2 DEF JoinErr
      <4>3. SameWork(s, t) /\ AnyFailed(t)
        BY <1>2, <2>2, SkipWork
      <4> HIDE DEF t
      <4> QED
        BY <4>1, <4>2, <4>3 DEF SameWork, Grown
    <3>3. CASE JoinErr(e, i) /\ ~Exhausted(s[i])
      <4> DEFINE t == RetryStep(s, i)
      <4>1. /\ SameShape(s, t)
            /\ \A k \in DOMAIN s : t[k].status = IF k = i THEN "pending" ELSE s[k].status
        BY <1>2, <2>2, RetryShape
      <4>2. copy'[e] = With(copy[e], t)
        BY <1>1, <3>3 DEF JoinErr
      <4> HIDE DEF t
      <4>3. Grown(s, t)
        BY <2>2, <4>1, OneChange DEF SameShape
      <4>4. SkipFree(t) \/ AnyFailed(t)
        BY <2>2, <2>3, <4>1 DEF SameShape, SkipFree, AnyFailed
      <4> QED
        BY <4>1, <4>2, <4>3, <4>4 DEF SameShape
    <3> QED
      BY <1>27, <3>1, <3>2, <3>3
  <2>5. copy'[e].steps = t /\ copy'[e].status = copy[e].status
    BY <1>2, <2>4, WithTyped
  <2>6. Grown(stored.steps, t)
    BY <2>3, <2>4, GrownFrom
  <2> QED
    BY <1>7, <2>1, <2>3, <2>4, <2>5, <2>6 DEF ContractOK, CleanKept, InDag, steps
<1>28. CASE SaveBatch(e)
  <2>1. /\ pc[e] = "join" /\ stored' = copy[e] /\ UNCHANGED <<copy, inflight>>
        /\ pc'[e] = IF AnyFailed(s) /\ AllTerminal(s) THEN "dagfail" ELSE "dag"
    BY <1>1, <1>28 DEF SaveBatch
  <2>2. /\ SkipFree(s) \/ AnyFailed(s)
        /\ Grown(stored.steps, s)
        /\ stored.status = copy[e].status /\ Working(e)
    BY <2>1 DEF ContractOK, InDag, Working
  <2>3. copy[e].status = "executing"
    BY <1>4, <2>1, <2>2 DEF WorkingOK, Condemned
  <2>4. Works
    BY <1>2, <2>1, <2>2, <2>3 DEF Works
  <2> QED
    BY <1>2, <2>1, <2>2, <2>4 DEF ContractOK, CleanKept, InDag, steps, Promised
<1>29. CASE DagDeadlock(e)
  <2>1. pc[e] = "dag" /\ Ready(steps(e)) = {} /\ ~AllTerminal(steps(e))
    BY <1>29 DEF DagDeadlock, Stuck
  <2>2. DagSteps(steps(e), {})
    BY <1>1, <1>3, <2>1 DEF DagOK, IndicesOK
  <2> QED
    BY <1>2, <2>1, <2>2, DagProgress
<1> QED
  BY <1>10, <1>11, <1>12, <1>13, <1>14, <1>15, <1>16, <1>19, <1>20, <1>21, <1>23,
     <1>24, <1>25, <1>26, <1>27, <1>28, <1>29 DEF Execute

(* No fault, cancel or delete comes between. *)
Calm == \A h \in {"fault", "cancel", "delete"} : Budget[h] = 0

ContractInv ==
    /\ DagInv
    /\ OrderInv
    /\ \A h \in {"fault", "cancel", "delete"} : left[h] = 0
    /\ cancelling = NoMission
    /\ born => stored.status # "none"
    /\ StoredClean
    /\ \A e \in Executors : ContractOK(e)

(* Nobody works on the mission, before the step or after it. *)
LEMMA IdleContract ==
    ASSUME \A e \in Executors : ~Working(e) /\ ~Working(e)',
           StoredClean, stored' = stored \/ SkipFree(stored'.steps)
    PROVE  StoredClean' /\ \A e \in Executors : ContractOK(e)'
BY DEF StoredClean, ContractOK, Working, InDag

LEMMA ContractNext ==
    ASSUME StoreIsExclusive, Calm, ContractInv, [Next]_vars
    PROVE  ContractInv' /\ [Promise!Next]_Promise!vars
<1>1. /\ LockInv /\ DagInv /\ DagInv' /\ OrderInv /\ OrderInv'
  BY DagNext, OrderNext DEF ContractInv, DagInv
<1>2. /\ pc \in [Executors -> PCs] /\ left \in [Handlers -> Nat]
      /\ stored \in MissionRecord
  BY <1>1 DEF LockInv, TypeInv, TypeOK
<1>3. Undisturbed
  BY <1>1 DEF DagInv, NoFault, ContractInv, Calm
<1>4. UNCHANGED stored => [Promise!Next]_Promise!vars
  BY DEF Promise!vars
<1>5. ASSUME NEW e \in Executors, NEW c, Free, Launch(e, c),
             stored' = stored \/ SkipFree(stored'.steps)
      PROVE  StoredClean' /\ \A f \in Executors : ContractOK(f)'
  <2>1. \A f \in Executors : pc[f] \in {"idle", "open"}
    BY <1>1, <1>5 DEF Free
  <2>2. \A f \in Executors : pc'[f] \in {"idle", "open", "load"}
    BY <1>2, <1>5, <2>1 DEF Launch, Goto
  <2>3. \A f \in Executors : ~Working(f) /\ ~Working(f)'
    BY <2>1, <2>2 DEF Working
  <2> QED
    BY <1>5, <2>3, IdleContract DEF ContractInv
<1>6. ASSUME NEW e \in Executors, NEW c \in Creators, Create(e, c)
      PROVE  ContractInv' /\ [Promise!Next]_Promise!vars
  <2>1. /\ ~born /\ Free /\ Launch(e, c) /\ UNCHANGED <<cancelling, left>>
    BY <1>6 DEF Create
  <2>2. PICK plan \in Plans : stored' = [status |-> "planned", steps |-> plan]
    BY <1>6 DEF Create
  <2>3. /\ plan \in Seq(StepRecord) /\ plan # <<>>
        /\ \A k \in DOMAIN plan : plan[k].status = "pending"
    BY PlansAssumption DEF IsPlan
  <2>4. /\ stored'.status = "planned" /\ stored'.steps = plan
        /\ SkipFree(plan) /\ CompletedSteps(plan) = {}
    BY <2>2, <2>3 DEF SkipFree, CompletedSteps
  <2>5. DOMAIN plan # {}
    <3>1. Len(plan) \in Nat /\ Len(plan) # 0 /\ DOMAIN plan = 1 .. Len(plan)
      BY <2>3, EmptySeq, LenProperties
    <3> QED
      BY <3>1
  <2>6. stored = NoMission
    BY <1>1, <2>1 DEF LockInv
  <2>7. Promise!Plan
    BY <2>4, <2>5, <2>6 DEF Promise!Plan, NoMission
  <2>8. StoredClean' /\ \A f \in Executors : ContractOK(f)'
    BY <1>5, <2>1, <2>4
  <2> QED
    BY <1>1, <2>1, <2>4, <2>7, <2>8 DEF ContractInv, Promise!Next
<1>7. ASSUME NEW e \in Executors, NEW c \in Resumers, Resume(e, c)
      PROVE  ContractInv' /\ [Promise!Next]_Promise!vars
  <2>1. /\ Free /\ Launch(e, c) /\ UNCHANGED <<stored, born, cancelling>>
        /\ Spend("resume")
    BY <1>7 DEF Resume
  <2>2. \A h \in {"fault", "cancel", "delete"} : left'[h] = left[h]
    BY <1>2, <2>1 DEF Spend, Handlers
  <2>3. StoredClean' /\ \A f \in Executors : ContractOK(f)'
    BY <1>5, <2>1
  <2> QED
    BY <1>1, <1>4, <2>1, <2>2, <2>3 DEF ContractInv
<1>8. ASSUME NEW e \in Executors, Execute(e)
      PROVE  ContractInv' /\ [Promise!Next]_Promise!vars
  <2>1. left' = left
    BY <1>8
    DEF Execute, OpenStore, Load, Begin, Dispatch, StartStep, PanicOnTarget,
        ResolveApproval, TurnCompletes, TurnRejects, TurnFails, FinishSequential,
        StartBatch, JoinOk, JoinErr, SaveBatch, FailDag, FinishDag, DagDeadlock
  <2>2. /\ UNCHANGED <<born, cancelling>>
        /\ \A f \in Executors \ {e} :
              /\ pc'[f] = pc[f]
              /\ copy'[f] = copy[f]
    <3>1. TypeInv
      BY <1>1 DEF LockInv
    <3> QED
      BY <1>8, <3>1, ExecuteFrame
  <2>3. Working(e) => born /\ stored.status # "none"
    BY <1>1 DEF LockInv, WorkingOK, ContractInv
  <2>4. ContractOK(e)' /\ CleanKept(e) /\ Promised
    BY <1>1, <1>3, <1>8, <2>3, ContractExecute DEF ContractInv
  <2>5. \/ stored' = stored
        \/ Working(e) /\ stored'.status \in {"executing", "failed", "completed"}
    BY <1>1, <1>8, ExecuteStores
  <2>6. ASSUME NEW f \in Executors \ {e}
        PROVE  ContractOK(f)'
    <3>1. ContractOK(f) /\ UNCHANGED <<pc[f], copy[f]>>
      BY <2>2, <2>6 DEF ContractInv
    <3>2. Working(f) => ~Working(e)
      BY <1>1, <2>6 DEF LockInv, Exclusion, Holds, Working
    <3>3. Working(f) => stored' = stored
      BY <2>5, <3>2
    <3> QED
      BY <3>1, <3>3 DEF ContractOK, Working, InDag, steps
  <2>7. StoredClean'
    <3>1. CASE stored' = stored /\ ~InDag(e)
      <4>1. ASSUME NEW f \in Executors, InDag(f)
            PROVE  InDag(f)'
        BY <2>2, <3>1, <4>1 DEF InDag
      <4> QED
        BY <3>1, <4>1 DEF ContractInv, StoredClean
    <3>2. CASE ~(stored' = stored /\ ~InDag(e))
      BY <2>4, <3>2 DEF CleanKept, StoredClean
    <3> QED
      BY <3>1, <3>2
  <2>8. born' => stored'.status # "none"
    BY <2>2, <2>5 DEF ContractInv
  <2>9. \A f \in Executors : ContractOK(f)'
    BY <2>4, <2>6
  <2> QED
    BY <1>1, <2>1, <2>2, <2>4, <2>7, <2>8, <2>9, PromisedStep DEF ContractInv
<1>9. ASSUME NEW h \in {"fault", "cancel", "delete"}, Spend(h)
      PROVE  FALSE
  BY <1>9 DEF Spend, ContractInv
<1>10. CASE CancelLoad \/ Delete \/ Crash \/ \E e \in Executors : Abort(e)
  BY <1>9, <1>10 DEF CancelLoad, Delete, Crash, Abort
<1>11. CASE CancelSave
  BY <1>11 DEF CancelSave, ContractInv
<1>12. CASE Answer \/ Restart \/ UNCHANGED vars
  <2>1. UNCHANGED <<stored, born, pc, copy, cancelling, left>>
    BY <1>12 DEF Answer, Restart, vars, local
  <2>2. StoredClean' /\ \A e \in Executors : ContractOK(e)'
    BY <2>1 DEF ContractInv, StoredClean, ContractOK, InDag, Working, steps
  <2> QED
    BY <1>1, <1>4, <2>1, <2>2 DEF ContractInv
<1> QED
  BY <1>6, <1>7, <1>8, <1>10, <1>11, <1>12 DEF Next

(* The task engine keeps the contract of a mission where an open handle    *)
(* keeps others out of the task store and no fault, cancel or delete comes *)
(* between: whatever the plan, the executors and the resumes, the mission  *)
(* is planned, works towards its end without losing a step or a completed  *)
(* one, and ends Completed exactly when all of its steps are.              *)
THEOREM EngineImplementsContract ==
    ASSUME StoreIsExclusive, Calm
    PROVE  Spec => Promise!Spec
<1>1. Init => ContractInv /\ Promise!Init
  <2> SUFFICES ASSUME Init PROVE ContractInv /\ Promise!Init
    OBVIOUS
  <2>1. LockInv
    BY LockInit
  <2>2. OrderInv
    BY OrderInit
  <2>3. \A h \in {"fault", "cancel", "delete"} : left[h] = 0
    BY DEF Init, Calm
  <2>4. DagInv
    BY <2>1, <2>3
    DEF Init, DagInv, Undisturbed, DagOK, StoredFresh, InSequence, Working,
        IsDag, NoMission, Calm
  <2>5. StoredClean /\ \A e \in Executors : ContractOK(e)
    BY DEF Init, StoredClean, SkipFree, NoMission, ContractOK, Working, InDag
  <2>6. Promise!Init
    BY DEF Init, Promise!Init, NoMission, CompletedSteps
  <2> QED
    BY <2>2, <2>3, <2>4, <2>5, <2>6 DEF ContractInv, Init
<1>2. ContractInv /\ [Next]_vars => ContractInv' /\ [Promise!Next]_Promise!vars
  BY ContractNext
<1> QED
  BY <1>1, <1>2, PTL DEF Spec, Promise!Spec

=============================================================================
