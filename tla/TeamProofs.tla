----------------------------- MODULE TeamProofs -----------------------------
(***************************************************************************)
(* Theorems about a team run.  Delegation, for any number of calls and     *)
(* agents: the type invariant, that neither the specialist pool nor        *)
(* collect_results is confused by calls and background jobs that overlap,  *)
(* and that the context of a specialist only grows.  TeamTalk, for every   *)
(* team, every limit and any number of calls: the type invariant, how far  *)
(* calls that overlap pass the limit on spawned specialists, that no       *)
(* interleaving passes the limit on messages, and that a filtered read     *)
(* neither loses nor repeats one of the latest messages.                   *)
(***************************************************************************)
EXTENDS Delegation, TeamTalk, FiniteSetTheorems, NaturalsInduction, WellFoundedInduction,
        TLAPS

-----------------------------------------------------------------------------
(* Delegation *)

(* What a call works on: its request is one, it is on the fallback agent   *)
(* only when there is one, and only after it has begun.                    *)
CallOK(d) ==
    IF pc[d] = "idle"
    THEN ~back[d]
    ELSE /\ req[d] \in Requests
         /\ back[d] => req[d].fallback # None

CallsOK == \A d \in Calls : CallOK(d)

(* The types alone are not inductive: the agent a call looks up, and the   *)
(* retries it may still make, come from its request.                       *)
TypeInv == TypeOK /\ CallsOK

LEMMA TargetTyped ==
  ASSUME TypeInv, NEW d \in Calls, pc[d] # "idle"
  PROVE  /\ Target(d) \in Agents
         /\ MaxAttempts(d) \in 0 .. MaxRetries
BY RequestsAssumption, BoundAssumption
   DEF TypeInv, CallsOK, CallOK, Target, MaxAttempts, IsRequest, RequestRecord

LEMMA TypeInit == Init => TypeInv
<1> SUFFICES ASSUME Init PROVE TypeInv
  OBVIOUS
<1>1. CallsOK
  BY DEF Init, CallsOK, CallOK
<1>2. TypeOK
  BY BoundAssumption
     DEF Init, TypeOK, PCs, JobStatuses, NoCollect, Absent
<1> QED
  BY <1>1, <1>2 DEF TypeInv

LEMMA CallsWork ==
  ASSUME TypeInv, NEW d \in Calls, Work(d)
  PROVE  CallsOK'
<1>1. /\ pc \in [Calls -> PCs] /\ back \in [Calls -> BOOLEAN]
      /\ CallsOK
  BY DEF TypeInv, TypeOK
<1>2. /\ req' = req
      /\ pc[d] # "idle"
      /\ \E label \in PCs \ {"idle"} : \/ pc' = pc /\ label = pc[d]
                                       \/ Goto(d, label)
      /\ \/ back' = back
         \/ back' = [back EXCEPT ![d] = TRUE] /\ req[d].fallback # None
  <2> USE DEF PCs
  <2>1. CASE Lookup(d)
    BY <2>1 DEF Lookup, Goto
  <2>2. CASE SetupOk(d)
    BY <2>2 DEF SetupOk, Goto
  <2>3. CASE SetupErr(d)
    BY <2>3 DEF SetupErr, Goto
  <2>4. CASE Register(d)
    BY <2>4 DEF Register, Goto
  <2>5. CASE StartTurn(d)
    BY <2>5 DEF StartTurn, Goto
  <2>6. CASE TurnOk(d)
    BY <2>6 DEF TurnOk, Goto, AfterTurn
  <2>7. CASE Retry(d)
    BY <2>7 DEF Retry, Goto
  <2>8. CASE TurnErr(d)
    BY <2>8 DEF TurnErr, Goto, AfterTurn
  <2>9. CASE Panic(d)
    BY <2>9 DEF Panic, Goto
  <2>10. CASE Push(d)
    BY <2>10 DEF Push, Goto
  <2>11. CASE RecordWork(d)
    BY <2>11 DEF RecordWork, Goto
  <2>12. CASE LockContexts(d)
    BY <2>12 DEF LockContexts, Goto
  <2>13. CASE \E a \in Agents : RewriteContext(d, a)
    BY <1>1, <2>13 DEF RewriteContext
  <2>14. CASE UnlockContexts(d)
    BY <2>14 DEF UnlockContexts, Goto
  <2>15. CASE FinishJob(d)
    BY <2>15 DEF FinishJob, Goto
  <2> QED
    BY <2>1, <2>2, <2>3, <2>4, <2>5, <2>6, <2>7, <2>8, <2>9, <2>10, <2>11, <2>12, <2>13, <2>14, <2>15 DEF Work
<1>3. ASSUME NEW f \in Calls PROVE CallOK(f)'
  BY <1>1, <1>2 DEF CallsOK, CallOK, Goto
<1> QED
  BY <1>3 DEF CallsOK

LEMMA TypeWork ==
  ASSUME TypeInv, NEW d \in Calls, Work(d)
  PROVE  TypeOK'
<1> USE DEF PCs, JobStatuses
<1>1. pc[d] # "idle" => /\ Target(d) \in Agents
                        /\ MaxAttempts(d) \in 0 .. MaxRetries
  BY TargetTyped
<1>2. TypeOK
  BY DEF TypeInv
<1>3. CASE Lookup(d)
  <2>1. /\ pool[Target(d)] \in Nat
        /\ inst' = inst \/ inst' = [inst EXCEPT ![d] = pool[Target(d)]]
        /\ jobs' = jobs \/ jobs' = [jobs EXCEPT ![d] = "running"]
        /\ poolLock' \in {poolLock, d}
        /\ pc' = [pc EXCEPT ![d] = "want"] \/ pc' = [pc EXCEPT ![d] = "setup"]
    BY <1>1, <1>2, <1>3 DEF Lookup, Goto, TypeOK, SpawnJob
  <2>2. UNCHANGED <<req, back, attempt, ok, pool, made, busy, contexts, tracker,
                    coll>>
    BY <1>3 DEF Lookup
  <2> QED
    BY <1>2, <2>1, <2>2 DEF TypeOK, contexts, coll
<1>4. CASE SetupOk(d)
  BY <1>1, <1>2, <1>4
     DEF SetupOk, Goto, TypeOK, pools, results, coll
<1>5. CASE SetupErr(d)
  BY <1>1, <1>2, <1>5
     DEF SetupErr, Goto, TypeOK, contexts, results, coll
<1>6. CASE Register(d)
  BY <1>1, <1>2, <1>6
     DEF Register, Goto, TypeOK, coll, SpawnJob
<1>7. CASE StartTurn(d)
  BY <1>1, <1>2, <1>7
     DEF StartTurn, Goto, TypeOK, pools, contexts, results, coll
<1>8. CASE TurnOk(d)
  BY <1>1, <1>2, <1>8
     DEF TurnOk, Goto, TypeOK, pools, contexts, results, coll, AfterTurn, Release
<1>9. CASE Retry(d)
  <2>1. attempt[d] \in 0 .. MaxRetries /\ attempt[d] < MaxAttempts(d)
        /\ MaxAttempts(d) \in 0 .. MaxRetries
    BY <1>1, <1>2, <1>9 DEF Retry, TypeOK
  <2>2. attempt[d] + 1 \in 0 .. MaxRetries
    BY <2>1, BoundAssumption
  <2> QED
    BY <1>2, <1>9, <2>2
       DEF Retry, Goto, TypeOK, pools, contexts, results, coll, Release
<1>10. CASE TurnErr(d)
  BY <1>1, <1>2, <1>10
     DEF TurnErr, Goto, TypeOK, pools, contexts, results, coll, AfterTurn, Release
<1>11. CASE Panic(d)
  BY <1>1, <1>2, <1>11
     DEF Panic, Goto, TypeOK, pools, contexts, results, coll, Release
<1>12. CASE Push(d)
  BY <1>1, <1>2, <1>12
     DEF Push, Goto, TypeOK, pools, contexts, coll
<1>13. CASE RecordWork(d)
  BY <1>1, <1>2, <1>13
     DEF RecordWork, Goto, TypeOK, pools, results, coll
<1>14. CASE LockContexts(d)
  BY <1>1, <1>2, <1>14
     DEF LockContexts, Goto, TypeOK, pools, results, coll
<1>15. CASE \E a \in Agents : RewriteContext(d, a)
  BY <1>1, <1>2, <1>15
     DEF RewriteContext, Goto, TypeOK, pools, results, coll
<1>16. CASE UnlockContexts(d)
  BY <1>1, <1>2, <1>16
     DEF UnlockContexts, Goto, TypeOK, pools, results, coll
<1>17. CASE FinishJob(d)
  BY <1>1, <1>2, <1>17
     DEF FinishJob, Goto, TypeOK, pools, contexts, coll
<1> QED
  BY <1>3, <1>4, <1>5, <1>6, <1>7, <1>8, <1>9, <1>10, <1>11, <1>12, <1>13, <1>14, <1>15, <1>16, <1>17 DEF Work

LEMMA TypeNext == TypeInv /\ [Next]_vars => TypeInv'
<1> SUFFICES ASSUME TypeInv, [Next]_vars PROVE TypeInv'
  OBVIOUS
<1>1. TypeOK /\ CallsOK
  BY DEF TypeInv
<1>2. CASE UNCHANGED vars
  BY <1>1, <1>2
     DEF vars, pools, contexts, results, coll, TypeInv, TypeOK, CallsOK, CallOK
<1>3. ASSUME NEW d \in Calls, Work(d) PROVE TypeInv'
  BY <1>3, CallsWork, TypeWork DEF TypeInv
<1>4. ASSUME NEW d \in Calls, NEW r \in Requests, Open(d, r) PROVE TypeInv'
  <2>1. TypeOK'
    BY <1>1, <1>4
       DEF Open, Goto, TypeOK, PCs, JobStatuses, pools, contexts, results, coll
  <2>2. ASSUME NEW f \in Calls PROVE CallOK(f)'
    BY <1>1, <1>4 DEF Open, Goto, TypeOK, CallsOK, CallOK
  <2> QED
    BY <2>1, <2>2 DEF TypeInv, CallsOK
<1>5. ASSUME NEW w \in BOOLEAN, StartCollect(w) PROVE TypeInv'
  BY <1>1, <1>5
     DEF StartCollect, Running, Finished, TypeInv, TypeOK, CallsOK, CallOK, pools,
         contexts, results
<1>6. CASE Collect
  <2>1. collect' \in [pc : {"idle", "wait", "read", "list"}, wait : BOOLEAN,
                      due : SUBSET Calls, got : SUBSET Calls]
    <3>1. collect \in [pc : {"idle", "wait", "read", "list"}, wait : BOOLEAN,
                       due : SUBSET Calls, got : SUBSET Calls]
          /\ tracker \subseteq Calls
      BY <1>1 DEF TypeOK
    <3>2. CASE PollDone
      BY <3>1, <3>2 DEF PollDone
    <3>3. CASE PollTimeout \/ ListJobs
      <4>1. collect' = NoCollect
        BY <3>3 DEF PollTimeout, ListJobs
      <4>2. {} \in SUBSET Calls
        OBVIOUS
      <4> QED
        BY <4>1, <4>2 DEF NoCollect
    <3>4. CASE ReadTracker
      BY <3>1, <3>4 DEF ReadTracker
    <3> QED
      BY <1>6, <3>2, <3>3, <3>4 DEF Collect
  <2>2. UNCHANGED <<pc, req, back, attempt, ok, pools, busy, contexts, results,
                    collects>>
    BY <1>6 DEF Collect, PollDone, PollTimeout, ReadTracker, ListJobs
  <2> QED
    BY <1>1, <2>1, <2>2
       DEF TypeInv, TypeOK, CallsOK, CallOK, pools, contexts, results
<1> QED
  BY <1>2, <1>3, <1>4, <1>5, <1>6 DEF Next

(* Every state is well typed, whatever calls, jobs and collects overlap;   *)
(* in particular no call retries more often than delegate_task allows.     *)
THEOREM TypeCorrect == Spec => []TypeOK
<1>1. Init => TypeInv
  BY TypeInit
<1>2. TypeInv /\ [Next]_vars => TypeInv'
  BY TypeNext
<1>3. TypeInv => TypeOK
  BY DEF TypeInv
<1> QED
  BY <1>1, <1>2, <1>3, PTL DEF Spec

LEMMA TypeAlways == Spec => []TypeInv
<1>1. Init => TypeInv
  BY TypeInit
<1>2. TypeInv /\ [Next]_vars => TypeInv'
  BY TypeNext
<1> QED
  BY <1>1, <1>2, PTL DEF Spec

-----------------------------------------------------------------------------
(* One specialist per name *)

(* Whoever creates a specialist holds the pool, and nobody has created it  *)
(* before; whoever runs one runs the one in the pool.                      *)
PoolOK(d) ==
    /\ pc[d] \in {"setup", "register"} =>
          poolLock = d /\ pool[Target(d)] = 0
    /\ pc[d] \in {"want", "turn"} =>
          inst[d] # 0 /\ inst[d] = pool[Target(d)]

PoolInv == \A d \in Calls : PoolOK(d)

LEMMA PoolWork ==
  ASSUME TypeInv, PoolInv, NEW d \in Calls, Work(d)
  PROVE  PoolInv'
<1> SUFFICES ASSUME NEW f \in Calls PROVE PoolOK(f)'
  BY DEF PoolInv
<1>1. TypeOK /\ PoolOK(d) /\ PoolOK(f)
  BY DEF TypeInv, PoolInv
<1>2. pc[d] # "idle" => Target(d) \in Agents
  BY TargetTyped
<1>3. pc[f] # "idle" => Target(f) \in Agents
  BY TargetTyped
<1>4. CASE Lookup(d)
  <2>1. /\ pc[d] = "lookup" /\ poolLock = None
        /\ pool' = pool /\ Target(f)' = Target(f)
        /\ \/ /\ pool[Target(d)] # 0
              /\ inst' = [inst EXCEPT ![d] = pool[Target(d)]]
              /\ pc' = [pc EXCEPT ![d] = "want"]
              /\ poolLock' = poolLock
           \/ /\ pool[Target(d)] = 0
              /\ inst' = inst
              /\ pc' = [pc EXCEPT ![d] = "setup"]
              /\ poolLock' = d
    BY <1>4 DEF Lookup, Goto, Target
  <2>2. pc[f] \notin {"setup", "register"}
    BY <1>1, <2>1, NoneAssumption DEF PoolOK
  <2>3. CASE f = d
    BY <1>1, <2>1, <2>3 DEF PoolOK, TypeOK
  <2>4. CASE f # d
    BY <1>1, <2>1, <2>2, <2>4 DEF PoolOK, TypeOK
  <2> QED
    BY <2>3, <2>4
<1>5. CASE SetupOk(d)
  BY <1>1, <1>2, <1>3, <1>5 DEF SetupOk, Goto, pools, PoolOK, Target, TypeOK
<1>6. CASE SetupErr(d)
  BY <1>1, <1>2, <1>3, <1>6 DEF SetupErr, Goto, PoolOK, Target, TypeOK
<1>7. CASE Register(d)
  BY <1>1, <1>2, <1>3, <1>7 DEF Register, Goto, PoolOK, Target, TypeOK
<1>8. CASE StartTurn(d)
  BY <1>1, <1>2, <1>3, <1>8 DEF StartTurn, Goto, pools, PoolOK, Target, TypeOK
<1>9. CASE TurnOk(d)
  BY <1>1, <1>2, <1>3, <1>9 DEF TurnOk, Goto, pools, AfterTurn, PoolOK, Target, TypeOK
<1>10. CASE Retry(d)
  BY <1>1, <1>2, <1>3, <1>10 DEF Retry, Goto, pools, PoolOK, Target, TypeOK
<1>11. CASE TurnErr(d)
  BY <1>1, <1>2, <1>3, <1>11 DEF TurnErr, Goto, pools, AfterTurn, PoolOK, Target, TypeOK
<1>12. CASE Panic(d)
  BY <1>1, <1>2, <1>3, <1>12 DEF Panic, Goto, pools, PoolOK, Target, TypeOK
<1>13. CASE Push(d)
  BY <1>1, <1>2, <1>3, <1>13 DEF Push, Goto, pools, PoolOK, Target, TypeOK
<1>14. CASE RecordWork(d)
  BY <1>1, <1>2, <1>3, <1>14 DEF RecordWork, Goto, pools, PoolOK, Target, TypeOK
<1>15. CASE LockContexts(d)
  BY <1>1, <1>2, <1>3, <1>15 DEF LockContexts, Goto, pools, PoolOK, Target, TypeOK
<1>16. CASE \E a \in Agents : RewriteContext(d, a)
  BY <1>1, <1>2, <1>3, <1>16 DEF RewriteContext, pools, PoolOK, Target, TypeOK
<1>17. CASE UnlockContexts(d)
  BY <1>1, <1>2, <1>3, <1>17 DEF UnlockContexts, Goto, pools, PoolOK, Target, TypeOK
<1>18. CASE FinishJob(d)
  BY <1>1, <1>2, <1>3, <1>18 DEF FinishJob, Goto, pools, PoolOK, Target, TypeOK
<1> QED
  BY <1>4, <1>5, <1>6, <1>7, <1>8, <1>9, <1>10, <1>11, <1>12, <1>13, <1>14, <1>15, <1>16, <1>17, <1>18 DEF Work

LEMMA PoolNext == TypeInv /\ PoolInv /\ [Next]_vars => PoolInv'
<1> SUFFICES ASSUME TypeInv, PoolInv, [Next]_vars PROVE PoolInv'
  OBVIOUS
<1>1. TypeOK
  BY DEF TypeInv
<1>2. ASSUME NEW d \in Calls, Work(d) PROVE PoolInv'
  BY <1>2, PoolWork
<1>3. ASSUME NEW d \in Calls, NEW r \in Requests, Open(d, r) PROVE PoolInv'
  BY <1>1, <1>3 DEF Open, Goto, TypeOK, PoolInv, PoolOK, Target, pools
<1>4. CASE UNCHANGED <<pc, req, back, pools>>
  BY <1>4 DEF PoolInv, PoolOK, Target, pools
<1>5. ASSUME NEW w \in BOOLEAN, StartCollect(w)
      PROVE  UNCHANGED <<pc, req, back, pools>>
  BY <1>5 DEF StartCollect
<1>6. Collect => UNCHANGED <<pc, req, back, pools>>
  BY DEF Collect, PollDone, PollTimeout, ReadTracker, ListJobs
<1>7. UNCHANGED vars => UNCHANGED <<pc, req, back, pools>>
  BY DEF vars
<1> QED
  BY <1>2, <1>3, <1>4, <1>5, <1>6, <1>7 DEF Next

(* All calls that run an agent of one name run one and the same specialist,*)
(* for any number of calls and agents: get_or_create looks up and creates  *)
(* under one lock.                                                         *)
THEOREM ConversationCorrect == Spec => []OneConversation
<1>1. Init => PoolInv
  BY DEF Init, PoolInv, PoolOK
<1>2. TypeInv /\ PoolInv /\ [Next]_vars => PoolInv'
  BY PoolNext
<1>3. PoolInv => OneConversation
  BY DEF PoolInv, PoolOK, OneConversation
<1> QED
  BY <1>1, <1>2, <1>3, TypeAlways, PTL DEF Spec

-----------------------------------------------------------------------------
(* collect_results *)

Early == {"idle", "lookup", "setup", "register", "want", "turn", "push"}
Late == {"record", "update", "rewrite", "finish"}

(* A call's result is in the delegation tracker from its push on, so       *)
(* before its job is marked as finished.                                   *)
ResultOK(d) ==
    /\ pc[d] \in Early => d \notin tracker
    /\ pc[d] \in Late => d \in tracker
    /\ jobs[d] \in {"completed", "failed"} => d \in tracker

(* collect_results knows every call that was due, and once wait_all has    *)
(* returned they all have a result and no job that runs.                   *)
CollectOK ==
    /\ collect.due \subseteq tracker \union Running \union Finished
    /\ collect.pc = "list" => collect.got = tracker
    /\ collect.pc \in {"read", "list"} /\ collect.wait =>
          /\ collect.due \subseteq tracker
          /\ collect.due \cap Running = {}

ResultInv == CollectOK /\ \A d \in Calls : ResultOK(d)

(* A step that leaves the results and the collect alone, and moves its     *)
(* call on without skipping the push.                                      *)
LEMMA QuietStep ==
  ASSUME TypeInv, ResultInv, NEW d \in Calls,
         NEW label \in PCs, pc' = [pc EXCEPT ![d] = label],
         label \in Early => pc[d] \in Early,
         label \in Late => pc[d] \in Late,
         UNCHANGED <<results, coll>>
  PROVE  ResultInv'
BY DEF TypeInv, TypeOK, ResultInv, ResultOK, CollectOK, Running, Finished,
   results, coll

LEMMA ResultWork ==
  ASSUME TypeInv, ResultInv, NEW d \in Calls, Work(d)
  PROVE  ResultInv'
<1>1. TypeOK
  BY DEF TypeInv
<1>2. ASSUME NEW label \in {"setup", "want"}, Goto(d, label), pc[d] \in Early,
             UNCHANGED <<tracker, coll>>,
             jobs' = jobs \/ jobs' = [jobs EXCEPT ![d] = "running"]
      PROVE  ResultInv'
  <2>1. d \notin tracker /\ label \in Early /\ label \notin Late
    BY <1>2 DEF ResultInv, ResultOK, Early, Late
  <2>2. ASSUME NEW f \in Calls PROVE ResultOK(f)'
    BY <1>1, <1>2, <2>1 DEF TypeOK, ResultInv, ResultOK, Goto
  <2>3. /\ Running' \subseteq Running \union {d}
        /\ Running \union Finished \subseteq Running' \union Finished'
    BY <1>1, <1>2 DEF TypeOK, Running, Finished
  <2>4. CollectOK'
    BY <1>2, <2>1, <2>3 DEF ResultInv, CollectOK, coll
  <2> QED
    BY <2>2, <2>4 DEF ResultInv
<1>3. CASE Lookup(d)
  BY <1>2, <1>3 DEF Lookup, SpawnJob, Early
<1>4. CASE Register(d)
  BY <1>2, <1>4 DEF Register, SpawnJob, Early
<1>5. CASE Push(d)
  <2>1. /\ collect.pc # "list" /\ pc[d] = "push"
        /\ tracker' = tracker \union {d}
        /\ UNCHANGED <<jobs, coll>>
        /\ \E label \in {"done", "record"} : pc' = [pc EXCEPT ![d] = label]
    BY <1>5 DEF Push, TrackerFree, Goto
  <2>2. ASSUME NEW f \in Calls PROVE ResultOK(f)'
    BY <1>1, <2>1 DEF TypeOK, ResultInv, ResultOK, Early, Late
  <2>3. CollectOK'
    BY <2>1 DEF ResultInv, CollectOK, Running, Finished, coll
  <2> QED
    BY <2>2, <2>3 DEF ResultInv
<1>6. CASE FinishJob(d)
  <2>1. /\ pc[d] = "finish" /\ pc' = [pc EXCEPT ![d] = "done"]
        /\ UNCHANGED <<tracker, coll>>
        /\ \E status \in {"completed", "failed"} :
              jobs' = [jobs EXCEPT ![d] = status]
    BY <1>6 DEF FinishJob, Goto
  <2>2. d \in tracker
    BY <2>1 DEF ResultInv, ResultOK, Late
  <2>3. ASSUME NEW f \in Calls PROVE ResultOK(f)'
    BY <1>1, <2>1, <2>2 DEF TypeOK, ResultInv, ResultOK, Early, Late
  <2>4. /\ Running' \subseteq Running
        /\ Running \union Finished \subseteq Running' \union Finished'
    BY <1>1, <2>1 DEF TypeOK, Running, Finished
  <2>5. CollectOK'
    BY <2>1, <2>4 DEF ResultInv, CollectOK, coll
  <2> QED
    BY <2>3, <2>5 DEF ResultInv
<1>7. CASE \E a \in Agents : RewriteContext(d, a)
  <2>1. UNCHANGED <<pc, results, coll>>
    BY <1>7 DEF RewriteContext
  <2> QED
    BY <2>1 DEF ResultInv, ResultOK, CollectOK, Running, Finished, results, coll
<1>8. CASE SetupOk(d)
  BY <1>8, QuietStep DEF SetupOk, Goto, PCs, Early, Late
<1>9. CASE SetupErr(d)
  BY <1>9, QuietStep DEF SetupErr, Goto, PCs, Early, Late
<1>10. CASE StartTurn(d)
  BY <1>10, QuietStep DEF StartTurn, Goto, PCs, Early, Late
<1>11. CASE TurnOk(d)
  BY <1>11, QuietStep DEF TurnOk, Goto, PCs, Early, Late, AfterTurn
<1>12. CASE Retry(d)
  BY <1>12, QuietStep DEF Retry, Goto, PCs, Early, Late
<1>13. CASE TurnErr(d)
  BY <1>13, QuietStep DEF TurnErr, Goto, PCs, Early, Late, AfterTurn
<1>14. CASE Panic(d)
  BY <1>14, QuietStep DEF Panic, Goto, PCs, Early, Late
<1>15. CASE RecordWork(d)
  BY <1>15, QuietStep DEF RecordWork, Goto, PCs, Early, Late
<1>16. CASE LockContexts(d)
  BY <1>16, QuietStep DEF LockContexts, Goto, PCs, Early, Late
<1>17. CASE UnlockContexts(d)
  BY <1>17, QuietStep DEF UnlockContexts, Goto, PCs, Early, Late
<1> QED
  BY <1>3, <1>4, <1>5, <1>6, <1>7, <1>8, <1>9, <1>10, <1>11, <1>12, <1>13, <1>14, <1>15, <1>16, <1>17 DEF Work

LEMMA ResultNext == TypeInv /\ ResultInv /\ [Next]_vars => ResultInv'
<1> SUFFICES ASSUME TypeInv, ResultInv, [Next]_vars PROVE ResultInv'
  OBVIOUS
<1>1. TypeOK
  BY DEF TypeInv
<1>2. ASSUME NEW d \in Calls, Work(d) PROVE ResultInv'
  BY <1>2, ResultWork
<1>3. ASSUME NEW d \in Calls, NEW r \in Requests, Open(d, r) PROVE ResultInv'
  BY <1>3, QuietStep DEF Open, Goto, PCs, Early, Late
<1>4. ASSUME UNCHANGED <<pc, results>> PROVE \A d \in Calls : ResultOK(d)'
  BY <1>4 DEF ResultInv, ResultOK, results
<1>5. ASSUME UNCHANGED results PROVE UNCHANGED <<tracker, Running, Finished>>
  BY <1>5 DEF results, Running, Finished
<1>6. Finished \subseteq tracker
  BY DEF ResultInv, ResultOK, Finished
<1>7. ASSUME NEW w \in BOOLEAN, StartCollect(w) PROVE ResultInv'
  <2>1. CollectOK'
    <3>1. UNCHANGED results
      BY <1>7 DEF StartCollect
    <3> QED
      BY <1>5, <1>6, <1>7, <3>1 DEF StartCollect, CollectOK
  <2> QED
    BY <1>4, <1>7, <2>1 DEF StartCollect, ResultInv
<1>8. CASE Collect
  <2>1. UNCHANGED <<pc, results>>
    BY <1>8 DEF Collect, PollDone, PollTimeout, ReadTracker, ListJobs
  <2>2. UNCHANGED <<tracker, Running, Finished>>
    BY <1>5, <2>1
  <2>3. CollectOK
    BY DEF ResultInv
  <2>4. collect \in [pc : {"idle", "wait", "read", "list"}, wait : BOOLEAN,
                     due : SUBSET Calls, got : SUBSET Calls]
    BY <1>1 DEF TypeOK
  <2>5. ASSUME PollDone PROVE CollectOK'
    BY <1>6, <2>2, <2>3, <2>4, <2>5 DEF PollDone, AllCompleted, CollectOK
  <2>6. ASSUME PollTimeout \/ ListJobs PROVE CollectOK'
    BY <2>2, <2>6 DEF PollTimeout, ListJobs, NoCollect, CollectOK
  <2>7. ASSUME ReadTracker PROVE CollectOK'
    BY <2>2, <2>3, <2>4, <2>7 DEF ReadTracker, CollectOK
  <2>8. CollectOK'
    BY <1>8, <2>5, <2>6, <2>7 DEF Collect
  <2> QED
    BY <1>4, <2>1, <2>8 DEF ResultInv
<1>9. CASE UNCHANGED vars
  BY <1>4, <1>5, <1>9 DEF vars, ResultInv, CollectOK, coll
<1> QED
  BY <1>2, <1>3, <1>7, <1>8, <1>9 DEF Next

LEMMA ResultAlways == Spec => []ResultInv
<1>1. Init => ResultInv
  BY DEF Init, ResultInv, ResultOK, CollectOK, NoCollect, Running, Finished,
     Late
<1>2. TypeInv /\ ResultInv /\ [Next]_vars => ResultInv'
  BY ResultNext
<1> QED
  BY <1>1, <1>2, TypeAlways, PTL DEF Spec

(* collect_results never loses a call, for any number of calls: a job      *)
(* pushes its result before it is marked finished, and the jobs are listed *)
(* under the tracker's lock.                                               *)
THEOREM CollectCorrect == Spec => []NothingLost
<1>1. ResultInv => NothingLost
  BY DEF ResultInv, ResultOK, CollectOK, NothingLost, Finished
<1> QED
  BY <1>1, ResultAlways, PTL

(* collect_results with wait=true has the result of every call that was    *)
(* due, for any number of calls.                                           *)
THEOREM WaitCorrect == Spec => []WaitedForAll
<1>1. ResultInv => WaitedForAll
  BY DEF ResultInv, CollectOK, WaitedForAll
<1> QED
  BY <1>1, ResultAlways, PTL

-----------------------------------------------------------------------------
(* The team context *)

(* A context shows completed work and no more; there is none before its    *)
(* specialist is in the pool, and only what is there is rewritten.         *)
ContextInv ==
    /\ fresh <= work
    /\ \A a \in Agents :
          /\ ctx[a] <= work
          /\ pool[a] = 0 => ctx[a] = Absent
    /\ \A a \in todo : ctx[a] # Absent

(* What a step may do to the contexts. *)
Grows == work' \in {work, work + 1} /\ \A a \in Agents : ctx[a] <= ctx'[a]

LEMMA ContextTyped ==
  ASSUME TypeInv
  PROVE  /\ work \in Nat /\ fresh \in Nat /\ todo \subseteq Agents /\ made \in Nat
         /\ \A a \in Agents : ctx[a] \in Int /\ Absent <= ctx[a] /\ pool[a] \in Nat
BY DEF TypeInv, TypeOK, Absent

LEMMA QuietContext ==
  ASSUME TypeInv, ContextInv, UNCHANGED <<pool, work, ctx, fresh, todo>>
  PROVE  ContextInv' /\ Grows
BY ContextTyped DEF ContextInv, Grows

LEMMA ContextWork ==
  ASSUME TypeInv, PoolInv, ContextInv, NEW d \in Calls, Work(d)
  PROVE  ContextInv' /\ Grows
<1>1. pool \in [Agents -> Nat] /\ ctx \in [Agents -> Nat \union {Absent}]
  BY DEF TypeInv, TypeOK
<1>2. CASE SetupOk(d)
  BY <1>2, ContextTyped DEF SetupOk, pools, ContextInv, Grows
<1>3. CASE Register(d)
  <2> DEFINE b == Target(d)
  <2>1. b \in Agents /\ pool[b] = 0
    BY <1>3, TargetTyped DEF Register, PoolInv, PoolOK
  <2>2. /\ UNCHANGED <<work, todo>> /\ fresh' = 0
        /\ ctx' = [ctx EXCEPT ![b] = fresh]
        /\ pool' = [pool EXCEPT ![b] = made + 1]
    BY <1>3 DEF Register
  <2> HIDE DEF b
  <2>3. ctx[b] = Absent /\ fresh # Absent /\ Absent <= fresh /\ made + 1 # 0
    BY <2>1, ContextTyped DEF ContextInv, Absent
  <2>4. /\ ctx'[b] = fresh /\ pool'[b] = made + 1
        /\ \A a \in Agents \ {b} : ctx'[a] = ctx[a] /\ pool'[a] = pool[a]
    BY <1>1, <2>1, <2>2
  <2>5. \A a \in Agents : ctx[a] <= ctx'[a]
    BY <2>3, <2>4, ContextTyped
  <2>6. \A a \in Agents : ctx'[a] <= work /\ (pool'[a] = 0 => ctx'[a] = Absent)
    BY <2>3, <2>4 DEF ContextInv
  <2>7. \A a \in todo : ctx'[a] # Absent
    BY <2>3, <2>4, ContextTyped DEF ContextInv
  <2> QED
    BY <2>2, <2>5, <2>6, <2>7, ContextTyped DEF ContextInv, Grows
<1>4. CASE RecordWork(d)
  <2>1. work' = work + 1 /\ UNCHANGED <<pool, ctx, fresh, todo>>
    BY <1>4 DEF RecordWork, pools
  <2> QED
    BY <2>1, ContextTyped DEF ContextInv, Grows
<1>5. CASE LockContexts(d)
  <2>1. /\ UNCHANGED <<pool, ctx, fresh, work>>
        /\ todo' = {a \in Agents : ctx[a] # Absent}
    BY <1>5 DEF LockContexts, pools
  <2> QED
    BY <2>1, ContextTyped DEF ContextInv, Grows
<1>6. CASE \E a \in Agents : RewriteContext(d, a)
  <2>1. PICK b \in todo : /\ UNCHANGED <<pool, fresh, work>>
                          /\ ctx' = [ctx EXCEPT ![b] = work]
                          /\ todo' = todo \ {b}
    BY <1>6 DEF RewriteContext, pools
  <2>2. b \in Agents /\ ctx[b] # Absent /\ ctx[b] <= work /\ pool[b] # 0 /\ work # Absent
    BY ContextTyped DEF ContextInv, Absent
  <2>3. ctx'[b] = work /\ \A a \in Agents \ {b} : ctx'[a] = ctx[a]
    BY <1>1, <2>1, <2>2
  <2> QED
    BY <2>1, <2>2, <2>3, ContextTyped DEF ContextInv, Grows
<1>7. ASSUME UNCHANGED <<pool, work, ctx, fresh, todo>>
      PROVE  ContextInv' /\ Grows
  BY <1>7, QuietContext
<1>8. CASE Lookup(d)
  BY <1>7, <1>8 DEF Lookup, contexts
<1>9. CASE SetupErr(d)
  BY <1>7, <1>9 DEF SetupErr, contexts
<1>10. CASE StartTurn(d) \/ TurnOk(d) \/ Retry(d) \/ TurnErr(d) \/ Panic(d)
  BY <1>7, <1>10 DEF StartTurn, TurnOk, Retry, TurnErr, Panic, pools, contexts
<1>11. CASE Push(d) \/ FinishJob(d)
  BY <1>7, <1>11 DEF Push, FinishJob, pools, contexts
<1>12. CASE UnlockContexts(d)
  BY <1>7, <1>12 DEF UnlockContexts, pools
<1> QED
  BY <1>2, <1>3, <1>4, <1>5, <1>6, <1>8, <1>9, <1>10, <1>11, <1>12 DEF Work

LEMMA ContextNext ==
  TypeInv /\ PoolInv /\ ContextInv /\ [Next]_vars => ContextInv' /\ Grows
<1> SUFFICES ASSUME TypeInv, PoolInv, ContextInv, [Next]_vars
             PROVE  ContextInv' /\ Grows
  OBVIOUS
<1>1. ASSUME NEW d \in Calls, Work(d) PROVE ContextInv' /\ Grows
  BY <1>1, ContextWork
<1>2. ASSUME UNCHANGED <<pools, contexts>> PROVE ContextInv' /\ Grows
  BY <1>2, QuietContext DEF pools, contexts
<1>3. ASSUME NEW d \in Calls, NEW r \in Requests, Open(d, r)
      PROVE  ContextInv' /\ Grows
  BY <1>2, <1>3 DEF Open
<1>4. ASSUME NEW w \in BOOLEAN, StartCollect(w)
      PROVE  ContextInv' /\ Grows
  BY <1>2, <1>4 DEF StartCollect
<1>5. CASE Collect
  BY <1>2, <1>5 DEF Collect, PollDone, PollTimeout, ReadTracker, ListJobs
<1>6. CASE UNCHANGED vars
  BY <1>2, <1>6 DEF vars
<1> QED
  BY <1>1, <1>3, <1>4, <1>5, <1>6 DEF Next

(* No step takes completed work away from the context of a specialist, for *)
(* any number of calls: a context made while others are updated goes to a  *)
(* specialist that has none, and update_context formats what is complete   *)
(* when it rewrites, not what its own call completed.                      *)
THEOREM ContextCorrect == Spec => ContextGrows
<1>1. Init => ContextInv
  BY DEF Init, ContextInv, Absent
<1>2. TypeInv /\ PoolInv /\ ContextInv /\ [Next]_vars => ContextInv'
  BY ContextNext
<1>3. TypeInv /\ PoolInv /\ ContextInv /\ [Next]_vars
         => [\A a \in Agents : ctx[a] <= ctx'[a]]_vars
  BY ContextNext DEF Grows
<1>4. Init => PoolInv
  BY DEF Init, PoolInv, PoolOK
<1>5. TypeInv /\ PoolInv /\ [Next]_vars => PoolInv'
  BY PoolNext
<1> QED
  BY <1>1, <1>2, <1>3, <1>4, <1>5, TypeAlways, PTL DEF Spec, ContextGrows

-----------------------------------------------------------------------------
(* Messages and spawning *)

USE DEF mail, counts, spawning, talkVars

-----------------------------------------------------------------------------
(* Spawning *)

Spawning == {c \in SpawnCalls : spawn[c] # Unset}

(* A call that has passed the check is a specialist to come, and one that  *)
(* holds a receiver has.                                                   *)
SpawnInv ==
    /\ spawn \in [SpawnCalls -> Spawnable \union {Unset}]
    /\ spawned \in Nat
    /\ holding \subseteq Spawning
    /\ spawned + Cardinality(Spawning) < MaxSpawned + Cardinality(SpawnCalls)

LEMMA SpawningFinite ==
    /\ IsFiniteSet(Spawning)
    /\ Cardinality(Spawning) \in Nat
    /\ Cardinality(Spawning) <= Cardinality(SpawnCalls)
    /\ Cardinality(SpawnCalls) \in Nat /\ Cardinality(SpawnCalls) > 0
    /\ MaxSpawned \in Nat
<1>1. Spawning \in SUBSET SpawnCalls
  BY DEF Spawning
<1>2. Cardinality(SpawnCalls) # 0
  BY CallsAssumption, FS_EmptySet
<1>3. Cardinality(SpawnCalls) \in Nat
  BY CallsAssumption, FS_CardinalityType
<1>4. IsFiniteSet(Spawning) /\ Cardinality(Spawning) <= Cardinality(SpawnCalls)
  BY <1>1, CallsAssumption, FS_Subset
<1>5. Cardinality(Spawning) \in Nat
  BY <1>4, FS_CardinalityType
<1> QED
  BY <1>2, <1>3, <1>4, <1>5, LimitsAssumption

LEMMA SpawnInit == TalkInit => SpawnInv
<1> SUFFICES ASSUME TalkInit PROVE SpawnInv
  OBVIOUS
<1>1. Spawning = {}
  BY DEF TalkInit, Spawning
<1>2. Cardinality(Spawning) = 0
  BY <1>1, FS_EmptySet
<1>3. spawn \in [SpawnCalls -> Spawnable \union {Unset}] /\ spawned = 0 /\ holding = {}
  BY DEF TalkInit
<1> QED
  BY <1>2, <1>3, SpawningFinite DEF SpawnInv

LEMMA SpawnNext == SpawnInv /\ [TalkNext]_talkVars => SpawnInv'
<1> SUFFICES ASSUME SpawnInv, [TalkNext]_talkVars PROVE SpawnInv'
  OBVIOUS
<1> USE DEF SpawnInv
<1>1. ASSUME UNCHANGED spawning PROVE SpawnInv'
  <2>1. Spawning' = Spawning
    BY <1>1 DEF Spawning
  <2> QED
    BY <1>1, <2>1
<1>2. ASSUME NEW c \in SpawnCalls, NEW name \in Spawnable, BeginSpawn(c, name)
      PROVE  SpawnInv'
  <2>1. /\ spawned < MaxSpawned /\ spawned' = spawned
        /\ spawn' \in [SpawnCalls -> Spawnable \union {Unset}]
    BY <1>2 DEF BeginSpawn
  <2>2. Spawning' \in SUBSET SpawnCalls /\ holding' \subseteq Spawning'
    BY <1>2 DEF BeginSpawn, Spawning
  <2>3. /\ Cardinality(Spawning') \in Nat
        /\ Cardinality(Spawning') <= Cardinality(SpawnCalls)
    BY <2>2, CallsAssumption, FS_Subset, FS_CardinalityType
  <2> QED
    BY <2>1, <2>2, <2>3, SpawningFinite
<1>3. ASSUME NEW c \in SpawnCalls, SpawnFails(c) \/ FinishSpawn(c)
      PROVE  SpawnInv'
  <2>1. /\ spawned' \in {spawned, spawned + 1}
        /\ spawn' \in [SpawnCalls -> Spawnable \union {Unset}]
        /\ c \in Spawning
    BY <1>3 DEF SpawnFails, FinishSpawn, Spawning
  <2>2. Spawning' = Spawning \ {c} /\ holding' \subseteq Spawning'
    BY <1>3 DEF SpawnFails, FinishSpawn, Spawning
  <2>3. Cardinality(Spawning') = Cardinality(Spawning) - 1
    BY <2>1, <2>2, SpawningFinite, FS_RemoveElement
  <2>4. spawned' + Cardinality(Spawning') <= spawned + Cardinality(Spawning)
    BY <2>1, <2>3, SpawningFinite
  <2> QED
    BY <2>1, <2>2, <2>3, <2>4, SpawningFinite
<1>4. ASSUME NEW a \in Crew,
             \/ CreateSpecialist(a)
             \/ \E to \in Names : SendMessage(a, to) \/ RequestPeerReview(a, to)
             \/ \E f \in Filters : ReadMessages(a, f)
      PROVE  SpawnInv'
  BY <1>1, <1>4 DEF CreateSpecialist, SendMessage, RequestPeerReview, Deliver, ReadMessages
<1>5. CASE UNCHANGED talkVars
  BY <1>1, <1>5
<1>6. ASSUME NEW c \in SpawnCalls, RegisterSpawn(c)
      PROVE  SpawnInv'
  <2>1. Spawning' = Spawning /\ c \in Spawning
    BY <1>6 DEF RegisterSpawn, Spawning
  <2> QED
    BY <1>6, <2>1 DEF RegisterSpawn
<1> QED
  BY <1>2, <1>3, <1>4, <1>5, <1>6 DEF TalkNext

(* Calls of spawn_specialist that overlap pass max_spawned_specialists by  *)
(* one less than their number at most, because each may pass the check     *)
(* before any of them counts.                                              *)
THEOREM SpawnsLimited == TalkSpec => []SpawnsBounded
<1>1. SpawnInv => SpawnsBounded
  BY SpawningFinite DEF SpawnInv, SpawnsBounded
<1> QED
  BY <1>1, SpawnInit, SpawnNext, PTL DEF TalkSpec

-----------------------------------------------------------------------------
(* Speaking *)

(* Every text that was accepted was counted against its sender, whatever   *)
(* the name it was sent under.                                             *)
SpeakInv ==
    /\ spent \in [Crew -> Nat]
    /\ said \in [Crew -> Nat]
    /\ MaxPerTurn > 0 => \A a \in Crew : said[a] <= spent[a] /\ spent[a] <= MaxPerTurn

LEMMA SpeakInit == TalkInit => SpeakInv
BY LimitsAssumption DEF TalkInit, SpeakInv

LEMMA SpeakNext == SpeakInv /\ [TalkNext]_talkVars => SpeakInv'
<1> SUFFICES ASSUME SpeakInv, [TalkNext]_talkVars PROVE SpeakInv'
  OBVIOUS
<1>1. ASSUME UNCHANGED counts PROVE SpeakInv'
  BY <1>1 DEF SpeakInv
<1>2. ASSUME NEW a \in Crew, NEW to \in Names, SendMessage(a, to)
      PROVE  SpeakInv'
  <2>1. /\ MaxPerTurn = 0 => spent' = spent
        /\ MaxPerTurn > 0 => spent[a] < MaxPerTurn /\ spent' = [spent EXCEPT ![a] = @ + 1]
    BY <1>2, LimitsAssumption DEF SendMessage
  <2>2. said' = said \/ said' = [said EXCEPT ![a] = @ + 1]
    BY <1>2 DEF SendMessage, Deliver
  <2>3. spent' \in [Crew -> Nat] /\ said' \in [Crew -> Nat]
    BY <2>1, <2>2, LimitsAssumption DEF SpeakInv
  <2>4. ASSUME MaxPerTurn > 0, NEW b \in Crew
        PROVE  said'[b] <= spent'[b] /\ spent'[b] <= MaxPerTurn
    <3>1. /\ said[b] \in Nat /\ spent[b] \in Nat /\ MaxPerTurn \in Nat
          /\ said[b] <= spent[b] /\ spent[b] <= MaxPerTurn
      BY <2>4, LimitsAssumption DEF SpeakInv
    <3>2. CASE b = a
      BY <2>1, <2>2, <2>4, <3>1, <3>2 DEF SpeakInv
    <3>3. CASE b # a
      BY <2>1, <2>2, <2>4, <3>1, <3>3 DEF SpeakInv
    <3> QED
      BY <3>2, <3>3
  <2> QED
    BY <2>3, <2>4 DEF SpeakInv
<1>3. ASSUME NEW a \in Crew,
             \/ CreateSpecialist(a)
             \/ \E to \in Names : RequestPeerReview(a, to)
             \/ \E f \in Filters : ReadMessages(a, f)
      PROVE  SpeakInv'
  BY <1>1, <1>3 DEF CreateSpecialist, RequestPeerReview, Deliver, ReadMessages
<1>4. ASSUME NEW c \in SpawnCalls,
             \/ SpawnFails(c) \/ RegisterSpawn(c) \/ FinishSpawn(c)
             \/ \E name \in Spawnable : BeginSpawn(c, name)
      PROVE  SpeakInv'
  BY <1>1, <1>4 DEF SpawnFails, RegisterSpawn, FinishSpawn, BeginSpawn
<1>5. CASE UNCHANGED talkVars
  BY <1>1, <1>5
<1> QED
  BY <1>2, <1>3, <1>4, <1>5 DEF TalkNext

(* No agent has more text messages accepted than max_messages_per_turn,    *)
(* however the calls of its tools and those of others interleave.          *)
THEOREM SpeaksLimited == TalkSpec => []SpeaksWithinLimit
<1>1. SpeakInv => SpeaksWithinLimit
  <2> SUFFICES ASSUME SpeakInv, MaxPerTurn > 0, NEW a \in Crew PROVE said[a] <= MaxPerTurn
    BY DEF SpeaksWithinLimit
  <2>1. said[a] \in Nat /\ spent[a] \in Nat /\ MaxPerTurn \in Nat
    BY LimitsAssumption DEF SpeakInv
  <2> QED
    BY <2>1 DEF SpeakInv
<1> QED
  BY <1>1, SpeakInit, SpeakNext, PTL DEF TalkSpec

LEMMA AppendRange ==
    ASSUME NEW S, NEW s \in Seq(S), NEW m \in S
    PROVE  Append(s, m) \in Seq(S) /\ Range(Append(s, m)) = Range(s) \union {m}
<1>1. /\ Append(s, m) \in Seq(S) /\ DOMAIN s = 1 .. Len(s) /\ Len(s) \in Nat
      /\ DOMAIN Append(s, m) = 1 .. Len(s) + 1
      /\ \A i \in 1 .. Len(s) : Append(s, m)[i] = s[i]
      /\ Append(s, m)[Len(s) + 1] = m
  OBVIOUS
<1>2. 1 .. Len(s) + 1 = (1 .. Len(s)) \union {Len(s) + 1}
  BY <1>1
<1> QED
  BY <1>1, <1>2 DEF Range

-----------------------------------------------------------------------------
(* What read_messages takes out of the buffer *)

(* A set of naturals that is not empty has a least member.  Taken of the   *)
(* set of counterexamples this is induction.                               *)
LEMMA LeastMember ==
    ASSUME NEW T \in SUBSET Nat, T # {}
    PROVE  \E n \in T : \A m \in T : n <= m
<1>1. PICK n \in T : \A m \in T : <<m, n>> \notin OpToRel(<, Nat)
  BY NatLessThanWellFounded, WFMin
<1>2. ASSUME NEW m \in T
      PROVE  n <= m
  <2>1. m \in Nat /\ n \in Nat
    OBVIOUS
  <2>2. ~(m < n)
    BY <1>1, <2>1 DEF OpToRel
  <2> QED
    BY <2>1, <2>2
<1> QED
  BY <1>2

(* What holds at 0 and passes from each n to n + 1 holds up to N. *)
LEMMA UpTo ==
    ASSUME NEW N \in Nat, NEW G \in SUBSET Nat, 0 \in G,
           \A n \in 0 .. N : n \in G /\ n < N => n + 1 \in G
    PROVE  0 .. N \subseteq G
<1> DEFINE T == (0 .. N) \ G
<1>1. SUFFICES ASSUME T # {} PROVE FALSE
  OBVIOUS
<1>2. PICK n \in T : \A m \in T : n <= m
  <2>1. T \in SUBSET Nat
    OBVIOUS
  <2> HIDE DEF T
  <2> QED
    BY <1>1, <2>1, LeastMember
<1>3. /\ n \in 0 .. N /\ n # 0
      /\ n - 1 \in 0 .. N /\ n - 1 < N /\ ~(n <= n - 1)
  OBVIOUS
<1>4. n - 1 \in G
  <2>1. n - 1 \notin T
    BY <1>2, <1>3
  <2> QED
    BY <1>3, <2>1
<1>5. (n - 1) + 1 \in G
  BY <1>3, <1>4
<1> QED
  BY <1>3, <1>5

(* A function defined by recursion on 0 .. N exists. *)
HasFold(N, D, a, F) ==
    \E g \in [0 .. N -> D] : g[0] = a /\ \A n \in 1 .. N : g[n] = F[<<n, g[n - 1]>>]

LEMMA Fold ==
    ASSUME NEW N \in Nat, NEW D, NEW a \in D, NEW F \in [(1 .. N) \X D -> D]
    PROVE  HasFold(N, D, a, F)
<1> DEFINE R(m) == HasFold(m, D, a, F)
           G == {m \in Nat : R(m)}
<1>1. 0 \in G
  <2> DEFINE g == [n \in 0 .. 0 |-> a]
  <2>1. g \in [0 .. 0 -> D] /\ g[0] = a
    OBVIOUS
  <2>2. \A n \in 1 .. 0 : g[n] = F[<<n, g[n - 1]>>]
    OBVIOUS
  <2>3. R(0)
    BY <2>1, <2>2 DEF HasFold
  <2> QED
    BY <2>3
<1>2. ASSUME NEW n \in 0 .. N, n \in G, n < N
      PROVE  n + 1 \in G
  <2>1. PICK g \in [0 .. n -> D] :
           g[0] = a /\ \A k \in 1 .. n : g[k] = F[<<k, g[k - 1]>>]
    BY <1>2 DEF HasFold
  <2>2. n + 1 \in 1 .. N /\ g[n] \in D
    BY <1>2
  <2>3. F[<<n + 1, g[n]>>] \in D
    BY <2>2
  <2> DEFINE h == [k \in 0 .. n + 1 |-> IF k = n + 1 THEN F[<<n + 1, g[n]>>] ELSE g[k]]
  <2>4. h \in [0 .. n + 1 -> D] /\ h[0] = a
    BY <2>1, <2>3
  <2>5. ASSUME NEW k \in 1 .. n + 1
        PROVE  h[k] = F[<<k, h[k - 1]>>]
    <3>1. CASE k = n + 1
      <4>1. k - 1 = n /\ n \in 0 .. n + 1 /\ n # n + 1 /\ k \in 0 .. n + 1
        BY <3>1
      <4>2. h[k] = F[<<n + 1, g[n]>>] /\ h[k - 1] = g[n]
        BY <3>1, <4>1
      <4> HIDE DEF h
      <4> QED
        BY <3>1, <4>2
    <3>2. CASE k \in 1 .. n
      <4>1. h[k] = g[k] /\ h[k - 1] = g[k - 1]
        BY <3>2
      <4> HIDE DEF h
      <4> QED
        BY <2>1, <3>2, <4>1
    <3> QED
      BY <3>1, <3>2
  <2>6. R(n + 1)
    <3> HIDE DEF h
    <3> QED
      BY <2>4, <2>5 DEF HasFold
  <2> QED
    BY <2>6
<1> HIDE DEF R
<1>3. 0 .. N \subseteq G
  BY <1>1, <1>2, UpTo
<1>4. R(N)
  BY <1>3
<1> QED
  BY <1>4 DEF R

Pair == [matched : Seq(Message), remaining : Seq(Message)]

(* Where the loop puts a message. *)
Sorted(p, m, f) ==
    IF Passes(m, f)
    THEN [matched |-> Append(p.matched, m), remaining |-> p.remaining]
    ELSE [matched |-> p.matched, remaining |-> Append(p.remaining, m)]

LEMMA SortedTyped ==
    ASSUME NEW p \in Pair, NEW m \in Message, NEW f
    PROVE  /\ Sorted(p, m, f) \in Pair
           /\ Sorted(p, m, f) = IF Passes(m, f) THEN [p EXCEPT !.matched = Append(@, m)]
                                ELSE [p EXCEPT !.remaining = Append(@, m)]
<1>1. Append(p.matched, m) \in Seq(Message) /\ Append(p.remaining, m) \in Seq(Message)
  BY DEF Pair
<1> QED
  BY <1>1 DEF Pair, Sorted

(* The rounds of the loop of read_messages. *)
LEMMA PartitionIs ==
    ASSUME NEW s \in Seq(Message), NEW f
    PROVE  \E after \in [0 .. Len(s) -> Pair] :
              /\ after[0] = [matched |-> <<>>, remaining |-> <<>>]
              /\ \A n \in 1 .. Len(s) : after[n] = Sorted(after[n - 1], s[n], f)
              /\ Partition(s, f) = after[Len(s)]
<1>1. Len(s) \in Nat /\ \A n \in 1 .. Len(s) : s[n] \in Message
  OBVIOUS
<1> DEFINE none == [matched |-> <<>>, remaining |-> <<>>]
           Step(p, n) == IF Passes(s[n], f) THEN [p EXCEPT !.matched = Append(@, s[n])]
                         ELSE [p EXCEPT !.remaining = Append(@, s[n])]
           Is(g) == g = [n \in 0 .. Len(s) |-> IF n = 0 THEN none ELSE Step(g[n - 1], n)]
           after == CHOOSE g : Is(g)
<1>2. none \in Pair
  BY DEF Pair
<1>3. \A p \in Pair, n \in 1 .. Len(s) :
         Step(p, n) = Sorted(p, s[n], f) /\ Step(p, n) \in Pair
  BY <1>1, SortedTyped
<1>4. Partition(s, f) = after[Len(s)]
  BY DEF Partition
<1> HIDE DEF none, Step
<1>5. \E g : Is(g)
  <2> DEFINE F == [x \in (1 .. Len(s)) \X Pair |-> Step(x[2], x[1])]
  <2>1. F \in [(1 .. Len(s)) \X Pair -> Pair]
    BY <1>3
  <2>2. \A n \in 1 .. Len(s), p \in Pair : F[<<n, p>>] = Step(p, n)
    OBVIOUS
  <2> HIDE DEF F, Is
  <2>3. PICK g \in [0 .. Len(s) -> Pair] :
           g[0] = none /\ \A n \in 1 .. Len(s) : g[n] = F[<<n, g[n - 1]>>]
    <3>1. HasFold(Len(s), Pair, none, F)
      BY <1>1, <1>2, <2>1, Fold
    <3> QED
      BY <3>1 DEF HasFold
  <2>4. ASSUME NEW n \in 0 .. Len(s)
        PROVE  g[n] = IF n = 0 THEN none ELSE Step(g[n - 1], n)
    <3>1. n # 0 => n \in 1 .. Len(s) /\ n - 1 \in 0 .. Len(s)
      BY <1>1
    <3>2. n # 0 => g[n] = F[<<n, g[n - 1]>>] /\ g[n - 1] \in Pair
      BY <2>3, <3>1
    <3> QED
      BY <2>2, <2>3, <3>1, <3>2
  <2>5. g = [n \in 0 .. Len(s) |-> g[n]]
    OBVIOUS
  <2>6. Is(g)
    BY <2>4, <2>5 DEF Is
  <2> QED
    BY <2>6
<1>6. Is(after)
  <2> HIDE DEF Is
  <2> QED
    BY <1>5
<1>7. \A n \in 0 .. Len(s) : after[n] = IF n = 0 THEN none ELSE Step(after[n - 1], n)
  <2> HIDE DEF after
  <2> QED
    BY <1>6
<1>8. after = [n \in 0 .. Len(s) |-> after[n]]
  <2> HIDE DEF after
  <2> QED
    BY <1>6, <1>7
<1> HIDE DEF after, Is
<1>9. 0 .. Len(s) \subseteq {n \in Nat : n \in 0 .. Len(s) => after[n] \in Pair}
  <2> DEFINE G == {n \in Nat : n \in 0 .. Len(s) => after[n] \in Pair}
  <2>1. 0 \in G
    BY <1>1, <1>2, <1>7
  <2>2. ASSUME NEW n \in 0 .. Len(s), n \in G, n < Len(s)
        PROVE  n + 1 \in G
    <3>1. /\ after[n] \in Pair /\ n + 1 \in 1 .. Len(s) /\ n + 1 \in 0 .. Len(s)
          /\ n + 1 # 0 /\ (n + 1) - 1 = n
      BY <1>1, <2>2
    <3>2. after[n + 1] = Step(after[n], n + 1)
      BY <1>7, <3>1
    <3> QED
      BY <1>3, <3>1, <3>2
  <2> HIDE DEF G
  <2>3. G \in SUBSET Nat
    BY DEF G
  <2>4. 0 .. Len(s) \subseteq G
    BY <1>1, <2>1, <2>2, <2>3, UpTo
  <2> QED
    BY <2>4 DEF G
<1>10. after \in [0 .. Len(s) -> Pair]
  <2>1. \A n \in 0 .. Len(s) : after[n] \in Pair
    BY <1>1, <1>9
  <2> QED
    BY <1>8, <2>1
<1>11. after[0] = none
  BY <1>1, <1>7
<1>12. ASSUME NEW n \in 1 .. Len(s)
       PROVE  after[n] = Sorted(after[n - 1], s[n], f)
  <2>1. n \in 0 .. Len(s) /\ n # 0 /\ n - 1 \in 0 .. Len(s)
    BY <1>1
  <2>2. after[n] = Step(after[n - 1], n) /\ after[n - 1] \in Pair
    BY <1>7, <1>10, <2>1
  <2> QED
    BY <1>3, <2>2
<1> QED
  BY <1>4, <1>10, <1>11, <1>12 DEF none

(* No message is in a sequence twice. *)
Once(s) == \A i, j \in DOMAIN s : i # j => s[i] # s[j]

LEMMA AppendOnce ==
    ASSUME NEW s \in Seq(Message), NEW m \in Message, Once(s), m \notin Range(s)
    PROVE  Once(Append(s, m))
<1>1. /\ DOMAIN s = 1 .. Len(s) /\ Len(s) \in Nat
      /\ DOMAIN Append(s, m) = 1 .. Len(s) + 1
      /\ \A i \in 1 .. Len(s) : Append(s, m)[i] = s[i]
      /\ Append(s, m)[Len(s) + 1] = m
  OBVIOUS
<1>2. \A i \in 1 .. Len(s) : s[i] # m
  BY <1>1 DEF Range
<1>3. \A i \in 1 .. Len(s) + 1 : i # Len(s) + 1 => i \in 1 .. Len(s)
  BY <1>1
<1> QED
  BY <1>1, <1>2, <1>3 DEF Once

LEMMA ConcatRange ==
    ASSUME NEW s \in Seq(Message), NEW t \in Seq(Message)
    PROVE  s \o t \in Seq(Message) /\ Range(s \o t) = Range(s) \union Range(t)
<1>1. /\ DOMAIN s = 1 .. Len(s) /\ Len(s) \in Nat
      /\ DOMAIN t = 1 .. Len(t) /\ Len(t) \in Nat
      /\ s \o t \in Seq(Message)
      /\ DOMAIN (s \o t) = 1 .. Len(s) + Len(t)
      /\ \A i \in 1 .. Len(s) + Len(t) :
            (s \o t)[i] = IF i <= Len(s) THEN s[i] ELSE t[i - Len(s)]
  OBVIOUS
<1>2. \A i \in 1 .. Len(s) : i \in 1 .. Len(s) + Len(t) /\ (s \o t)[i] = s[i]
  BY <1>1
<1>3. \A i \in 1 .. Len(t) :
         Len(s) + i \in 1 .. Len(s) + Len(t) /\ (s \o t)[Len(s) + i] = t[i]
  BY <1>1
<1>4. \A i \in 1 .. Len(s) + Len(t) :
         i \in 1 .. Len(s) \/ (i - Len(s) \in 1 .. Len(t) /\ ~(i <= Len(s)))
  BY <1>1
<1>5. Range(s \o t) \subseteq Range(s) \union Range(t)
  BY <1>1, <1>4 DEF Range
<1>6. Range(s) \subseteq Range(s \o t)
  BY <1>1, <1>2 DEF Range
<1>7. ASSUME NEW m \in Range(t)
      PROVE  m \in Range(s \o t)
  <2>1. PICK i \in 1 .. Len(t) : m = t[i]
    BY <1>1 DEF Range
  <2>2. Len(s) + i \in DOMAIN (s \o t) /\ m = (s \o t)[Len(s) + i]
    BY <1>1, <1>3, <2>1
  <2> QED
    BY <2>2 DEF Range
<1> QED
  BY <1>1, <1>5, <1>6, <1>7

LEMMA ConcatOnce ==
    ASSUME NEW s \in Seq(Message), NEW t \in Seq(Message),
           Once(s), Once(t), Range(s) \intersect Range(t) = {}
    PROVE  Once(s \o t)
<1>1. /\ DOMAIN s = 1 .. Len(s) /\ Len(s) \in Nat
      /\ DOMAIN t = 1 .. Len(t) /\ Len(t) \in Nat
      /\ DOMAIN (s \o t) = 1 .. Len(s) + Len(t)
      /\ \A i \in 1 .. Len(s) + Len(t) :
            (s \o t)[i] = IF i <= Len(s) THEN s[i] ELSE t[i - Len(s)]
  OBVIOUS
<1>2. \A i \in 1 .. Len(s) + Len(t) :
         \/ i \in 1 .. Len(s) /\ i <= Len(s)
         \/ i - Len(s) \in 1 .. Len(t) /\ ~(i <= Len(s))
  BY <1>1
<1>3. \A i \in 1 .. Len(s), j \in 1 .. Len(t) : s[i] # t[j]
  BY <1>1 DEF Range
<1>4. \A i, j \in 1 .. Len(s) : i # j => s[i] # s[j]
  BY <1>1 DEF Once
<1>5. \A i, j \in 1 .. Len(t) : i # j => t[i] # t[j]
  BY <1>1 DEF Once
<1>6. ASSUME NEW i \in 1 .. Len(s) + Len(t), NEW j \in 1 .. Len(s) + Len(t), i # j
      PROVE  (s \o t)[i] # (s \o t)[j]
  <2>1. i - Len(s) # j - Len(s)
    BY <1>1, <1>6
  <2> QED
    BY <1>1, <1>2, <1>3, <1>4, <1>5, <1>6, <2>1
<1> QED
  BY <1>1, <1>6 DEF Once

(* What the two parts of the buffer hold. *)
Divides(p, s, n) ==
    /\ Range(p.matched) \union Range(p.remaining) = {s[i] : i \in 1 .. n}
    /\ Once(p.matched) /\ Once(p.remaining)
    /\ Range(p.matched) \intersect Range(p.remaining) = {}

(* Partition drops nothing and doubles nothing. *)
LEMMA PartitionKeeps ==
    ASSUME NEW s \in Seq(Message), NEW f, Once(s)
    PROVE  Partition(s, f) \in Pair /\ Divides(Partition(s, f), s, Len(s))
<1>1. PICK after \in [0 .. Len(s) -> Pair] :
         /\ after[0] = [matched |-> <<>>, remaining |-> <<>>]
         /\ \A n \in 1 .. Len(s) : after[n] = Sorted(after[n - 1], s[n], f)
         /\ Partition(s, f) = after[Len(s)]
  BY PartitionIs
<1>2. Len(s) \in Nat /\ DOMAIN s = 1 .. Len(s) /\ \A n \in 1 .. Len(s) : s[n] \in Message
  OBVIOUS
<1> DEFINE G == {n \in Nat : n \in 0 .. Len(s) => Divides(after[n], s, n)}
<1>3. 0 \in G
  <2>1. Range(<<>>) = {} /\ Once(<<>>)
    BY DEF Range, Once
  <2>2. {s[i] : i \in 1 .. 0} = {}
    OBVIOUS
  <2> QED
    BY <1>1, <2>1, <2>2 DEF Divides
<1>4. ASSUME NEW n \in 0 .. Len(s), n \in G, n < Len(s)
      PROVE  n + 1 \in G
  <2>1. /\ n + 1 \in 1 .. Len(s) /\ n \in 0 .. Len(s) /\ (n + 1) - 1 = n
        /\ 1 .. n + 1 = (1 .. n) \union {n + 1}
        /\ \A i \in 1 .. n : i # n + 1 /\ i \in 1 .. Len(s)
    BY <1>2, <1>4
  <2>2. /\ after[n] \in Pair /\ Divides(after[n], s, n)
        /\ after[n + 1] = Sorted(after[n], s[n + 1], f)
    BY <1>1, <1>4, <2>1
  <2> DEFINE p == after[n]
             m == s[n + 1]
  <2>3. p.matched \in Seq(Message) /\ p.remaining \in Seq(Message) /\ m \in Message
    BY <1>2, <2>1, <2>2 DEF Pair
  <2>4. /\ {s[i] : i \in 1 .. n + 1} = {s[i] : i \in 1 .. n} \union {m}
        /\ m \notin {s[i] : i \in 1 .. n}
    BY <1>2, <2>1 DEF Once
  <2>5. m \notin Range(p.matched) /\ m \notin Range(p.remaining)
    BY <2>2, <2>4 DEF Divides
  <2>6. /\ Once(Append(p.matched, m)) /\ Once(Append(p.remaining, m))
        /\ Range(Append(p.matched, m)) = Range(p.matched) \union {m}
        /\ Range(Append(p.remaining, m)) = Range(p.remaining) \union {m}
    BY <2>2, <2>3, <2>5, AppendOnce, AppendRange DEF Divides
  <2>7. Divides(after[n + 1], s, n + 1)
    <3> HIDE DEF p, m
    <3>1. CASE Passes(m, f)
      <4>1. after[n + 1].matched = Append(p.matched, m) /\ after[n + 1].remaining = p.remaining
        BY <2>2, <3>1 DEF Sorted, p, m
      <4> QED
        BY <2>2, <2>4, <2>5, <2>6, <4>1 DEF Divides, p
    <3>2. CASE ~Passes(m, f)
      <4>1. after[n + 1].matched = p.matched /\ after[n + 1].remaining = Append(p.remaining, m)
        BY <2>2, <3>2 DEF Sorted, p, m
      <4> QED
        BY <2>2, <2>4, <2>5, <2>6, <4>1 DEF Divides, p
    <3> QED
      BY <3>1, <3>2
  <2> QED
    BY <2>1, <2>7
<1>5. Len(s) \in G
  <2>1. G \in SUBSET Nat
    OBVIOUS
  <2> HIDE DEF G
  <2>2. 0 .. Len(s) \subseteq G
    BY <1>2, <1>3, <1>4, <2>1, UpTo
  <2> QED
    BY <1>2, <2>2
<1> QED
  BY <1>1, <1>2, <1>5

-----------------------------------------------------------------------------
(* Reading *)

TalkTyped ==
    /\ inbox \in [Crew -> Seq(Message)]
    /\ buffer \in [Crew -> Seq(Message)]
    /\ accepted \in [Crew -> Seq(Message)]
    /\ read \in [Crew -> Seq(Message)]
    /\ clock \in 0 .. MaxClock

(* The receiver holds the latest messages of those accepted. *)
InboxOK(a) ==
    LET gone == Len(accepted[a]) - Len(inbox[a]) IN
    /\ gone >= 0
    /\ Len(inbox[a]) <= Capacity
    /\ \A j \in 1 .. Len(inbox[a]) : inbox[a][j] = accepted[a][gone + j]
    /\ \A i \in 1 .. gone :
          i > Len(accepted[a]) - Capacity =>
              accepted[a][i] \in Range(read[a]) \union Range(buffer[a])

(* A message is in one place, and was accepted. *)
PlacesOK(a) ==
    /\ Once(read[a]) /\ Once(buffer[a]) /\ Once(inbox[a])
    /\ Range(read[a]) \intersect Range(buffer[a]) = {}
    /\ Range(inbox[a]) \intersect (Range(read[a]) \union Range(buffer[a])) = {}
    /\ \A m \in Range(read[a]) \union Range(buffer[a]) \union Range(inbox[a]) : m.at <= clock

KeptInv == TalkTyped /\ \A a \in Crew : InboxOK(a) /\ PlacesOK(a)

(* Every message late enough is in one of the places. *)
LEMMA LateEnough ==
    ASSUME KeptInv, NEW a \in Crew, NEW i \in DOMAIN accepted[a],
           i > Len(accepted[a]) - Capacity
    PROVE  accepted[a][i] \in Range(read[a]) \union Range(buffer[a]) \union Range(inbox[a])
<1> DEFINE N == Len(accepted[a])
           L == Len(inbox[a])
<1>1. inbox[a] \in Seq(Message) /\ accepted[a] \in Seq(Message) /\ InboxOK(a)
  BY DEF TalkTyped, KeptInv
<1>2. /\ N \in Nat /\ L \in Nat /\ DOMAIN inbox[a] = 1 .. L
      /\ i \in 1 .. N /\ i > N - Capacity
  BY <1>1
<1>3. /\ N - L >= 0
      /\ \A j \in 1 .. L : inbox[a][j] = accepted[a][(N - L) + j]
      /\ \A k \in 1 .. N - L :
            k > N - Capacity => accepted[a][k] \in Range(read[a]) \union Range(buffer[a])
  BY <1>1 DEF InboxOK
<1> HIDE DEF N, L
<1>4. CASE i <= N - L
  <2>1. i \in 1 .. N - L
    BY <1>2, <1>3, <1>4
  <2> QED
    BY <1>2, <1>3, <2>1
<1>5. CASE ~(i <= N - L)
  <2>1. i - (N - L) \in 1 .. L /\ (N - L) + (i - (N - L)) = i
    BY <1>2, <1>3, <1>5
  <2>2. accepted[a][i] = inbox[a][i - (N - L)]
    BY <1>3, <2>1
  <2>3. accepted[a][i] \in Range(inbox[a])
    BY <1>2, <2>1, <2>2 DEF Range
  <2> QED
    BY <2>3
<1> QED
  BY <1>4, <1>5

LEMMA KeptInit == TalkInit => KeptInv
<1> SUFFICES ASSUME TalkInit PROVE KeptInv
  OBVIOUS
<1>1. TalkTyped
  BY LimitsAssumption DEF TalkInit, Nothing, TalkTyped
<1>2. ASSUME NEW a \in Crew PROVE InboxOK(a) /\ PlacesOK(a)
  <2>1. inbox[a] = <<>> /\ buffer[a] = <<>> /\ accepted[a] = <<>> /\ read[a] = <<>>
    BY DEF TalkInit, Nothing
  <2>2. Len(<<>>) = 0 /\ Range(<<>>) = {} /\ Once(<<>>)
    BY DEF Range, Once
  <2>3. InboxOK(a)
    BY <2>1, <2>2, LimitsAssumption DEF InboxOK
  <2>4. PlacesOK(a)
    BY <2>1, <2>2 DEF PlacesOK
  <2> QED
    BY <2>3, <2>4
<1> QED
  BY <1>1, <1>2 DEF KeptInv

(* What a receiver holds once it was sent a message. *)
LEMMA LatestIs ==
    ASSUME NEW s \in Seq(Message), NEW m \in Message, Len(s) <= Capacity,
           Once(s), m \notin Range(s)
    PROVE  LET t == Latest(Append(s, m)) IN
           /\ t \in Seq(Message) /\ Len(t) <= Capacity /\ Once(t)
           /\ Range(t) \subseteq Range(s) \union {m}
           /\ \/ /\ Len(s) < Capacity /\ Len(t) = Len(s) + 1
                 /\ \A j \in 1 .. Len(s) : t[j] = s[j]
              \/ /\ Len(s) = Capacity /\ Len(t) = Len(s)
                 /\ \A j \in 1 .. Len(s) - 1 : t[j] = s[j + 1]
           /\ t[Len(t)] = m
<1> DEFINE u == Append(s, m)
<1>1. /\ u \in Seq(Message) /\ Len(s) \in Nat /\ Len(u) = Len(s) + 1
      /\ \A j \in 1 .. Len(s) : u[j] = s[j]
      /\ u[Len(s) + 1] = m /\ DOMAIN u = 1 .. Len(u)
  OBVIOUS
<1>2. Once(u) /\ Range(u) = Range(s) \union {m}
  BY AppendOnce, AppendRange
<1>3. Capacity \in Nat \ {0}
  BY LimitsAssumption
<1> HIDE DEF u
<1>4. CASE Len(s) < Capacity
  <2>1. Latest(u) = u
    BY <1>1, <1>3, <1>4 DEF Latest
  <2> QED
    BY <1>1, <1>2, <1>3, <1>4, <2>1 DEF u
<1>5. CASE Len(s) = Capacity
  <2> DEFINE t == Tail(u)
  <2>1. Latest(u) = t
    BY <1>1, <1>3, <1>5 DEF Latest
  <2>2. /\ t \in Seq(Message) /\ Len(t) = Len(s) /\ DOMAIN t = 1 .. Len(s)
        /\ \A j \in 1 .. Len(s) : t[j] = u[j + 1] /\ j + 1 \in 1 .. Len(u)
    BY <1>1
  <2> HIDE DEF t
  <2>3. \A i, j \in 1 .. Len(s) : i # j => i + 1 # j + 1
    BY <1>1
  <2>4. Once(t)
    <3>1. ASSUME NEW i \in 1 .. Len(s), NEW j \in 1 .. Len(s), i # j PROVE t[i] # t[j]
      <4>1. i + 1 \in DOMAIN u /\ j + 1 \in DOMAIN u /\ i + 1 # j + 1
        BY <1>1, <2>2, <2>3, <3>1
      <4>2. u[i + 1] # u[j + 1]
        BY <1>2, <4>1 DEF Once
      <4> QED
        BY <2>2, <4>2
    <3> QED
      BY <2>2, <3>1 DEF Once
  <2>5. Range(t) \subseteq Range(u)
    BY <1>1, <2>2 DEF Range
  <2>6. t[Len(t)] = m
    BY <1>1, <1>3, <1>5, <2>2
  <2>7. \A j \in 1 .. Len(s) - 1 : j \in 1 .. Len(s) /\ j + 1 \in 1 .. Len(s)
    BY <1>1
  <2>8. \A j \in 1 .. Len(s) - 1 : t[j] = s[j + 1]
    BY <1>1, <2>2, <2>7
  <2> QED
    BY <1>2, <1>5, <2>1, <2>2, <2>4, <2>5, <2>6, <2>8 DEF u
<1> QED
  BY <1>1, <1>3, <1>4, <1>5

(* The messages of an agent that hears a new one. *)
LEMMA Received ==
    ASSUME TalkTyped, NEW b \in Crew, InboxOK(b), PlacesOK(b), NEW m \in Message,
           clock' = clock + 1, clock' \in 1 .. MaxClock, m.at = clock',
           inbox'[b] = Latest(Append(inbox[b], m)), accepted'[b] = Append(accepted[b], m),
           read'[b] = read[b], buffer'[b] = buffer[b]
    PROVE  /\ inbox'[b] \in Seq(Message) /\ accepted'[b] \in Seq(Message)
           /\ InboxOK(b)' /\ PlacesOK(b)'
<1>1. clock' = clock + 1 /\ clock' \in 1 .. MaxClock /\ clock <= clock' /\ clock \in Nat
  BY LimitsAssumption DEF TalkTyped
<1>2. m \in Message /\ m.at = clock'
  OBVIOUS
<1>4. /\ inbox[b] \in Seq(Message) /\ accepted[b] \in Seq(Message)
      /\ read[b] \in Seq(Message) /\ buffer[b] \in Seq(Message)
  BY DEF TalkTyped
<1>5. InboxOK(b) /\ PlacesOK(b)
  OBVIOUS
<1>6. m \notin Range(read[b]) \union Range(buffer[b]) \union Range(inbox[b])
  BY <1>1, <1>2, <1>5 DEF PlacesOK
<1> DEFINE t == Latest(Append(inbox[b], m))
           s == inbox[b]
<1>7. /\ t \in Seq(Message) /\ Len(t) <= Capacity /\ Once(t)
      /\ Range(t) \subseteq Range(s) \union {m}
      /\ \/ /\ Len(s) < Capacity /\ Len(t) = Len(s) + 1
            /\ \A j \in 1 .. Len(s) : t[j] = s[j]
         \/ /\ Len(s) = Capacity /\ Len(t) = Len(s)
            /\ \A j \in 1 .. Len(s) - 1 : t[j] = s[j + 1]
      /\ t[Len(t)] = m
  <2>1. Len(inbox[b]) <= Capacity /\ Once(inbox[b])
    BY <1>5 DEF InboxOK, PlacesOK
  <2> QED
    BY <1>2, <1>4, <1>6, <2>1, LatestIs
<1>8. /\ inbox'[b] = t /\ accepted'[b] = Append(accepted[b], m)
      /\ read'[b] = read[b] /\ buffer'[b] = buffer[b]
  OBVIOUS
<1>10. InboxOK(b)'
  <2> DEFINE old == accepted[b]
             new == Append(accepted[b], m)
             N == Len(old)
             L == Len(s)
  <2>1. /\ N \in Nat /\ Len(new) = N + 1 /\ new[N + 1] = m
        /\ \A i \in 1 .. N : new[i] = old[i]
    BY <1>2, <1>4
  <2>2. L \in Nat /\ Len(t) \in Nat /\ Capacity \in Nat \ {0}
    BY <1>4, <1>7, LimitsAssumption
  <2>3. /\ N - L >= 0 /\ L <= Capacity
        /\ \A j \in 1 .. L : s[j] = old[(N - L) + j]
        /\ \A i \in 1 .. N - L :
              i > N - Capacity => old[i] \in Range(read[b]) \union Range(buffer[b])
    BY <1>5 DEF InboxOK
  <2> HIDE DEF s, t, old, new, N, L
  <2>4. CASE L < Capacity
    <3>1. Len(t) = L + 1 /\ \A j \in 1 .. L : t[j] = s[j]
      <4>1. ~ (Len(s) = Capacity)
        BY <2>2, <2>4 DEF L
      <4>2. Len(t) = Len(s) + 1 /\ \A j \in 1 .. Len(s) : t[j] = s[j]
        BY <1>7, <4>1, Zenon
      <4> QED
        BY <4>2, Zenon DEF L
    <3>2. (N + 1) - Len(t) = N - L
      BY <2>1, <2>2, <3>1
    <3>3. ASSUME NEW j \in 1 .. Len(t) PROVE t[j] = new[(N - L) + j]
      <4>1. CASE j = L + 1
        <5>1. (N - L) + j = N + 1
          BY <2>1, <2>2, <4>1
        <5> QED
          BY <1>7, <2>1, <3>1, <4>1, <5>1
      <4>2. CASE j # L + 1
        <5>1. j \in 1 .. L /\ (N - L) + j \in 1 .. N
          BY <2>1, <2>2, <2>3, <3>1, <4>2
        <5> QED
          BY <2>1, <2>3, <3>1, <5>1
      <4> QED
        BY <4>1, <4>2
    <3>4. ASSUME NEW i \in 1 .. N - L, i > (N + 1) - Capacity
          PROVE  new[i] \in Range(read[b]) \union Range(buffer[b])
      <4>1. i \in 1 .. N /\ i > N - Capacity
        BY <2>1, <2>2, <2>3, <3>4
      <4> QED
        BY <2>1, <2>3, <4>1
    <3>5. Len(accepted'[b]) - Len(inbox'[b]) = N - L
      BY <1>8, <2>1, <3>2 DEF new
    <3> QED
      BY <1>7, <1>8, <2>1, <2>3, <3>3, <3>4, <3>5 DEF InboxOK, new
  <2>5. CASE L = Capacity
    <3>1. Len(t) = L /\ \A j \in 1 .. L - 1 : t[j] = s[j + 1]
      <4>1. ~ (Len(s) < Capacity)
        BY <2>2, <2>5 DEF L
      <4>2. Len(t) = Len(s) /\ \A j \in 1 .. Len(s) - 1 : t[j] = s[j + 1]
        BY <1>7, <4>1, Zenon
      <4> QED
        BY <4>2, Zenon DEF L
    <3>2. (N + 1) - Len(t) = (N - L) + 1
      BY <2>1, <2>2, <3>1
    <3>3. ASSUME NEW j \in 1 .. Len(t) PROVE t[j] = new[((N - L) + 1) + j]
      <4>1. CASE j = L
        <5>1. ((N - L) + 1) + j = N + 1
          BY <2>1, <2>2, <4>1
        <5> QED
          BY <1>7, <2>1, <3>1, <4>1, <5>1
      <4>2. CASE j # L
        <5>1. j \in 1 .. L /\ j \in 1 .. L - 1 /\ j + 1 \in 1 .. L
          BY <2>2, <3>1, <4>2
        <5>2. /\ ((N - L) + 1) + j = (N - L) + (j + 1)
              /\ (N - L) + (j + 1) \in 1 .. N
          BY <2>1, <2>2, <2>3, <5>1
        <5> QED
          BY <2>1, <2>3, <3>1, <5>1, <5>2
      <4> QED
        BY <4>1, <4>2
    <3>4. \A i \in 1 .. (N - L) + 1 : ~(i > (N + 1) - Capacity)
      BY <2>1, <2>2, <2>5
    <3>5. (N - L) + 1 >= 0
      BY <2>1, <2>2, <2>3
    <3> QED
      BY <1>7, <1>8, <2>1, <3>2, <3>3, <3>4, <3>5 DEF InboxOK, new
  <2> QED
    BY <2>2, <2>3, <2>4, <2>5
<1>11. PlacesOK(b)'
  <2>1. /\ Once(read[b]) /\ Once(buffer[b]) /\ Once(t)
        /\ Range(read[b]) \intersect Range(buffer[b]) = {}
        /\ Range(t) \intersect (Range(read[b]) \union Range(buffer[b])) = {}
    BY <1>5, <1>6, <1>7 DEF PlacesOK
  <2>2. ASSUME NEW x \in Range(read[b]) \union Range(buffer[b]) \union Range(t)
        PROVE  x.at <= clock'
    <3>1. CASE x = m
      BY <1>1, <1>2, <3>1
    <3>2. CASE x # m
      <4>1. x \in Range(read[b]) \union Range(buffer[b]) \union Range(inbox[b])
        BY <1>7, <2>2, <3>2
      <4>2. x \in Message
        <5>1. \A q \in Seq(Message) : Range(q) \subseteq Message
          BY DEF Range
        <5> QED
          BY <1>4, <4>1, <5>1
      <4>3. x.at \in Nat
        BY <4>2 DEF Message
      <4>4. x.at <= clock
        BY <1>5, <4>1 DEF PlacesOK
      <4> QED
        BY <1>1, <4>3, <4>4
    <3> QED
      BY <3>1, <3>2
  <2> HIDE DEF t
  <2> QED
    BY <1>8, <2>1, <2>2 DEF PlacesOK
<1> QED
  BY <1>2, <1>4, <1>7, <1>8, <1>10, <1>11

LEMMA NameTyped == ASSUME NEW a \in Crew PROVE NameOf(a) \in Names
BY DEF Crew, NameOf, Names

LEMMA DeliverKeeps ==
    ASSUME KeptInv, NEW a \in Crew, NEW to \in Names, NEW type \in Kinds,
           Deliver(a, to, type)
    PROVE  KeptInv'
<1> DEFINE m == [at |-> clock + 1, from |-> NameOf(a), type |-> type]
<1>1. UNCHANGED <<buffer, read>> /\ TalkTyped
  BY DEF Deliver, KeptInv
<1>2. CASE UNCHANGED <<clock, inbox, accepted>>
  BY <1>1, <1>2 DEF KeptInv, TalkTyped, InboxOK, PlacesOK
<1>3. CASE ~UNCHANGED <<clock, inbox, accepted>>
  <2>1. /\ clock < MaxClock /\ clock' = clock + 1
        /\ inbox' = [b \in Crew |-> IF b \in Hearers(to)
                                      THEN Latest(Append(inbox[b], m)) ELSE inbox[b]]
        /\ accepted' = [b \in Crew |-> IF b \in Hearers(to)
                                         THEN Append(accepted[b], m) ELSE accepted[b]]
    BY <1>3 DEF Deliver
  <2>2. clock' \in 1 .. MaxClock /\ clock <= clock' /\ clock \in Nat
    BY <1>1, <2>1, LimitsAssumption DEF TalkTyped
  <2>3. m \in Message /\ m.at = clock'
    BY <2>1, <2>2, NameTyped DEF Message
  <2> HIDE DEF m
  <2>4. ASSUME NEW b \in Crew, b \in Hearers(to)
        PROVE  /\ inbox'[b] \in Seq(Message) /\ accepted'[b] \in Seq(Message)
               /\ InboxOK(b)' /\ PlacesOK(b)'
    <3>1. /\ inbox'[b] = Latest(Append(inbox[b], m)) /\ accepted'[b] = Append(accepted[b], m)
          /\ read'[b] = read[b] /\ buffer'[b] = buffer[b]
      BY <1>1, <2>1, <2>4
    <3>2. InboxOK(b) /\ PlacesOK(b)
      BY DEF KeptInv
    <3> QED
      BY <1>1, <2>1, <2>2, <2>3, <3>1, <3>2, Received
  <2>5. ASSUME NEW b \in Crew, b \notin Hearers(to) PROVE InboxOK(b)' /\ PlacesOK(b)'
    <3>1. /\ inbox'[b] = inbox[b] /\ accepted'[b] = accepted[b]
          /\ read'[b] = read[b] /\ buffer'[b] = buffer[b]
          /\ InboxOK(b) /\ PlacesOK(b)
      BY <1>1, <2>1, <2>5 DEF TalkTyped, KeptInv
    <3>2. ASSUME NEW x \in Range(read[b]) \union Range(buffer[b]) \union Range(inbox[b])
          PROVE  x.at <= clock'
      <4>1. x \in Message
        <5>1. \A q \in Seq(Message) : Range(q) \subseteq Message
          BY DEF Range
        <5> QED
          BY <1>1, <3>2, <5>1 DEF TalkTyped
      <4>2. x.at \in Nat /\ x.at <= clock
        BY <3>1, <3>2, <4>1 DEF Message, PlacesOK
      <4> QED
        BY <2>1, <2>2, <4>2
    <3>3. InboxOK(b)'
      BY <3>1 DEF InboxOK
    <3>4. PlacesOK(b)'
      BY <3>1, <3>2 DEF PlacesOK
    <3> QED
      BY <3>3, <3>4
  <2>6. TalkTyped'
    <3>1. \A b \in Crew : inbox'[b] \in Seq(Message) /\ accepted'[b] \in Seq(Message)
      BY <1>1, <2>1, <2>4 DEF TalkTyped
    <3>2. inbox' \in [Crew -> Seq(Message)] /\ accepted' \in [Crew -> Seq(Message)]
      BY <2>1, <3>1
    <3> QED
      BY <1>1, <2>2, <3>2 DEF TalkTyped
  <2> QED
    BY <2>4, <2>5, <2>6 DEF KeptInv
<1> QED
  BY <1>2, <1>3

LEMMA ReadKeeps ==
    ASSUME KeptInv, NEW a \in Crew, NEW f \in Filters, ReadMessages(a, f)
    PROVE  KeptInv'
<1> DEFINE s == buffer[a] \o inbox[a]
           p == Partition(s, f)
<1>1. /\ inbox' = [inbox EXCEPT ![a] = <<>>]
      /\ buffer' = [buffer EXCEPT ![a] = p.remaining]
      /\ read' = [read EXCEPT ![a] = read[a] \o p.matched]
      /\ UNCHANGED <<clock, accepted>> /\ TalkTyped
  BY DEF ReadMessages, KeptInv, TalkTyped
<1>2. /\ inbox[a] \in Seq(Message) /\ accepted[a] \in Seq(Message)
      /\ read[a] \in Seq(Message) /\ buffer[a] \in Seq(Message)
      /\ InboxOK(a) /\ PlacesOK(a)
  BY <1>1 DEF TalkTyped, KeptInv
<1>3. /\ s \in Seq(Message) /\ Once(s)
      /\ Range(s) = Range(buffer[a]) \union Range(inbox[a])
  <2>1. Once(buffer[a]) /\ Once(inbox[a]) /\ Range(buffer[a]) \intersect Range(inbox[a]) = {}
    BY <1>2 DEF PlacesOK
  <2> QED
    BY <1>2, <2>1, ConcatRange, ConcatOnce
<1> HIDE DEF s
<1>4. /\ p.matched \in Seq(Message) /\ p.remaining \in Seq(Message)
      /\ Range(p.matched) \union Range(p.remaining) = Range(s)
      /\ Once(p.matched) /\ Once(p.remaining)
      /\ Range(p.matched) \intersect Range(p.remaining) = {}
  <2>1. p \in Pair /\ Divides(p, s, Len(s))
    BY <1>3, PartitionKeeps
  <2>2. Range(s) = {s[i] : i \in 1 .. Len(s)}
    BY <1>3 DEF Range
  <2> HIDE DEF p
  <2> QED
    BY <2>1, <2>2 DEF Pair, Divides
<1> HIDE DEF p
<1>5. /\ read[a] \o p.matched \in Seq(Message)
      /\ Range(read[a] \o p.matched) = Range(read[a]) \union Range(p.matched)
      /\ Once(read[a] \o p.matched)
  <2>1. Once(read[a]) /\ Range(read[a]) \intersect Range(p.matched) = {}
    BY <1>2, <1>3, <1>4 DEF PlacesOK
  <2> QED
    BY <1>2, <1>4, <2>1, ConcatRange, ConcatOnce
<1>6. /\ inbox'[a] = <<>> /\ buffer'[a] = p.remaining /\ read'[a] = read[a] \o p.matched
      /\ accepted'[a] = accepted[a]
      /\ \A b \in Names \ {a} : /\ inbox'[b] = inbox[b] /\ buffer'[b] = buffer[b]
                                /\ read'[b] = read[b] /\ accepted'[b] = accepted[b]
  BY <1>1 DEF TalkTyped
<1>7. TalkTyped'
  <2>1. <<>> \in Seq(Message)
    OBVIOUS
  <2> QED
    BY <1>1, <1>4, <1>5, <2>1 DEF TalkTyped
<1>8. /\ Range(read'[a]) \union Range(buffer'[a])
            = Range(read[a]) \union Range(buffer[a]) \union Range(inbox[a])
      /\ Range(<<>>) = {} /\ Once(<<>>) /\ Len(<<>>) = 0
  <2>1. Range(<<>>) = {} /\ Once(<<>>) /\ Len(<<>>) = 0
    BY DEF Range, Once
  <2> QED
    BY <1>3, <1>4, <1>5, <1>6, <2>1
<1>9. InboxOK(a)'
  <2>1. Len(accepted[a]) \in Nat /\ Capacity \in Nat /\ DOMAIN accepted[a] = 1 .. Len(accepted[a])
    BY <1>2, LimitsAssumption
  <2>2. \A i \in 1 .. Len(accepted[a]) :
           i > Len(accepted[a]) - Capacity =>
               accepted[a][i] \in Range(read'[a]) \union Range(buffer'[a])
    BY <1>8, <2>1, LateEnough
  <2>3. /\ Len(accepted[a]) - 0 = Len(accepted[a])
        /\ Len(accepted[a]) >= 0 /\ 0 <= Capacity
    BY <2>1
  <2> QED
    BY <1>6, <1>8, <2>2, <2>3 DEF InboxOK
<1>10. PlacesOK(a)'
  <2>1. Range(read'[a]) \intersect Range(buffer'[a]) = {}
    BY <1>2, <1>3, <1>4, <1>5, <1>6 DEF PlacesOK
  <2>2. Once(read'[a]) /\ Once(buffer'[a]) /\ Once(inbox'[a]) /\ Range(inbox'[a]) = {}
    BY <1>4, <1>5, <1>6, <1>8
  <2>3. \A m \in Range(read'[a]) \union Range(buffer'[a]) \union Range(inbox'[a]) : m.at <= clock'
    BY <1>1, <1>2, <1>8, <2>2 DEF PlacesOK
  <2> QED
    BY <2>1, <2>2, <2>3 DEF PlacesOK
<1>11. ASSUME NEW b \in Crew \ {a} PROVE InboxOK(b)' /\ PlacesOK(b)'
  <2>1. InboxOK(b) /\ PlacesOK(b)
    BY DEF KeptInv
  <2>4. /\ inbox'[b] = inbox[b] /\ buffer'[b] = buffer[b]
        /\ read'[b] = read[b] /\ accepted'[b] = accepted[b] /\ clock' = clock
    BY <1>1, <1>6
  <2>2. InboxOK(b)'
    BY <2>1, <2>4 DEF InboxOK
  <2>3. PlacesOK(b)'
    BY <2>1, <2>4 DEF PlacesOK
  <2> QED
    BY <2>2, <2>3
<1> QED
  BY <1>7, <1>9, <1>10, <1>11 DEF KeptInv

LEMMA KeptNext == KeptInv /\ [TalkNext]_talkVars => KeptInv'
<1> SUFFICES ASSUME KeptInv, [TalkNext]_talkVars PROVE KeptInv'
  OBVIOUS
<1>1. ASSUME UNCHANGED <<mail, clock>> PROVE KeptInv'
  BY <1>1 DEF KeptInv, TalkTyped, InboxOK, PlacesOK
<1>2. ASSUME NEW a \in Crew, NEW to \in Names, SendMessage(a, to) \/ RequestPeerReview(a, to)
      PROVE  KeptInv'
  <2>1. \E type \in Kinds : Deliver(a, to, type)
    BY <1>2 DEF SendMessage, RequestPeerReview, Kinds
  <2> QED
    BY <2>1, DeliverKeeps
<1>3. ASSUME NEW a \in Crew, NEW f \in Filters, ReadMessages(a, f) PROVE KeptInv'
  BY <1>3, ReadKeeps
<1>4. ASSUME NEW a \in Crew, CreateSpecialist(a) PROVE KeptInv'
  BY <1>1, <1>4 DEF CreateSpecialist
<1>5. ASSUME NEW c \in SpawnCalls,
             \/ SpawnFails(c) \/ RegisterSpawn(c) \/ FinishSpawn(c)
             \/ \E name \in Spawnable : BeginSpawn(c, name)
      PROVE  KeptInv'
  BY <1>1, <1>5 DEF SpawnFails, RegisterSpawn, FinishSpawn, BeginSpawn
<1>6. CASE UNCHANGED talkVars
  BY <1>1, <1>6
<1> QED
  BY <1>2, <1>3, <1>4, <1>5, <1>6 DEF TalkNext

LEMMA KeptLatest == KeptInv => LatestKept
<1> SUFFICES ASSUME KeptInv, NEW a \in Crew
             PROVE  /\ \A i \in DOMAIN accepted[a] :
                          i > Len(accepted[a]) - Capacity => Contains(Held(a), accepted[a][i])
                    /\ Once(Held(a))
  BY DEF LatestKept, Once
<1>1. /\ inbox[a] \in Seq(Message) /\ accepted[a] \in Seq(Message)
      /\ read[a] \in Seq(Message) /\ buffer[a] \in Seq(Message)
      /\ InboxOK(a) /\ PlacesOK(a)
  BY DEF TalkTyped, KeptInv
<1> DEFINE given == read[a] \o buffer[a]
<1>2. /\ given \in Seq(Message) /\ Once(given)
      /\ Range(given) = Range(read[a]) \union Range(buffer[a])
  BY <1>1, ConcatRange, ConcatOnce DEF PlacesOK
<1> HIDE DEF given
<1>3. /\ given \o inbox[a] \in Seq(Message) /\ Once(given \o inbox[a])
      /\ Range(given \o inbox[a]) = Range(given) \union Range(inbox[a])
  BY <1>1, <1>2, ConcatRange, ConcatOnce DEF PlacesOK
<1>4. Held(a) = given \o inbox[a]
  BY DEF Held, given
<1>5. ASSUME NEW i \in DOMAIN accepted[a], i > Len(accepted[a]) - Capacity
      PROVE  Contains(Held(a), accepted[a][i])
  <2>1. accepted[a][i] \in Range(Held(a))
    BY <1>2, <1>3, <1>4, <1>5, LateEnough
  <2>2. DOMAIN Held(a) = 1 .. Len(Held(a))
    BY <1>3, <1>4
  <2> QED
    BY <2>1, <2>2 DEF Range, Contains
<1> QED
  BY <1>3, <1>4, <1>5

(* Of what the bus accepted for the name of an agent while the agent heard, *)
(* the latest messages, as many as its channel is long, are in its hands or *)
(* wait for it, and nothing is handed to it twice: for any team, a second   *)
(* agent of the lead's name, any capacity and any filters.  (What the bus   *)
(* accepts while only a call of spawn_specialist holds a receiver is lost.) *)
THEOREM MessagesKept == TalkSpec => []LatestKept
BY KeptInit, KeptNext, KeptLatest, PTL DEF TalkSpec

-----------------------------------------------------------------------------
(* Types *)

Roster ==
    /\ senders \subseteq Names
    /\ present \subseteq Crew
    /\ hearing \subseteq present
    /\ spawn \in [SpawnCalls -> Spawnable \union {Unset}]
    /\ holding \subseteq SpawnCalls

LEMMA RosterInit == TalkInit => Roster
BY DEF TalkInit, Roster, Crew, Names

LEMMA RosterNext == Roster /\ [TalkNext]_talkVars => Roster'
<1> SUFFICES ASSUME Roster, [TalkNext]_talkVars PROVE Roster'
  OBVIOUS
<1>1. ASSUME UNCHANGED <<senders, present, hearing, spawn, holding>> PROVE Roster'
  BY <1>1 DEF Roster
<1>2. ASSUME NEW a \in Crew, CreateSpecialist(a) PROVE Roster'
  BY <1>2 DEF CreateSpecialist, Roster
<1>3. ASSUME NEW a \in Crew,
             \/ \E to \in Names : SendMessage(a, to) \/ RequestPeerReview(a, to)
             \/ \E f \in Filters : ReadMessages(a, f)
      PROVE  Roster'
  BY <1>1, <1>3 DEF SendMessage, RequestPeerReview, Deliver, ReadMessages
<1>4. ASSUME NEW c \in SpawnCalls, NEW name \in Spawnable, BeginSpawn(c, name) PROVE Roster'
  BY <1>4 DEF BeginSpawn, Roster
<1>5. ASSUME NEW c \in SpawnCalls, SpawnFails(c) \/ FinishSpawn(c) PROVE Roster'
  BY <1>5 DEF SpawnFails, FinishSpawn, Roster
<1>6. CASE UNCHANGED talkVars
  BY <1>1, <1>6
<1>7. ASSUME NEW c \in SpawnCalls, RegisterSpawn(c) PROVE Roster'
  <2>1. spawn[c] \in Spawnable /\ Spawnable \subseteq Names
    BY <1>7 DEF RegisterSpawn, Roster, Names
  <2> QED
    BY <1>7, <2>1 DEF RegisterSpawn, Roster
<1> QED
  BY <1>2, <1>3, <1>4, <1>5, <1>6, <1>7 DEF TalkNext

(* Every state of a team's talk is well typed: only agents that exist hear *)
(* messages, and whoever has a channel is a member or may be spawned.      *)
THEOREM TalkTypeCorrect == TalkSpec => []TalkTypeOK
<1>1. Roster /\ SpawnInv /\ SpeakInv /\ KeptInv => TalkTypeOK
  BY DEF Roster, SpawnInv, SpeakInv, KeptInv, TalkTyped, TalkTypeOK
<1> QED
  BY <1>1, RosterInit, RosterNext, SpawnInit, SpawnNext, SpeakInit, SpeakNext,
     KeptInit, KeptNext, PTL DEF TalkSpec
=============================================================================
