----------------------------- MODULE Delegation -----------------------------
(***************************************************************************)
(* Delegation inside one team run (aivyx-team/src/delegation.rs,           *)
(* job_tracker.rs, verify.rs): the lead's delegate_task, query_agent,      *)
(* verify_output and collect_results calls, the background jobs of         *)
(* delegate_task with async=true, and what they share: the pool of         *)
(* specialists, the delegation tracker, the job tracker and the team       *)
(* context.                                                                *)
(*                                                                         *)
(* Whether the lead runs its tool calls one after the other is decided by  *)
(* the agent crate, which is not in this repository; any number of calls   *)
(* may overlap here.                                                       *)
(***************************************************************************)
EXTENDS Integers, FiniteSets

CONSTANTS
    Calls,        \* tool calls of the lead that run a specialist
    Agents,       \* specialist names
    Requests,     \* what a call may ask for
    MaxRetries,   \* MAX_RETRY_LIMIT
    MaxCollects,  \* bound on collect_results calls
    None

RequestRecord ==
    [tool     : {"delegate", "query", "verify"},
     async    : BOOLEAN,
     agent    : Agents,
     fallback : Agents \union {None},
     retries  : 0 .. MaxRetries]

(* Only delegate_task knows the background, retries and a fallback. *)
IsRequest(r) ==
    /\ r \in RequestRecord
    /\ r.tool # "delegate" => ~r.async /\ r.fallback = None /\ r.retries = 0

ASSUME RequestsAssumption == \A r \in Requests : IsRequest(r)
ASSUME NoneAssumption == None \notin Agents \union Calls \union Requests
ASSUME BoundAssumption == MaxRetries \in Nat /\ MaxCollects \in Nat

VARIABLES
    pc,        \* what each call, or the job it spawned, does next
    req,       \* its request
    back,      \* it has gone over to the fallback agent
    attempt,   \* retries already made on the current agent
    ok,        \* its last turn returned a response
    inst,      \* the specialist it runs
    pool,      \* the specialist cached under each name, 0 when none
    made,      \* specialists created so far
    poolLock,  \* the call holding SpecialistPool.agents
    busy,      \* the call holding each specialist's mutex, by instance
    work,      \* TeamContext.completed_work: how many entries
    entry,     \* the position of each call's own entry in it
    ctx,       \* how many entries each context string shows, Absent if none
    fresh,     \* how many a context string being made will show, 0 if none is
    todo,      \* the contexts update_context has still to rewrite
    writer,    \* the call holding context_strings, in update_context
    tracker,   \* the calls whose result is in the DelegationTracker
    jobs,      \* JobTracker
    collect,   \* the collect_results call
    collects   \* how many there have been

pools    == <<pool, made, poolLock, inst>>
contexts == <<work, entry, ctx, fresh, todo, writer>>
results  == <<tracker, jobs>>
coll     == <<collect, collects>>
vars == <<pc, req, back, attempt, ok, pools, busy, contexts, results, coll>>

PCs == {"idle", "lookup", "setup", "register", "want", "turn", "push",
        "record", "update", "rewrite", "finish", "done", "dead"}

JobStatuses == {"none", "running", "completed", "failed"}

Absent == -1

Ended(d) == pc[d] \in {"done", "dead"}

(* The agent a call works with at the moment. *)
Target(d) == IF back[d] THEN req[d].fallback ELSE req[d].agent

Finished == {d \in Calls : jobs[d] \in {"completed", "failed"}}
Running == {d \in Calls : jobs[d] = "running"}

NoCollect == [pc |-> "idle", wait |-> FALSE, due |-> {}, got |-> {}]

TypeOK ==
    /\ pc \in [Calls -> PCs]
    /\ req \in [Calls -> Requests \union {None}]
    /\ back \in [Calls -> BOOLEAN]
    /\ attempt \in [Calls -> 0 .. MaxRetries]
    /\ ok \in [Calls -> BOOLEAN]
    /\ inst \in [Calls -> Nat]
    /\ pool \in [Agents -> Nat]
    /\ made \in Nat
    /\ poolLock \in Calls \union {None}
    /\ busy \in [0 .. made -> Calls \union {None}]
    /\ work \in Nat
    /\ entry \in [Calls -> Nat]
    /\ ctx \in [Agents -> Nat \union {Absent}]
    /\ fresh \in Nat
    /\ todo \subseteq Agents
    /\ writer \in Calls \union {None}
    /\ tracker \subseteq Calls
    /\ jobs \in [Calls -> JobStatuses]
    /\ collect \in [pc : {"idle", "wait", "read", "list"}, wait : BOOLEAN,
                    due : SUBSET Calls, got : SUBSET Calls]
    /\ collects \in Nat

Init ==
    /\ pc = [d \in Calls |-> "idle"]
    /\ req = [d \in Calls |-> None]
    /\ back = [d \in Calls |-> FALSE]
    /\ attempt = [d \in Calls |-> 0]
    /\ ok = [d \in Calls |-> FALSE]
    /\ inst = [d \in Calls |-> 0]
    /\ pool = [a \in Agents |-> 0]
    /\ made = 0
    /\ poolLock = None
    /\ busy = [i \in {0} |-> None]
    /\ work = 0
    /\ entry = [d \in Calls |-> 0]
    /\ ctx = [a \in Agents |-> Absent]
    /\ fresh = 0
    /\ todo = {}
    /\ writer = None
    /\ tracker = {}
    /\ jobs = [d \in Calls |-> "none"]
    /\ collect = NoCollect
    /\ collects = 0

Goto(d, label) == pc' = [pc EXCEPT ![d] = label]

-----------------------------------------------------------------------------
(* SpecialistPool::get_or_create *)

(* The lead calls delegate_task, query_agent or verify_output. *)
Open(d, r) ==
    /\ pc[d] = "idle"
    /\ req' = [req EXCEPT ![d] = r]
    /\ Goto(d, "lookup")
    /\ UNCHANGED <<back, attempt, ok, pools, busy, contexts, results, coll>>

(* A delegate_task with async=true becomes a job once its primary agent is *)
(* there; the lead goes on, the job runs in the background.                *)
SpawnJob(d) ==
    jobs' = IF req[d].async /\ ~back[d]
            THEN [jobs EXCEPT ![d] = "running"] ELSE jobs

LookupUnlocked(d) ==
    /\ pc[d] = "lookup"
    /\ IF pool[Target(d)] # 0
       THEN /\ inst' = [inst EXCEPT ![d] = pool[Target(d)]]
            /\ SpawnJob(d)
            /\ Goto(d, "want")
       ELSE /\ Goto(d, "setup")
            /\ UNCHANGED <<inst, jobs>>
    /\ UNCHANGED <<req, back, attempt, ok, pool, made, poolLock, busy,
                   contexts, tracker, coll>>

(* Lock the pool; a cached specialist is returned, otherwise the lock is   *)
(* kept across the creation of a new one.                                  *)
Lookup(d) ==
    /\ pc[d] = "lookup"
    /\ poolLock = None
    /\ IF pool[Target(d)] # 0
       THEN /\ inst' = [inst EXCEPT ![d] = pool[Target(d)]]
            /\ SpawnJob(d)
            /\ Goto(d, "want")
            /\ UNCHANGED poolLock
       ELSE /\ poolLock' = d
            /\ Goto(d, "setup")
            /\ UNCHANGED <<inst, jobs>>
    /\ UNCHANGED <<req, back, attempt, ok, pool, made, busy, contexts,
                   tracker, coll>>

(* setup_specialist_fresh succeeded: format the team context. *)
SetupOk(d) ==
    /\ pc[d] = "setup"
    /\ fresh' = work
    /\ Goto(d, "register")
    /\ UNCHANGED <<req, back, attempt, ok, pools, busy, work, entry, ctx, todo,
                   writer, results, coll>>

(* The profile does not load.  A primary agent's failure is an error       *)
(* result, a reviewer's only an error; without a fallback agent the        *)
(* failure of the primary stands.                                          *)
SetupErr(d) ==
    /\ pc[d] = "setup"
    /\ poolLock' = None
    /\ Goto(d, IF req[d].tool = "verify" THEN "done" ELSE "push")
    /\ UNCHANGED <<req, back, attempt, ok, pool, made, inst, busy, contexts,
                   results, coll>>

(* Insert the context string, then the specialist, and unlock the pool. *)
Register(d) ==
    /\ pc[d] = "register"
    /\ writer = None
    /\ ctx' = [ctx EXCEPT ![Target(d)] = fresh]
    /\ fresh' = 0
    /\ made' = made + 1
    /\ pool' = [pool EXCEPT ![Target(d)] = made + 1]
    /\ inst' = [inst EXCEPT ![d] = made + 1]
    /\ busy' = [i \in 0 .. made + 1 |-> IF i \in DOMAIN busy THEN busy[i] ELSE None]
    /\ poolLock' = None
    /\ SpawnJob(d)
    /\ Goto(d, "want")
    /\ UNCHANGED <<req, back, attempt, ok, work, entry, todo, writer, tracker,
                   coll>>

-----------------------------------------------------------------------------
(* run_specialist_with_retry *)

(* The specialist's mutex is taken for one turn. *)
StartTurn(d) ==
    /\ pc[d] = "want"
    /\ busy[inst[d]] = None
    /\ busy' = [busy EXCEPT ![inst[d]] = d]
    /\ Goto(d, "turn")
    /\ UNCHANGED <<req, back, attempt, ok, pools, contexts, results, coll>>

Release(d) == busy' = [busy EXCEPT ![inst[d]] = None]

(* verify_output keeps no record of its reviews. *)
AfterTurn(d) == IF req[d].tool = "verify" THEN "done" ELSE "push"

TurnOk(d) ==
    /\ pc[d] = "turn"
    /\ Release(d)
    /\ ok' = [ok EXCEPT ![d] = TRUE]
    /\ Goto(d, AfterTurn(d))
    /\ UNCHANGED <<req, back, attempt, pools, contexts, results, coll>>

(* The fallback runs without retries. *)
MaxAttempts(d) == IF back[d] THEN 0 ELSE req[d].retries

RetryOnceTooOften(d) ==
    /\ pc[d] = "turn"
    /\ attempt[d] <= MaxAttempts(d)
    /\ Release(d)
    /\ attempt' = [attempt EXCEPT ![d] = attempt[d] + 1]
    /\ Goto(d, "want")
    /\ UNCHANGED <<req, back, ok, pools, contexts, results, coll>>

RetryUncounted(d) ==
    /\ pc[d] = "turn"
    /\ attempt[d] < MaxAttempts(d)
    /\ Release(d)
    /\ Goto(d, "want")
    /\ UNCHANGED <<req, back, attempt, ok, pools, contexts, results, coll>>

(* A retryable error: after the backoff the turn is tried again. *)
Retry(d) ==
    /\ pc[d] = "turn"
    /\ attempt[d] < MaxAttempts(d)
    /\ Release(d)
    /\ attempt' = [attempt EXCEPT ![d] = attempt[d] + 1]
    /\ Goto(d, "want")
    /\ UNCHANGED <<req, back, ok, pools, contexts, results, coll>>

(* An error that is not retried: the fallback agent, if there is one. *)
TurnErr(d) ==
    /\ pc[d] = "turn"
    /\ Release(d)
    /\ IF ~back[d] /\ req[d].fallback # None
       THEN /\ back' = [back EXCEPT ![d] = TRUE]
            /\ Goto(d, "lookup")
       ELSE /\ Goto(d, AfterTurn(d))
            /\ UNCHANGED back
    /\ UNCHANGED <<req, attempt, ok, pools, contexts, results, coll>>

(* A panic in a background turn: nobody awaits the task, and nobody tells  *)
(* the job tracker.                                                        *)
Panic(d) ==
    /\ pc[d] = "turn"
    /\ req[d].async
    /\ Release(d)
    /\ Goto(d, "dead")
    /\ UNCHANGED <<req, back, attempt, ok, pools, contexts, results, coll>>

-----------------------------------------------------------------------------
(* Recording the result *)

TrackerNeverHeld == collect.pc \in {"idle", "wait", "read", "list"}

(* collect_results holds the tracker's lock while it lists the jobs. *)
TrackerFree == collect.pc # "list"

(* A call whose primary agent could not be created returns at once; every  *)
(* other one goes on to the team context.                                  *)
Push(d) ==
    /\ pc[d] = "push"
    /\ TrackerFree
    /\ tracker' = tracker \union {d}
    /\ Goto(d, IF inst[d] = 0 THEN "done" ELSE "record")
    /\ UNCHANGED <<req, back, attempt, ok, pools, busy, contexts, jobs, coll>>

(* update_context: TeamContext::record_completion. *)
RecordWork(d) ==
    /\ pc[d] = "record"
    /\ work' = work + 1
    /\ entry' = [entry EXCEPT ![d] = work + 1]
    /\ Goto(d, "update")
    /\ UNCHANGED <<req, back, attempt, ok, pools, busy, ctx, fresh, todo, writer,
                   results, coll>>

(* update_context: lock context_strings and visit what it holds by then. *)
LockContexts(d) ==
    /\ pc[d] = "update"
    /\ writer = None
    /\ writer' = d
    /\ todo' = {a \in Agents : ctx[a] # Absent}
    /\ Goto(d, "rewrite")
    /\ UNCHANGED <<req, back, attempt, ok, pools, busy, work, entry, ctx, fresh,
                   results, coll>>

RewriteOwnEntry(d, a) ==
    /\ pc[d] = "rewrite"
    /\ a \in todo
    /\ ctx' = [ctx EXCEPT ![a] = entry[d]]
    /\ todo' = todo \ {a}
    /\ UNCHANGED <<pc, req, back, attempt, ok, pools, busy, work, entry, fresh,
                   writer, results, coll>>

(* update_context: format one specialist's context anew. *)
RewriteContext(d, a) ==
    /\ pc[d] = "rewrite"
    /\ a \in todo
    /\ ctx' = [ctx EXCEPT ![a] = work]
    /\ todo' = todo \ {a}
    /\ UNCHANGED <<pc, req, back, attempt, ok, pools, busy, work, entry, fresh,
                   writer, results, coll>>

(* update_context returns. *)
UnlockContexts(d) ==
    /\ pc[d] = "rewrite"
    /\ todo = {}
    /\ writer' = None
    /\ Goto(d, IF req[d].async THEN "finish" ELSE "done")
    /\ UNCHANGED <<req, back, attempt, ok, pools, busy, work, entry, ctx, fresh,
                   todo, results, coll>>

(* JobTracker::complete_job or fail_job, the last thing a job does. *)
FinishJob(d) ==
    /\ pc[d] = "finish"
    /\ jobs' = [jobs EXCEPT ![d] = IF ok[d] THEN "completed" ELSE "failed"]
    /\ Goto(d, "done")
    /\ UNCHANGED <<req, back, attempt, ok, pools, busy, contexts, tracker, coll>>

-----------------------------------------------------------------------------
(* collect_results *)

(* due: the calls that have a job or a result when the call is made. *)
StartCollect(w) ==
    /\ collect.pc = "idle"
    /\ collects < MaxCollects
    /\ collects' = collects + 1
    /\ collect' = [pc |-> IF w THEN "wait" ELSE "read", wait |-> w,
                   due |-> tracker \union Running \union Finished, got |-> {}]
    /\ UNCHANGED <<pc, req, back, attempt, ok, pools, busy, contexts, results>>

SomeCompleted == Finished # {}

(* JobTracker::all_completed *)
AllCompleted == Running = {}

(* wait_all: a poll finds all jobs finished. *)
PollDone ==
    /\ collect.pc = "wait"
    /\ AllCompleted
    /\ collect' = [collect EXCEPT !.pc = "read"]
    /\ UNCHANGED <<pc, req, back, attempt, ok, pools, busy, contexts, results,
                   collects>>

PollForEver ==
    /\ collect.pc = "wait"
    /\ ~AllCompleted
    /\ UNCHANGED vars

(* wait_all: the 300 seconds are over; collect_results returns an error. *)
PollTimeout ==
    /\ collect.pc = "wait"
    /\ ~AllCompleted
    /\ collect' = NoCollect
    /\ UNCHANGED <<pc, req, back, attempt, ok, pools, busy, contexts, results,
                   collects>>

(* Lock the delegation tracker and read it. *)
ReadTracker ==
    /\ collect.pc = "read"
    /\ collect' = [collect EXCEPT !.pc = "list", !.got = tracker]
    /\ UNCHANGED <<pc, req, back, attempt, ok, pools, busy, contexts, results,
                   collects>>

(* Add the running jobs, unlock the tracker and return. *)
ListJobs ==
    /\ collect.pc = "list"
    /\ collect' = NoCollect
    /\ UNCHANGED <<pc, req, back, attempt, ok, pools, busy, contexts, results,
                   collects>>

-----------------------------------------------------------------------------
Work(d) ==
    \/ Lookup(d)
    \/ SetupOk(d)
    \/ SetupErr(d)
    \/ Register(d)
    \/ StartTurn(d)
    \/ TurnOk(d)
    \/ Retry(d)
    \/ TurnErr(d)
    \/ Panic(d)
    \/ Push(d)
    \/ RecordWork(d)
    \/ LockContexts(d)
    \/ \E a \in Agents : RewriteContext(d, a)
    \/ UnlockContexts(d)
    \/ FinishJob(d)

Collect == PollDone \/ PollTimeout \/ ReadTracker \/ ListJobs

Next ==
    \/ \E d \in Calls : Work(d) \/ \E r \in Requests : Open(d, r)
    \/ \E w \in BOOLEAN : StartCollect(w)
    \/ Collect

Spec == Init /\ [][Next]_vars

(* The runtime polls every task, turns end, tokio's mutexes are fair. *)
FairSpec ==
    /\ Spec
    /\ \A d \in Calls : WF_vars(Work(d))
    /\ WF_vars(Collect)

-----------------------------------------------------------------------------
(* Properties *)

(* A specialist is one conversation: all calls that run an agent of one    *)
(* name run the same instance, however their creation interleaves.         *)
OneConversation ==
    \A d, f \in Calls :
        /\ inst[d] # 0 /\ inst[f] # 0
        /\ pc[d] \in {"want", "turn"} /\ pc[f] \in {"want", "turn"}
        /\ Target(d) = Target(f)
        => inst[d] = inst[f]

(* collect_results loses no call: whatever had a job or a result when it   *)
(* was called is in the results it has read or among the running jobs it   *)
(* is about to list, even when a job finishes in between.                  *)
NothingLost ==
    collect.pc = "list" => collect.due \subseteq collect.got \union Running

(* collect_results with wait=true returns the result of every call that    *)
(* had a job when it was called, and none of them as still in progress.    *)
WaitedForAll ==
    collect.pc = "list" /\ collect.wait =>
        /\ collect.due \subseteq collect.got
        /\ collect.due \cap Running = {}

(* The team context of a specialist never goes back to showing less of the *)
(* completed work, whichever updates overlap.                              *)
ContextGrows == [][\A a \in Agents : ctx[a] <= ctx'[a]]_vars

(* Every call ends, and every collect_results returns: no lock is waited   *)
(* for in vain and no retry goes on for ever.                              *)
CallsEnd == \A d \in Calls : (pc[d] # "idle") ~> Ended(d)
CollectEnds == (collect.pc # "idle") ~> (collect.pc = "idle")

(* A turn sees the work of every delegation whose update_context returned  *)
(* before the turn began.                                                  *)
TurnsSeeFinishedWork ==
    [][\A d, f \in Calls :
          pc[d] = "want" /\ pc'[d] = "turn" /\ pc[f] \in {"finish", "done"}
          => entry[f] <= ctx[Target(d)]]_vars
=============================================================================
