----------------------------- MODULE TeamPolicy -----------------------------
(***************************************************************************)
(* What a team decides without state: which capabilities a specialist is   *)
(* given, which specialist is suggested for a task, which subtasks of a    *)
(* decomposition may run together, and which shared memories a query       *)
(* returns (aivyx-team: capability_delegation.rs, nonagon.rs, suggest.rs,  *)
(* decompose.rs, memory_sharing.rs).                                       *)
(***************************************************************************)
EXTENDS Integers, Sequences, FiniteSets, SequencesExt, FiniteSetsExt

-----------------------------------------------------------------------------
(* Capabilities.  A capability is a scope, a set of actions and whether it  *)
(* is still valid; within is the external relation "narrows" on scopes.    *)

Attenuated(parents, allowed, actions, within) ==
    {[scope |-> s, actions |-> actions, valid |-> TRUE] :
        s \in {t \in allowed :
                 \E p \in parents : /\ p.valid
                                    /\ <<t, p.scope>> \in within
                                    /\ actions \subseteq p.actions}}

NonagonRoles == {"coordinator", "researcher", "analyst", "coder", "reviewer", "writer",
                 "planner", "guardian", "executor"}

(* Every role has the file system and coordination. *)
RoleScopes(r) ==
    {"Filesystem", "coordination"} \union
    CASE r = "coordinator" -> {"Network", "scheduling"}
      [] r \in {"researcher", "writer"} -> {"Network"}
      [] r = "analyst" -> {"sandbox", "database"}
      [] r \in {"guardian", "coder", "reviewer"} -> {"Shell"}
      [] r = "executor" -> {"Shell", "Network", "scheduling"}
      [] r = "planner" -> {"scheduling"}

(* The scopes that the tools of each role ask for, the file system apart. *)
ToolScopes(r) ==
    CASE r = "coordinator" -> {"Network", "scheduling"}
      [] r \in {"researcher", "writer"} -> {"Network"}
      [] r = "analyst" -> {"sandbox", "database"}
      [] r \in {"guardian", "coder", "reviewer"} -> {"Shell"}
      [] r = "executor" -> {"Shell", "Network", "scheduling"}
      [] r = "planner" -> {"scheduling"}

(* The scopes of a profile, as the suggestion of a specialist lists them:  *)
(* the same table, written a second time; a member outside the nine roles  *)
(* has none.                                                               *)
ScopesOfRole(r) ==
    CASE r = "coordinator" -> {"coordination", "Filesystem", "Network", "scheduling"}
      [] r = "researcher" -> {"Filesystem", "Network", "coordination"}
      [] r = "analyst" -> {"Filesystem", "coordination", "sandbox", "database"}
      [] r = "guardian" -> {"Filesystem", "Shell", "coordination"}
      [] r = "coder" -> {"Filesystem", "Shell", "coordination"}
      [] r = "executor" -> {"Filesystem", "Shell", "coordination", "Network", "scheduling"}
      [] r = "reviewer" -> {"Filesystem", "Shell", "coordination"}
      [] r = "writer" -> {"Filesystem", "Network", "coordination"}
      [] r = "planner" -> {"Filesystem", "coordination", "scheduling"}

MemberScopes(name) == IF name \in NonagonRoles THEN ScopesOfRole(name) ELSE {}

(* What the profile of a role holds, and what the specialist of that role  *)
(* holds once it works under the coordinator.                              *)
ProfileCapabilities(r) ==
    {[scope |-> s, actions |-> {"execute", "other"}, valid |-> TRUE] : s \in RoleScopes(r)}

SpecialistCapabilities(r) ==
    Attenuated(ProfileCapabilities("coordinator"), RoleScopes(r), {"execute"},
               {<<s, s>> : s \in RoleScopes(r)})

-----------------------------------------------------------------------------
(* Suggestions.  Rates are given as <<successes, attempts>>. *)

Above(rate, percent) == 100 * rate[1] > percent * rate[2]

RateBonus(rates, key) ==
    IF key \notin DOMAIN rates THEN 0
    ELSE IF Above(rates[key], 80) THEN 2
    ELSE IF Above(rates[key], 60) THEN 1
    ELSE 0

ToolBonus(rates, tools) ==
    IF \E t \in tools \intersect DOMAIN rates : Above(rates[t], 90) THEN 1 ELSE 0

Bonus(weights, m) ==
    Min({5, RateBonus(weights.agents, m.name)
            + ToolBonus(weights.tools, m.tools)
            + RateBonus(weights.roles, m.role)})

(* What past outcomes teach: an outcome is [agent, role, tools, success].  *)
LearnedRates(outcomes, keys(_)) ==
    [k \in UNION {keys(o) : o \in Range(outcomes)} |->
        LET of == SelectSeq(outcomes, LAMBDA o : k \in keys(o))
        IN <<Len(SelectSeq(of, LAMBDA o : o.success)), Len(of)>>]

LearnedWeights(outcomes) ==
    [agents |-> LearnedRates(outcomes, LAMBDA o : {o.agent}),
     tools |-> LearnedRates(outcomes, LAMBDA o : o.tools),
     roles |-> LearnedRates(outcomes, LAMBDA o : {o.role})]

(* A task lists what it requires and the words of its description. *)
Score(m, task) ==
    3 * Cardinality(task.tools \intersect m.tools)
    + 2 * Cardinality(task.scopes \intersect m.scopes)
    + 2 * Cardinality(task.skills \intersect m.skills)
    + Cardinality(task.words \intersect m.words)

Suggested(members, task, weights) ==
    LET total(m) == Score(m, task) + Bonus(weights, m) IN
    {m \in members : total(m) > 0}

-----------------------------------------------------------------------------
(* Decomposition.  deps[i] lists the subtasks that i depends on; an index  *)
(* outside the plan is skipped.                                            *)

Deepen(deps, depth, i) ==
    FoldLeft(LAMBDA d, dep :
                IF dep \in DOMAIN deps /\ d[dep] + 1 > d[i] THEN [d EXCEPT ![i] = d[dep] + 1] ELSE d,
             depth, deps[i])

DeepenAll(deps, depth) ==
    FoldLeft(LAMBDA d, i : Deepen(deps, d, i), depth, [i \in DOMAIN deps |-> i])

(* As many rounds as there are subtasks. *)
Depths(deps) ==
    FoldLeft(LAMBDA d, i : DeepenAll(deps, d), [i \in DOMAIN deps |-> 0],
             [i \in DOMAIN deps |-> i])

ParallelGroups(deps) ==
    LET depth == Depths(deps)
        members(d) == {i \in DOMAIN deps : depth[i] = d}
    IN SelectSeq([k \in 1 .. Max(Range(depth)) + 1 |-> members(k - 1)], LAMBDA g : g # {})

(* A plan whose subtasks can be put in an order that respects it. *)
Acyclic(deps) ==
    \E rank \in [DOMAIN deps -> DOMAIN deps] :
        \A i \in DOMAIN deps : \A d \in Range(deps[i]) \intersect DOMAIN deps : rank[d] < rank[i]

-----------------------------------------------------------------------------
(* Shared memories.  Each is [id, count]; found is what the team's agents' *)
(* queries returned, one after the other.                                  *)

MostUsedFirst(found) ==
    SortSeq(found, LAMBDA a, b : a.count > b.count)

(* Only a memory beside itself is seen to be there twice. *)
SharedMemories(found, top) ==
    LET sorted == MostUsedFirst(found)
        kept(i) == i = 1 \/ sorted[i - 1].id # sorted[i].id
        places == SelectSeq([i \in DOMAIN sorted |-> i], kept)
        unique == [k \in DOMAIN places |-> sorted[places[k]]]
    IN SubSeq(unique, 1, Min({top, Len(unique)}))
=============================================================================
