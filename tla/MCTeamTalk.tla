----------------------------- MODULE MCTeamTalk -----------------------------
(***************************************************************************)
(* A lead, a second agent of its name, a specialist that may be spawned    *)
(* before or after its first delegation, and channels of one message.  The *)
(* decisions of TeamPolicy are evaluated over small inputs.                *)
(***************************************************************************)
EXTENDS TeamTalk, TeamPolicy, TLC

CONSTANTS lead, extra, namesake, c1, c2

MCMembers == {lead}
MCSpawnable == {extra}
MCProfiles == {lead, extra}
MCCalls == {c1, c2}
CallSymmetry == Permutations(MCCalls)

(* The two tables of scopes agree, and the profile of every role covers    *)
(* its tools.                                                              *)
ASSUME TablesAgree ==
    \A r \in NonagonRoles : MemberScopes(r) = RoleScopes(r) /\ ToolScopes(r) \subseteq RoleScopes(r)

(* A specialist holds what its profile and the coordinator's share: no one *)
(* in a Nonagon team is left with a shell.                                 *)
ASSUME SharedScopesHeld ==
    \A r \in NonagonRoles :
        {c.scope : c \in SpecialistCapabilities(r)} = RoleScopes(r) \intersect RoleScopes("coordinator")

(* Plans of three subtasks, one of which may name a subtask there is not.  *)
Plans == {deps \in [1 .. 3 -> {SetToSeq(D) : D \in SUBSET (1 .. 4)}] : Acyclic(deps)}

(* The groups of an acyclic plan share out its subtasks, and a subtask     *)
(* comes after everything it depends on.                                   *)
ASSUME GroupsRespectPlan ==
    \A deps \in Plans :
        LET groups == ParallelGroups(deps) IN
        \A i \in DOMAIN deps :
            \E g \in DOMAIN groups :
                /\ i \in groups[g]
                /\ \A h \in DOMAIN groups : i \in groups[h] => h = g
                /\ \A d \in Range(deps[i]) \intersect DOMAIN deps :
                      \E h \in 1 .. g - 1 : d \in groups[h]

(* Nobody earns more than the five points the total is cut at. *)
Rates == {<<s, n>> \in (0 .. 5) \X (1 .. 5) : s <= n}
ASSUME BonusWithinCap ==
    \A a, t, r \in Rates :
        RateBonus([agent |-> a], "agent") + ToolBonus([tool |-> t], {"tool"})
            + RateBonus([role |-> r], "role") <= 5

(* A member who never succeeded earns nothing, and is suggested only for   *)
(* what it can do.                                                         *)
Outcomes == [agent : {"a", "b"}, role : {"r"}, tools : {{}, {"t"}}, success : BOOLEAN]
Member == [name |-> "a", role |-> "s", tools |-> {"t"}, scopes |-> {"Shell"},
           skills |-> {"coding"}, words |-> {"s", "a", "coding"}]
NoTask == [tools |-> {}, scopes |-> {}, skills |-> {}, words |-> {}]
ASSUME FailureEarnsNothing ==
    \A outcomes \in BoundedSeq(Outcomes, 3) :
        (\A o \in Range(outcomes) : ~ o.success) =>
            Suggested({Member}, NoTask, LearnedWeights(outcomes)) = {}

(* A query returns no memory that was not found, and no more than asked. *)
Memories == {[id |-> i, count |-> c] : i \in {1, 2}, c \in {0, 1}}
ASSUME QueryBounded ==
    \A found \in BoundedSeq(Memories, 3) : \A top \in 0 .. 2 :
        /\ Len(SharedMemories(found, top)) <= top
        /\ Range(SharedMemories(found, top)) \subseteq Range(found)
=============================================================================
