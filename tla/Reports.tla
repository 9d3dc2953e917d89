------------------------------ MODULE Reports ------------------------------
(***************************************************************************)
(* What is computed from stored records, without state of its own: totals  *)
(* and budgets of the cost ledger (aivyx-billing and routes/usage.rs,      *)
(* routes/metrics.rs), what past outcomes teach the planner (aivyx-task:   *)
(* feedback.rs, skill_scoring.rs), the stages of a workflow (workflow.rs), *)
(* the warnings about agents' capabilities (security/capability_audit.rs)  *)
(* and the role of somebody who signs on (aivyx-sso).                      *)
(***************************************************************************)
EXTENDS Integers, Sequences, FiniteSets, SequencesExt, FiniteSetsExt

CONSTANT Unset \* an Option that is None

Total(s, value(_)) == FoldLeft(LAMBDA sum, x : sum + value(x), 0, s)
Count(s, test(_)) == Len(SelectSeq(s, test))

-----------------------------------------------------------------------------
(* Costs.  An entry is [tenant, agent, team, model, date, cost], a filter  *)
(* has a value or Unset for each of the first four, and a range of dates.  *)
(* A date is the number of a day; firstOf is the calendar.                 *)

Matches(e, filter) ==
    /\ \A field \in {"tenant", "agent", "team", "model"} :
          filter[field] \in {Unset, e[field]}
    /\ filter.from = Unset \/ e.date >= filter.from
    /\ filter.to = Unset \/ e.date <= filter.to

Query(ledger, filter) == SelectSeq(ledger, LAMBDA e : Matches(e, filter))

Between(tenant, from, to) ==
    [tenant |-> tenant, agent |-> Unset, team |-> Unset, model |-> Unset,
     from |-> from, to |-> to]

Cost(e) == e.cost

DailyTotal(ledger, tenant, date) ==
    Total(Query(ledger, Between(tenant, date, date)), Cost)

MonthlyTotal(ledger, tenant, year, month, firstOf) ==
    LET next == IF month = 12 THEN firstOf[year + 1, 1] ELSE firstOf[year, month + 1]
    IN Total(Query(ledger, Between(tenant, firstOf[year, month], next - 1)), Cost)

(* check_budget: the limits of an agent and the alerts are not looked at.  *)
Paused(budget, daily, monthly) ==
    /\ budget.on_exceeded = "pause"
    /\ \/ budget.tenant_daily # Unset /\ daily >= budget.tenant_daily
       \/ budget.tenant_monthly # Unset /\ monthly >= budget.tenant_monthly

(* The provider of the first rule for a purpose. *)
Routed(rules, default, purpose) ==
    LET fit == SelectSeq(rules, LAMBDA rule : rule.purpose = purpose)
    IN IF fit = <<>> THEN default ELSE Head(fit).provider

Clamp(n, low, high) == Max({low, Min({n, high})})

(* One total a day, up to today. *)
UsageDaily(ledger, tenant, today, asked) ==
    LET days == Clamp(asked, 1, 90)
        from == today - (days - 1)
        entries == Query(ledger, Between(tenant, from, today))
    IN [i \in 1 .. days |->
          Total(SelectSeq(entries, LAMBDA e : e.date = from + i - 1), Cost)]

(* The answers of language models in the audit log, [agent, provider, at,  *)
(* cost], by agent and provider.                                           *)
CostRollup(events, now, asked) ==
    LET days == Clamp(asked, 1, 30)
        seen == SelectSeq(events, LAMBDA e : e.at >= now - days /\ e.at <= now)
        of(g) == SelectSeq(seen, LAMBDA e : <<e.agent, e.provider>> = g)
    IN [total |-> Total(seen, Cost),
        breakdown |-> [g \in {<<e.agent, e.provider>> : e \in Range(seen)} |->
                         [requests |-> Len(of(g)), cost |-> Total(of(g), Cost)]]]

-----------------------------------------------------------------------------
(* Outcomes: [tools, role, success, duration, at].  A tool that is named   *)
(* twice by one outcome counts twice.                                      *)

Uses(o, tool) == Count(o.tools, LAMBDA t : t = tool)
Success(o) == o.success
Tools(outcomes) == UNION {Range(o.tools) : o \in Range(outcomes)}

Rate(outcomes, weight(_)) ==
    [successes |-> Total(SelectSeq(outcomes, Success), weight),
     total |-> Total(outcomes, weight)]

Better(a, b) == a.successes * b.total > b.successes * a.total

ByRate(rates) ==
    SortSeq(SetToSeq(DOMAIN rates), LAMBDA a, b : Better(rates[a], rates[b]))

ToolRates(outcomes) ==
    [t \in Tools(outcomes) |-> Rate(outcomes, LAMBDA o : Uses(o, t))]

RoleRates(outcomes) ==
    [r \in {o.role : o \in Range(outcomes)} \ {Unset} |->
        Rate(outcomes, LAMBDA o : IF o.role = r THEN 1 ELSE 0)]

(* The tools of an outcome, whatever their order. *)
Combination(o) == [t \in Range(o.tools) |-> Uses(o, t)]

CombinationRates(outcomes) ==
    [c \in {Combination(o) : o \in {p \in Range(outcomes) : p.tools # <<>>}} |->
        Rate(outcomes, LAMBDA o : IF Combination(o) = c THEN 1 ELSE 0)]

AnalyzeOutcomes(outcomes) ==
    LET combinations == CombinationRates(outcomes)
        patterns == {c \in DOMAIN combinations : combinations[c].total >= 2}
    IN [successful |-> {c \in patterns :
                          10 * combinations[c].successes > 8 * combinations[c].total},
        failing |-> {c \in patterns :
                          10 * combinations[c].successes < 3 * combinations[c].total},
        tools |-> ByRate(ToolRates(outcomes)),
        roles |-> ByRate(RoleRates(outcomes))]

(* Effectiveness of the tools, counted a second time. *)
ScoreSkills(outcomes) ==
    LET add(stats, o, t) ==
            [stats EXCEPT ![t].activations = @ + 1,
                          ![t].successes = @ + (IF o.success THEN 1 ELSE 0),
                          ![t].duration = @ + o.duration,
                          ![t].last = Max({@, o.at})]
        zero == [t \in Tools(outcomes) |->
                   [activations |-> 0, successes |-> 0, duration |-> 0, last |-> 0]]
    IN FoldLeft(LAMBDA stats, o : FoldLeft(LAMBDA s, t : add(s, o, t), stats, o.tools),
                zero, outcomes)

-----------------------------------------------------------------------------
(* Workflows: [stages, current], a stage is [condition, result] and a      *)
(* result Unset or [success, output].  Stages are numbered from 0.         *)

NewWorkflow(stages) == [stages |-> stages, current |-> 0, status |-> "Running"]

Stage(w, i) == w.stages[i + 1]
InBounds(w) == w.current < Len(w.stages)

PreviousResult(w) == IF w.current = 0 THEN Unset ELSE Stage(w, w.current - 1).result

(* A stage that always runs also runs after one that has no result.        *)
ShouldRun(w) ==
    /\ InBounds(w)
    /\ \/ w.current = 0
       \/ Stage(w, w.current).condition = "Always"
       \/ /\ PreviousResult(w) # Unset
          /\ Stage(w, w.current).condition
                = IF PreviousResult(w).success THEN "OnSuccess" ELSE "OnFailure"

(* What stands for {prev_result} in the prompt. *)
Interpolated(w) ==
    IF ~ InBounds(w) THEN Unset
    ELSE IF PreviousResult(w) = Unset THEN "(no previous result)"
    ELSE PreviousResult(w).output

WorkflowMetadata(w) ==
    [status |-> w.status, current |-> w.current, total |-> Len(w.stages)]

-----------------------------------------------------------------------------
(* Capabilities of a profile, [scope, wide]: wide is a shell with no list  *)
(* of commands, the root of the file system, a network with no list of     *)
(* hosts, or a custom scope without a namespace.                           *)

Warnings(profile) ==
    {c.scope : c \in {d \in Range(profile.capabilities) :
                        d.wide /\ d.scope \in {"Shell", "Filesystem", "Network", "Custom"}}}
    \union (IF profile.tier \in {"Trust", "Free"} /\ Len(profile.capabilities) >= 3
            THEN {"HighAutonomyWithBroadScope"} ELSE {})

-----------------------------------------------------------------------------
(* The role for groups of an identity provider: the highest that a mapping *)
(* gives for one of them, and Viewer if there is none.  Roles are ordered  *)
(* Billing, Viewer, Operator, Admin.                                       *)
MapClaims(groups, mappings) ==
    LET roles == {m.role : m \in {n \in mappings : n.group \in groups}}
    IN IF roles = {} THEN 1 ELSE Max(roles)
=============================================================================
