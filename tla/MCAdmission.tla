---------------------------- MODULE MCAdmission ----------------------------
(***************************************************************************)
(* One address and two requests at a time; a window of three ticks and two *)
(* failures, and tiers of one to three requests.  What the routes compute  *)
(* from stored records (Reports) is evaluated over small inputs.           *)
(***************************************************************************)
EXTENDS Admission, Reports, TLC

CONSTANTS a, r1, r2

MCIps == {a}
MCRequests == {r1, r2}
MCRoutes == {"/health", "/chat", "/agents"}
MCQuota == [llm |-> 2, search |-> 1, task |-> 3]
MCPeriod == [llm |-> 3, search |-> 2, task |-> 3]
Symmetry == Permutations(MCRequests)

-----------------------------------------------------------------------------
(* Costs, in a calendar whose months have two days. *)

FirstOf == [year \in 0 .. 2, month \in 1 .. 12 |-> 24 * year + 2 * (month - 1)]

Entries == [tenant : {"t", "u"}, agent : {"g"}, team : {Unset}, model : {"m"},
            date : 22 .. 25, cost : 1 .. 2]
Ledgers == BoundedSeq(Entries, 2)

(* A month's total is the sum of its days' totals, also over the turn of   *)
(* the year, and a tenant's total is a part of everybody's.                *)
ASSUME MonthIsItsDays ==
    \A ledger \in Ledgers, tenant \in {"t", Unset} :
        LET december == MonthlyTotal(ledger, tenant, 0, 12, FirstOf)
            january == MonthlyTotal(ledger, tenant, 1, 1, FirstOf)
        IN /\ december = DailyTotal(ledger, tenant, 22) + DailyTotal(ledger, tenant, 23)
           /\ january = DailyTotal(ledger, tenant, 24) + DailyTotal(ledger, tenant, 25)
           /\ MonthlyTotal(ledger, "t", 0, 12, FirstOf) <= MonthlyTotal(ledger, Unset, 0, 12, FirstOf)

(* Whoever is paused by a budget is paused by any smaller one.             *)
Limits == {Unset, 0, 1, 2}
Budgets == [on_exceeded : {"pause", "alert"}, tenant_daily : Limits, tenant_monthly : Limits]
Tighter(x, y) == y = Unset \/ (x # Unset /\ x <= y)
ASSUME TighterPausesMore ==
    \A b, c \in Budgets, daily \in 0 .. 2, monthly \in 0 .. 2 :
        /\ Paused(b, daily, monthly)
        /\ c.on_exceeded = b.on_exceeded
        /\ Tighter(c.tenant_daily, b.tenant_daily)
        /\ Tighter(c.tenant_monthly, b.tenant_monthly)
        => Paused(c, daily, monthly)

(* The daily series has as many days as were asked for, at least one, ends *)
(* today, and holds every cost of its days once.                           *)
ASSUME SeriesIsWhole ==
    \A ledger \in Ledgers, asked \in 0 .. 3 :
        LET series == UsageDaily(ledger, "t", 24, asked)
            from == 25 - Len(series)
        IN /\ Len(series) = Max({asked, 1})
           /\ series[Len(series)] = DailyTotal(ledger, "t", 24)
           /\ Total(series, LAMBDA x : x)
                = Total(Query(ledger, Between("t", from, 24)), LAMBDA e : e.cost)

(* A breakdown of the costs adds up to their total. *)
Answers == [agent : {"g", "h"}, provider : {"p", "q"}, at : {1, 3}, cost : 1 .. 2]
ASSUME BreakdownAddsUp ==
    \A events \in BoundedSeq(Answers, 3) :
        LET rollup == CostRollup(events, 3, 1)
        IN rollup.total
             = FoldSet(LAMBDA g, sum : sum + rollup.breakdown[g].cost, 0, DOMAIN rollup.breakdown)

(* The first rule for a purpose decides, whatever follows it. *)
Rules == [purpose : {"Planning", "Execution"}, provider : {"p", "q"}]
ASSUME FirstRuleDecides ==
    \A rule \in Rules, rest \in BoundedSeq(Rules, 2) :
        Routed(<<rule>> \o rest, "default", rule.purpose) = rule.provider

-----------------------------------------------------------------------------
(* Outcomes *)

Outcomes == [tools : BoundedSeq({"s", "t"}, 2), role : {Unset, "r"}, success : BOOLEAN,
             duration : {1}, at : {1}]
Histories == BoundedSeq(Outcomes, 2)

(* The planner's feedback and the skills' scores count alike. *)
ASSUME CountsAgree ==
    \A outcomes \in Histories :
        LET rates == ToolRates(outcomes)
            scores == ScoreSkills(outcomes)
        IN \A t \in Tools(outcomes) :
              /\ rates[t].total = scores[t].activations
              /\ rates[t].successes = scores[t].successes

(* No combination of tools is taught as a success and as a failure, none   *)
(* on a single outcome, and no tool ranks below a worse one.               *)
ASSUME LessonsAgree ==
    \A outcomes \in Histories :
        LET lessons == AnalyzeOutcomes(outcomes)
            rates == ToolRates(outcomes)
        IN /\ lessons.successful \intersect lessons.failing = {}
           /\ Len(outcomes) < 2 => lessons.successful \union lessons.failing = {}
           /\ \A i, j \in DOMAIN lessons.tools :
                 i < j => ~ Better(rates[lessons.tools[j]], rates[lessons.tools[i]])

-----------------------------------------------------------------------------
(* Workflows, capabilities, roles *)

Stages == [condition : {"Always", "OnSuccess", "OnFailure"},
           result : {Unset, [success |-> TRUE, output |-> "x"],
                     [success |-> FALSE, output |-> "y"]}]

(* Of two stages that wait for opposite outcomes of the stage before,      *)
(* never both run, and none before there is a result.                      *)
ASSUME OneBranchRuns ==
    \A first \in Stages, second \in Stages :
        LET at1(condition) == [NewWorkflow(<<first, [second EXCEPT !.condition = condition]>>)
                               EXCEPT !.current = 1]
            runs == {c \in {"OnSuccess", "OnFailure"} : ShouldRun(at1(c))}
        IN IF first.result = Unset THEN runs = {} ELSE Cardinality(runs) = 1

(* Nothing is warned about that a profile with more capabilities would not *)
(* be warned about.                                                        *)
Capabilities == [scope : {"Shell", "Network", "Calendar"}, wide : BOOLEAN]
ASSUME WarningsGrow ==
    \A caps \in BoundedSeq(Capabilities, 2), c \in Capabilities, tier \in {"Free", "Leash"} :
        Warnings([capabilities |-> caps, tier |-> tier])
            \subseteq Warnings([capabilities |-> Append(caps, c), tier |-> tier])

(* Whoever has a role by one group keeps it, or gets a higher one, by      *)
(* another group.                                                          *)
Mappings == SUBSET [group : {"g", "h"}, role : 0 .. 3]
ASSUME GroupsNeverLower ==
    \A mappings \in Mappings :
        (\E m \in mappings : m.group = "g") =>
            MapClaims({"g"}, mappings) <= MapClaims({"g", "h"}, mappings)
=============================================================================
