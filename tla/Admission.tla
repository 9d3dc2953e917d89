----------------------------- MODULE Admission -----------------------------
(***************************************************************************)
(* What a request passes before its handler runs: the router and its       *)
(* layers (aivyx-server: startup.rs, middleware/).  Outermost the fault    *)
(* injection, if the environment turns it on; around every protected route *)
(* the authentication, which counts the failures of each address; and      *)
(* around three groups of routes, the tiers, a limiter of each address's   *)
(* requests.  Whether a token is right is Access's subject; here it is a   *)
(* property of the request.                                                *)
(*                                                                         *)
(* Requests run in parallel.  The lock on the failures is released between *)
(* the check and the count.  Time is a number of ticks.  A failure is kept *)
(* as its time and a number that tells failures of one tick apart.         *)
(***************************************************************************)
EXTENDS Integers, FiniteSets

CONSTANTS
    Ips,         \* addresses of clients
    Requests,    \* requests that are being served at a time
    MaxFailures, \* MAX_AUTH_FAILURES
    Window,      \* RATE_LIMIT_WINDOW_SECS, in ticks
    Quota,       \* max_requests of each tier
    Period,      \* window_secs of each tier, in ticks
    Routes,      \* routes that are asked for
    MaxTime,     \* bound on the time
    None

Tiers == {"llm", "search", "task"}
Credentials == {"none", "wrong", "void key", "key", "bearer"}

ASSUME RequestsAssumption == IsFiniteSet(Requests)
ASSUME FailuresAssumption == MaxFailures \in Nat \ {0} /\ Window \in Nat \ {0}
ASSUME TierAssumption == Quota \in [Tiers -> Nat \ {0}] /\ Period \in [Tiers -> Nat \ {0}]
ASSUME TimeAssumption == MaxTime \in Nat

VARIABLES
    now,
    tenancy,  \* multi_tenant_enabled
    limited,  \* whether the configuration has rate limits
    failures, \* auth_rate_limiter: the failures of each address
    full,     \* when each address has its whole quota of a tier again
    pc,       \* where each request is
    request,  \* its address, route and credential
    entered   \* history: the requests a tier let through in its last period

settings == <<tenancy, limited>>
vars == <<now, settings, failures, full, pc, request, entered>>

(* The routes outside the authentication, and those of each tier. *)
PublicRoutes == {"/health", "/ws", "/webhooks"}
LlmRoutes == {"/chat", "/ws/voice", "/teams/run", "/digest"}
SearchRoutes == {"/memory/search", "/memory/profile/extract"}
TaskRoutes == {"/tasks", "/tasks/resume", "/a2a"}
UnmeteredRoutes == {"/agents", "/tenants", "/admin/rotate-token"}

ASSUME RoutesAssumption ==
    Routes \subseteq PublicRoutes \union LlmRoutes \union SearchRoutes
                    \union TaskRoutes \union UnmeteredRoutes

TierOf(route) ==
    CASE route \in LlmRoutes -> "llm"
      [] route \in SearchRoutes -> "search"
      [] route \in TaskRoutes -> "task"
      [] OTHER -> None

Steps == {"idle", "arrived", "token", "tier", "handler"}
RequestRecord == [ip : Ips, route : Routes, credential : Credentials]
Events == (0 .. MaxTime) \X Nat

TypeOK ==
    /\ now \in 0 .. MaxTime
    /\ tenancy \in BOOLEAN /\ limited \in BOOLEAN
    /\ failures \in [Ips -> SUBSET Events]
    /\ full \in [Tiers -> [Ips -> Nat]]
    /\ pc \in [Requests -> Steps]
    /\ request \in [Requests -> RequestRecord \union {None}]
    /\ entered \in [Tiers -> [Ips -> SUBSET Events]]

Init ==
    /\ now = 0
    /\ tenancy \in BOOLEAN /\ limited \in BOOLEAN
    /\ failures = [ip \in Ips |-> {}]
    /\ full = [t \in Tiers |-> [ip \in Ips |-> 0]]
    /\ pc = [r \in Requests |-> "idle"]
    /\ request = [r \in Requests |-> None]
    /\ entered = [t \in Tiers |-> [ip \in Ips |-> {}]]

-----------------------------------------------------------------------------
(* Helpers *)

Since(events, age) == {e \in events : now - e[1] < age}

Noted(events) == events \union {<<now, Cardinality({e \in events : e[1] = now})>>}

Goes(r, step) == pc' = [pc EXCEPT ![r] = step]

Answered(r) == Goes(r, "idle") /\ request' = [request EXCEPT ![r] = None]

(* record_auth_failure *)
RecordFailure(r) ==
    failures' = [failures EXCEPT ![request[r].ip] = Noted(@)]

(* Whether a bearer token or a key lets a request in depends on tenancy. *)
Admits(credential) ==
    \/ credential = "bearer"
    \/ tenancy /\ credential = "key"

(* The quota replenishes by one request a period. *)
ReplenishAll(t) == IF Period[t] < Quota[t] THEN 1 ELSE Period[t] \div Quota[t]
Replenish(t) == Period[t]

Later(a, b) == IF a > b THEN a ELSE b

(* The request after which the limiter has its quota again at a time. *)
CheckKey(t, ip) == Later(full[t][ip], now) + Replenish(t)
WithinQuota(t, ip) == CheckKey(t, ip) - now <= Quota[t] * Replenish(t)

-----------------------------------------------------------------------------
(* The steps of a request *)

Arrive(r) ==
    /\ pc[r] = "idle"
    /\ \E q \in RequestRecord : request' = [request EXCEPT ![r] = q]
    /\ Goes(r, "arrived")
    /\ UNCHANGED <<now, settings, failures, full, entered>>

(* ChaosService, if AIVYX_CHAOS_ENABLED is set: an error and no call. *)
InjectError(r) ==
    /\ pc[r] = "arrived"
    /\ Answered(r)
    /\ UNCHANGED <<now, settings, failures, full, entered>>

PublicRoute(r) ==
    /\ pc[r] = "arrived" /\ request[r].route \in PublicRoutes
    /\ Goes(r, "handler")
    /\ UNCHANGED <<now, settings, request, failures, full, entered>>

TooManyFailuresButOne(ip) == Cardinality(Since(failures[ip], Window)) > MaxFailures

TooManyFailures(ip) == Cardinality(Since(failures[ip], Window)) >= MaxFailures

(* is_rate_limited: older failures are forgotten, and a request of an      *)
(* address that has failed too often is refused and not counted.           *)
IsRateLimited(r) ==
    LET ip == request[r].ip IN
    /\ pc[r] = "arrived" /\ request[r].route \notin PublicRoutes
    /\ failures' = [failures EXCEPT ![ip] = Since(@, Window)]
    /\ \/ TooManyFailures(ip) /\ Answered(r)
       \/ ~ TooManyFailures(ip) /\ Goes(r, "token") /\ UNCHANGED request
    /\ UNCHANGED <<now, settings, full, entered>>

(* A missing or a wrong token is counted and refused. *)
FailAuthentication(r) ==
    /\ pc[r] = "token"
    /\ ~ Admits(request[r].credential)
    /\ request[r].credential = "void key" => ~ tenancy
    /\ RecordFailure(r)
    /\ Answered(r)
    /\ UNCHANGED <<now, settings, full, entered>>

(* A key of a tenant that is not active is refused and not counted. *)
RefuseTenant(r) ==
    /\ pc[r] = "token" /\ tenancy
    /\ request[r].credential = "void key"
    /\ Answered(r)
    /\ UNCHANGED <<now, settings, failures, full, entered>>

Authenticate(r) ==
    /\ pc[r] = "token"
    /\ Admits(request[r].credential)
    /\ Goes(r, IF limited /\ TierOf(request[r].route) # None THEN "tier" ELSE "handler")
    /\ UNCHANGED <<now, settings, request, failures, full, entered>>

(* rate_limit_llm, rate_limit_search, rate_limit_task *)
RateLimit(r) ==
    LET ip == request[r].ip
        t == TierOf(request[r].route)
    IN  /\ pc[r] = "tier"
        /\ \/ /\ WithinQuota(t, ip)
              /\ full' = [full EXCEPT ![t][ip] = CheckKey(t, ip)]
              /\ entered' = [entered EXCEPT ![t][ip] = Noted(@)]
              /\ Goes(r, "handler")
              /\ UNCHANGED request
           \/ /\ ~ WithinQuota(t, ip)
              /\ Answered(r)
              /\ UNCHANGED <<full, entered>>
        /\ UNCHANGED <<now, settings, failures>>

Handle(r) ==
    /\ pc[r] = "handler"
    /\ Answered(r)
    /\ UNCHANGED <<now, settings, failures, full, entered>>

Tick ==
    /\ now < MaxTime
    /\ now' = now + 1
    /\ entered' = [t \in Tiers |-> [ip \in Ips |->
                     {e \in entered[t][ip] : now' - e[1] < Period[t]}]]
    /\ UNCHANGED <<settings, failures, full, pc, request>>

Next ==
    \/ \E r \in Requests :
          \/ Arrive(r) \/ InjectError(r) \/ PublicRoute(r) \/ IsRateLimited(r)
          \/ FailAuthentication(r) \/ RefuseTenant(r) \/ Authenticate(r)
          \/ RateLimit(r) \/ Handle(r)
    \/ Tick

Spec == Init /\ [][Next]_vars

-----------------------------------------------------------------------------
(* However the requests of an address interleave, those of them that were  *)
(* told within a window that their token was wrong are fewer than the      *)
(* limit and the requests that can be under way together: the check and    *)
(* the count are apart, but a request that is under way is one.            *)
GuessesBounded ==
    \A ip \in Ips :
        Cardinality(Since(failures[ip], Window)) < MaxFailures + Cardinality(Requests)

(* Over any stretch of time of the length of a tier's window, a tier lets  *)
(* no more requests of an address through than its max_requests.           *)
WindowRespected ==
    \A t \in Tiers, ip \in Ips : Cardinality(entered[t][ip]) <= Quota[t]

(* An address that sent a tier nothing for a whole window may send         *)
(* max_requests again.                                                     *)
WindowRestores ==
    \A t \in Tiers, ip \in Ips :
        limited /\ entered[t][ip] = {} => full[t][ip] <= now
=============================================================================
