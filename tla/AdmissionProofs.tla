-------------------------- MODULE AdmissionProofs --------------------------
(***************************************************************************)
(* Theorems about Admission, for any number of addresses and requests and  *)
(* every limit: the type invariant, the bound on failed authentications,   *)
(* and the bound on what a tier lets through within its window.            *)
(***************************************************************************)
EXTENDS Admission, FiniteSetTheorems, TLAPS

USE DEF settings, vars

(* A request under way has an address, a route and a credential; one that  *)
(* waits for a tier's limiter is of that tier.                             *)
Underway ==
    \A r \in Requests :
        /\ pc[r] # "idle" => request[r] \in RequestRecord
        /\ pc[r] = "tier" => TierOf(request[r].route) \in Tiers

Counted ==
    /\ \A ip \in Ips : IsFiniteSet(failures[ip])
    /\ \A t \in Tiers, ip \in Ips : IsFiniteSet(entered[t][ip])

TypeInv == TypeOK /\ Underway /\ Counted

-----------------------------------------------------------------------------
(* Sets of events *)

LEMMA NotedFinite ==
    ASSUME NEW events, IsFiniteSet(events)
    PROVE  /\ IsFiniteSet(Noted(events))
           /\ Cardinality(Noted(events)) <= Cardinality(events) + 1
           /\ Cardinality(events) \in Nat
<1>1. Cardinality(events) \in Nat
  BY FS_CardinalityType
<1>2. PICK event : Noted(events) = events \union {event}
  BY DEF Noted
<1>3. /\ IsFiniteSet(events \union {event})
      /\ Cardinality(events \union {event})
            = IF event \in events THEN Cardinality(events) ELSE Cardinality(events) + 1
  BY FS_AddElement
<1> QED
  BY <1>1, <1>2, <1>3

LEMMA NotedTyped ==
    ASSUME NEW events \in SUBSET Events, IsFiniteSet(events), now \in 0 .. MaxTime
    PROVE  Noted(events) \in SUBSET Events
<1>1. {e \in events : e[1] = now} \subseteq events
  OBVIOUS
<1>2. Cardinality({e \in events : e[1] = now}) \in Nat
  BY <1>1, FS_Subset, FS_CardinalityType
<1> QED
  BY <1>2 DEF Noted, Events

LEMMA SinceFinite ==
    ASSUME NEW events, IsFiniteSet(events), NEW age
    PROVE  /\ Since(events, age) \subseteq events
           /\ IsFiniteSet(Since(events, age))
           /\ Cardinality(Since(events, age)) \in Nat
           /\ Cardinality(Since(events, age)) <= Cardinality(events)
<1>1. Since(events, age) \subseteq events
  BY DEF Since
<1> QED
  BY <1>1, FS_Subset, FS_CardinalityType

LEMMA TierOfTyped == \A route : TierOf(route) \in Tiers \union {None}
BY DEF TierOf, Tiers

-----------------------------------------------------------------------------
(* The type invariant *)

LEMMA TypeInit == Init => TypeInv
<1> SUFFICES ASSUME Init PROVE TypeInv
  OBVIOUS
<1>1. TypeOK
  BY TimeAssumption DEF Init, TypeOK, Steps
<1>2. Underway
  BY DEF Init, Underway
<1>3. Counted
  BY FS_EmptySet DEF Init, Counted
<1> QED
  BY <1>1, <1>2, <1>3 DEF TypeInv

(* What the steps of a request leave alone, and where they lead. *)
LEMMA RequestTyped ==
    ASSUME TypeInv, NEW r \in Requests, NEW step \in Steps,
           pc' = [pc EXCEPT ![r] = step],
           \/ /\ request' = [request EXCEPT ![r] = None]
              /\ step = "idle"
           \/ /\ request' = request /\ pc[r] # "idle"
              /\ step = "tier" => TierOf(request[r].route) \in Tiers
           \/ /\ \E q \in RequestRecord : request' = [request EXCEPT ![r] = q]
              /\ step # "tier"
    PROVE  /\ pc' \in [Requests -> Steps]
           /\ request' \in [Requests -> RequestRecord \union {None}]
           /\ Underway'
<1> USE DEF TypeInv, TypeOK
<1>1. /\ pc' \in [Requests -> Steps]
      /\ request' \in [Requests -> RequestRecord \union {None}]
  OBVIOUS
<1>2. ASSUME NEW s \in Requests
      PROVE  /\ pc'[s] # "idle" => request'[s] \in RequestRecord
             /\ pc'[s] = "tier" => TierOf(request'[s].route) \in Tiers
  <2>1. CASE s = r
    BY <2>1 DEF Underway
  <2>2. CASE s # r
    BY <2>2 DEF Underway
  <2> QED
    BY <2>1, <2>2
<1> QED
  BY <1>1, <1>2 DEF Underway

LEMMA TypeNext == TypeInv /\ [Next]_vars => TypeInv'
<1> SUFFICES ASSUME TypeInv, [Next]_vars PROVE TypeInv'
  OBVIOUS
<1> USE DEF TypeInv
<1>1. ASSUME NEW r \in Requests, Arrive(r) PROVE TypeInv'
  <2>1. Underway' /\ pc' \in [Requests -> Steps]
        /\ request' \in [Requests -> RequestRecord \union {None}]
    BY <1>1, RequestTyped DEF Arrive, Goes, Steps
  <2> QED
    BY <2>1, <1>1 DEF Arrive, TypeOK, Counted
<1>2. ASSUME NEW r \in Requests,
             \/ InjectError(r) \/ PublicRoute(r) \/ RefuseTenant(r)
             \/ Authenticate(r) \/ Handle(r)
      PROVE TypeInv'
  <2>1. Underway' /\ pc' \in [Requests -> Steps]
        /\ request' \in [Requests -> RequestRecord \union {None}]
    BY <1>2, RequestTyped, TierOfTyped
       DEF InjectError, PublicRoute, RefuseTenant, Authenticate, Handle, Answered,
           Goes, Steps
  <2>2. UNCHANGED <<now, settings, failures, full, entered>>
    BY <1>2 DEF InjectError, PublicRoute, RefuseTenant, Authenticate, Handle
  <2> QED
    BY <2>1, <2>2 DEF TypeOK, Counted
<1>3. ASSUME NEW r \in Requests, IsRateLimited(r) PROVE TypeInv'
  <2>1. Underway' /\ pc' \in [Requests -> Steps]
        /\ request' \in [Requests -> RequestRecord \union {None}]
    BY <1>3, RequestTyped DEF IsRateLimited, Answered, Goes, Steps
  <2>2. request[r].ip \in Ips
    BY <1>3 DEF IsRateLimited, Underway, RequestRecord
  <2>3. /\ failures' \in [Ips -> SUBSET Events]
        /\ \A ip \in Ips : IsFiniteSet(failures'[ip])
    BY <1>3, <2>2, SinceFinite DEF IsRateLimited, TypeOK, Counted
  <2> QED
    BY <2>1, <2>3, <1>3 DEF IsRateLimited, TypeOK, Counted
<1>4. ASSUME NEW r \in Requests, FailAuthentication(r) PROVE TypeInv'
  <2>1. Underway' /\ pc' \in [Requests -> Steps]
        /\ request' \in [Requests -> RequestRecord \union {None}]
    BY <1>4, RequestTyped DEF FailAuthentication, Answered, Goes, Steps
  <2>2. request[r].ip \in Ips
    BY <1>4 DEF FailAuthentication, Underway, RequestRecord
  <2>3. /\ failures' \in [Ips -> SUBSET Events]
        /\ \A ip \in Ips : IsFiniteSet(failures'[ip])
    BY <1>4, <2>2, NotedFinite, NotedTyped
       DEF FailAuthentication, RecordFailure, TypeOK, Counted
  <2> QED
    BY <2>1, <2>3, <1>4 DEF FailAuthentication, TypeOK, Counted
<1>5. ASSUME NEW r \in Requests, RateLimit(r) PROVE TypeInv'
  <2> DEFINE ip == request[r].ip
             t == TierOf(request[r].route)
  <2>1. Underway' /\ pc' \in [Requests -> Steps]
        /\ request' \in [Requests -> RequestRecord \union {None}]
    BY <1>5, RequestTyped DEF RateLimit, Answered, Goes, Steps
  <2>2. ip \in Ips /\ t \in Tiers
    BY <1>5 DEF RateLimit, Underway, RequestRecord
  <2>3. CASE UNCHANGED <<full, entered>>
    BY <2>1, <2>3, <1>5 DEF RateLimit, TypeOK, Counted
  <2>4. CASE /\ full' = [full EXCEPT ![t][ip] = CheckKey(t, ip)]
             /\ entered' = [entered EXCEPT ![t][ip] = Noted(@)]
    <3> HIDE DEF ip, t
    <3>1. full' \in [Tiers -> [Ips -> Nat]]
      <4>1. CheckKey(t, ip) \in Nat
        BY <2>2, TierAssumption DEF CheckKey, Later, Replenish, TypeOK
      <4> QED
        BY <4>1, <2>2, <2>4 DEF TypeOK
    <3>2. /\ entered[t][ip] \in SUBSET Events
          /\ IsFiniteSet(entered[t][ip])
      BY <2>2 DEF TypeOK, Counted
    <3>3. /\ Noted(entered[t][ip]) \in SUBSET Events
          /\ IsFiniteSet(Noted(entered[t][ip]))
      BY <3>2, NotedFinite, NotedTyped DEF TypeOK
    <3>4. entered' \in [Tiers -> [Ips -> SUBSET Events]]
      BY <3>3, <2>2, <2>4 DEF TypeOK
    <3>5. \A u \in Tiers, a \in Ips : IsFiniteSet(entered'[u][a])
      BY <3>3, <2>2, <2>4 DEF TypeOK, Counted
    <3> QED
      BY <2>1, <3>1, <3>4, <3>5, <1>5 DEF RateLimit, TypeOK, Counted
  <2> QED
    BY <2>3, <2>4, <1>5 DEF RateLimit
<1>6. CASE Tick
  <2>1. \A t \in Tiers, ip \in Ips : entered'[t][ip] \subseteq entered[t][ip]
    BY <1>6 DEF Tick
  <2>2. \A t \in Tiers, ip \in Ips : IsFiniteSet(entered'[t][ip])
    BY <2>1, FS_Subset DEF Counted
  <2>3. now' \in 0 .. MaxTime
    BY <1>6, TimeAssumption DEF Tick, TypeOK
  <2>4. entered' \in [Tiers -> [Ips -> SUBSET Events]]
    BY <1>6 DEF Tick, TypeOK
  <2> QED
    BY <2>2, <2>3, <2>4, <1>6 DEF Tick, TypeOK, Counted, Underway
<1>7. CASE UNCHANGED vars
  BY <1>7 DEF TypeOK, Underway, Counted
<1> QED
  BY <1>1, <1>2, <1>3, <1>4, <1>5, <1>6, <1>7 DEF Next

(* Every reachable state is of the declared type, and the failures and     *)
(* entries the limits count are finitely many (record_auth_failure,        *)
(* rate_limit_llm and the other two tiers).                                *)
THEOREM TypeCorrect == Spec => []TypeInv
<1> QED
  BY TypeInit, TypeNext, PTL DEF Spec

-----------------------------------------------------------------------------
(* Failed authentications *)

(* Requests of an address between the check and the count. *)
Guessing(ip) == {r \in Requests : pc[r] = "token" /\ request[r].ip = ip}

Failed(ip) == Cardinality(Since(failures[ip], Window))

(* The bound alone is not inductive: a request between its check and its   *)
(* count is a failure to come.                                             *)
GuessInv ==
    /\ TypeInv
    /\ \A ip \in Ips :
          Failed(ip) + Cardinality(Guessing(ip)) < MaxFailures + Cardinality(Requests)

LEMMA GuessingFinite ==
    /\ \A ip : IsFiniteSet(Guessing(ip)) /\ Cardinality(Guessing(ip)) \in Nat
    /\ \A ip : Cardinality(Guessing(ip)) <= Cardinality(Requests)
    /\ Cardinality(Requests) \in Nat
<1>1. \A ip : Guessing(ip) \in SUBSET Requests
  BY DEF Guessing
<1> QED
  BY <1>1, RequestsAssumption, FS_Subset, FS_CardinalityType

LEMMA SubsetFinite ==
    ASSUME NEW A, NEW B \in SUBSET A, IsFiniteSet(A)
    PROVE  /\ IsFiniteSet(B)
           /\ Cardinality(B) <= Cardinality(A)
           /\ Cardinality(B) \in Nat /\ Cardinality(A) \in Nat
BY FS_Subset, FS_CardinalityType

LEMMA FailedNat ==
    ASSUME TypeInv, NEW ip \in Ips
    PROVE  Failed(ip) \in Nat
BY SinceFinite DEF Failed, TypeInv, Counted

LEMMA GuessInit == Init => GuessInv
<1> SUFFICES ASSUME Init PROVE GuessInv
  OBVIOUS
<1>1. TypeInv
  BY TypeInit
<1>2. ASSUME NEW ip \in Ips
      PROVE  Failed(ip) = 0
  <2>1. Since(failures[ip], Window) = {}
    BY <1>2 DEF Init, Since
  <2> QED
    BY <2>1, FS_EmptySet DEF Failed
<1>3. ASSUME NEW ip \in Ips
      PROVE  Cardinality(Guessing(ip)) = 0
  <2>1. Guessing(ip) = {}
    BY DEF Init, Guessing
  <2> QED
    BY <2>1, FS_EmptySet
<1> QED
  BY <1>1, <1>2, <1>3, GuessingFinite, FailuresAssumption DEF GuessInv

LEMMA GuessNext == GuessInv /\ [Next]_vars => GuessInv'
<1> SUFFICES ASSUME GuessInv, [Next]_vars PROVE GuessInv'
  OBVIOUS
<1>1. TypeInv /\ TypeInv'
  BY TypeNext DEF GuessInv
<1> SUFFICES ASSUME NEW ip \in Ips
             PROVE  Failed(ip)' + Cardinality(Guessing(ip)')
                        < MaxFailures + Cardinality(Requests)
  BY <1>1 DEF GuessInv
<1>2. /\ Failed(ip) \in Nat
      /\ Cardinality(Guessing(ip)) \in Nat
      /\ Cardinality(Requests) \in Nat /\ MaxFailures \in Nat
      /\ Failed(ip) + Cardinality(Guessing(ip)) < MaxFailures + Cardinality(Requests)
  BY <1>1, FailedNat, GuessingFinite, FailuresAssumption DEF GuessInv
<1>3. ASSUME Guessing(ip)' \subseteq Guessing(ip),
             Failed(ip)' <= Failed(ip), Failed(ip)' \in Nat
      PROVE  Failed(ip)' + Cardinality(Guessing(ip)')
                        < MaxFailures + Cardinality(Requests)
  <2>1. /\ Cardinality(Guessing(ip)') <= Cardinality(Guessing(ip))
        /\ Cardinality(Guessing(ip)') \in Nat
    BY <1>3, SubsetFinite, GuessingFinite
  <2> QED
    BY <2>1, <1>2, <1>3
<1>4. ASSUME failures' = failures, now' = now
      PROVE  Failed(ip)' = Failed(ip)
  BY <1>4 DEF Failed, Since
<1>5. ASSUME NEW r \in Requests,
             \/ Arrive(r) \/ InjectError(r) \/ PublicRoute(r) \/ RefuseTenant(r)
             \/ Authenticate(r) \/ Handle(r) \/ RateLimit(r)
      PROVE  Failed(ip)' + Cardinality(Guessing(ip)')
                        < MaxFailures + Cardinality(Requests)
  <2>1. Failed(ip)' = Failed(ip)
    BY <1>4, <1>5 DEF Arrive, InjectError, PublicRoute, RefuseTenant, Authenticate,
                      Handle, RateLimit
  <2>2. /\ pc'[r] # "token"
        /\ \A s \in Requests \ {r} : pc'[s] = pc[s] /\ request'[s] = request[s]
    BY <1>1, <1>5 DEF Arrive, InjectError, PublicRoute, RefuseTenant, Authenticate,
                      Handle, RateLimit, Answered, Goes, TypeInv, TypeOK
  <2>3. Guessing(ip)' \subseteq Guessing(ip)
    BY <2>2 DEF Guessing
  <2> QED
    BY <2>1, <2>3, <1>2, <1>3
<1>6. ASSUME NEW r \in Requests, IsRateLimited(r)
      PROVE  Failed(ip)' + Cardinality(Guessing(ip)')
                        < MaxFailures + Cardinality(Requests)
  <2>1. Failed(ip)' = Failed(ip)
    <3>1. failures \in [Ips -> SUBSET Events] /\ now' = now
      BY <1>1, <1>6 DEF IsRateLimited, TypeInv, TypeOK
    <3>2. failures'[ip] \in {failures[ip], Since(failures[ip], Window)}
      BY <3>1, <1>6 DEF IsRateLimited
    <3>3. Since(failures[ip], Window)' = Since(failures[ip], Window)
      BY <3>1, <3>2 DEF Since
    <3> QED
      BY <3>3 DEF Failed
  <2>2. \A s \in Requests \ {r} : pc'[s] = pc[s] /\ request'[s] = request[s]
    BY <1>1, <1>6 DEF IsRateLimited, Answered, Goes, TypeInv, TypeOK
  <2>3. CASE r \notin Guessing(ip)'
    <3>1. Guessing(ip)' \subseteq Guessing(ip)
      BY <2>2, <2>3 DEF Guessing
    <3> QED
      BY <2>1, <3>1, <1>2, <1>3
  <2>4. CASE r \in Guessing(ip)'
    <3>1. request[r].ip = ip /\ ~ TooManyFailures(ip)
      BY <1>1, <1>6, <2>4 DEF Guessing, IsRateLimited, Answered, Goes, TypeInv, TypeOK
    <3>2. Failed(ip) < MaxFailures
      BY <3>1, <1>2 DEF TooManyFailures, Failed
    <3>3. Guessing(ip)' \in SUBSET Requests
      BY DEF Guessing
    <3>4. /\ Cardinality(Guessing(ip)') \in Nat
          /\ Cardinality(Guessing(ip)') <= Cardinality(Requests)
      BY <3>3, RequestsAssumption, SubsetFinite
    <3> QED
      BY <2>1, <3>2, <3>4, <1>2
  <2> QED
    BY <2>3, <2>4
<1>7. ASSUME NEW r \in Requests, FailAuthentication(r)
      PROVE  Failed(ip)' + Cardinality(Guessing(ip)')
                        < MaxFailures + Cardinality(Requests)
  <2>1. /\ pc[r] = "token" /\ pc'[r] = "idle"
        /\ \A s \in Requests \ {r} : pc'[s] = pc[s] /\ request'[s] = request[s]
        /\ failures \in [Ips -> SUBSET Events] /\ now' = now
    <3>1. /\ pc \in [Requests -> Steps] /\ failures \in [Ips -> SUBSET Events]
          /\ request \in [Requests -> RequestRecord \union {None}]
      BY <1>1 DEF TypeInv, TypeOK
    <3> QED
      BY <3>1, <1>7 DEF FailAuthentication, Answered, Goes
  <2>2. CASE request[r].ip # ip
    <3>1. failures'[ip] = failures[ip]
      BY <2>1, <2>2, <1>7 DEF FailAuthentication, RecordFailure
    <3>2. Failed(ip)' = Failed(ip)
      BY <2>1, <3>1 DEF Failed, Since
    <3>3. Guessing(ip)' \subseteq Guessing(ip)
      BY <2>1 DEF Guessing
    <3> QED
      BY <3>2, <3>3, <1>2, <1>3
  <2>3. CASE request[r].ip = ip
    <3>1. failures'[ip] = Noted(failures[ip])
      BY <2>1, <2>3, <1>7 DEF FailAuthentication, RecordFailure
    <3>2. PICK event : Noted(failures[ip]) = failures[ip] \union {event}
      BY DEF Noted
    <3>3. Since(failures[ip], Window)' \subseteq Since(failures[ip], Window) \union {event}
      BY <2>1, <3>1, <3>2 DEF Since
    <3>4. IsFiniteSet(Since(failures[ip], Window))
      BY <1>1, SinceFinite DEF TypeInv, Counted
    <3>5. /\ IsFiniteSet(Since(failures[ip], Window) \union {event})
          /\ Cardinality(Since(failures[ip], Window) \union {event}) <= Failed(ip) + 1
      BY <3>4, <1>2, FS_AddElement DEF Failed
    <3>6. Failed(ip)' <= Failed(ip) + 1 /\ Failed(ip)' \in Nat
      <4>1. /\ Cardinality(Since(failures[ip], Window)')
                   <= Cardinality(Since(failures[ip], Window) \union {event})
            /\ Cardinality(Since(failures[ip], Window)') \in Nat
            /\ Cardinality(Since(failures[ip], Window) \union {event}) \in Nat
        BY <3>3, <3>5, SubsetFinite
      <4> QED
        BY <4>1, <3>5, <1>2 DEF Failed
    <3>7. r \in Guessing(ip) /\ Guessing(ip)' = Guessing(ip) \ {r}
      BY <2>1, <2>3 DEF Guessing
    <3>8. Cardinality(Guessing(ip)') = Cardinality(Guessing(ip)) - 1
      BY <3>7, GuessingFinite, FS_RemoveElement
    <3> QED
      BY <3>6, <3>8, <1>2
  <2> QED
    BY <2>2, <2>3
<1>8. CASE Tick
  <2>1. /\ failures' = failures /\ now' = now + 1 /\ now \in Nat
        /\ pc' = pc /\ request' = request
        /\ failures[ip] \in SUBSET Events /\ Window \in Nat
    BY <1>8, <1>1, FailuresAssumption DEF Tick, TypeInv, TypeOK
  <2>2. Since(failures[ip], Window)' \subseteq Since(failures[ip], Window)
    BY <2>1 DEF Since, Events
  <2>3. IsFiniteSet(Since(failures[ip], Window))
    BY <1>1, SinceFinite DEF TypeInv, Counted
  <2>4. Failed(ip)' <= Failed(ip) /\ Failed(ip)' \in Nat
    <3>1. /\ Cardinality(Since(failures[ip], Window)')
                <= Cardinality(Since(failures[ip], Window))
          /\ Cardinality(Since(failures[ip], Window)') \in Nat
      BY <2>2, <2>3, SubsetFinite
    <3> QED
      BY <3>1 DEF Failed
  <2>5. Guessing(ip)' \subseteq Guessing(ip)
    BY <2>1 DEF Guessing
  <2> QED
    BY <2>4, <2>5, <1>3
<1>9. CASE UNCHANGED vars
  <2>1. Failed(ip)' = Failed(ip) /\ Guessing(ip)' = Guessing(ip)
    BY <1>9 DEF Failed, Since, Guessing
  <2> QED
    BY <2>1, <1>2
<1> QED
  BY <1>5, <1>6, <1>7, <1>8, <1>9 DEF Next

(* The requests of an address that are told within a window that their     *)
(* token is wrong are fewer than the limit and the requests together,      *)
(* although auth_middleware releases the lock between check and count.     *)
THEOREM GuessesLimited == Spec => []GuessesBounded
<1>1. GuessInv => GuessesBounded
  <2> SUFFICES ASSUME GuessInv, NEW ip \in Ips
               PROVE  Failed(ip) < MaxFailures + Cardinality(Requests)
    BY DEF GuessesBounded, Failed
  <2>1. /\ Failed(ip) \in Nat
        /\ Cardinality(Guessing(ip)) \in Nat
        /\ Cardinality(Requests) \in Nat /\ MaxFailures \in Nat
        /\ Failed(ip) + Cardinality(Guessing(ip)) < MaxFailures + Cardinality(Requests)
    BY FailedNat, GuessingFinite, FailuresAssumption DEF GuessInv
  <2> QED
    BY <2>1
<1> QED
  BY <1>1, GuessInit, GuessNext, PTL DEF Spec

-----------------------------------------------------------------------------
(* Entries into a tier *)

(* The requests a tier let through in its last period, from a time on. *)
Recent(t, ip, from) == {e \in entered[t][ip] : e[1] >= from}

(* Every request that enters moves the time at which the quota is whole by *)
(* one period: it is that many periods after the first of any run of them, *)
(* and never more than the quota's periods away.                           *)
QuotaOK(t, ip) ==
    /\ full[t][ip] <= now + Quota[t] * Period[t]
    /\ \A e \in entered[t][ip] : now - e[1] < Period[t]
    /\ \A from \in Nat :
          Recent(t, ip, from) # {} =>
              from + Cardinality(Recent(t, ip, from)) * Period[t] <= full[t][ip]

QuotaInv == TypeInv /\ \A t \in Tiers, ip \in Ips : QuotaOK(t, ip)

LEMMA TierNat ==
    ASSUME NEW t \in Tiers
    PROVE  Quota[t] \in Nat /\ Quota[t] > 0 /\ Period[t] \in Nat /\ Period[t] > 0
BY TierAssumption

LEMMA RecentFinite ==
    ASSUME TypeInv, NEW t \in Tiers, NEW ip \in Ips, NEW from
    PROVE  /\ IsFiniteSet(Recent(t, ip, from))
           /\ Cardinality(Recent(t, ip, from)) \in Nat
<1>1. Recent(t, ip, from) \in SUBSET entered[t][ip]
  BY DEF Recent
<1>2. IsFiniteSet(entered[t][ip])
  BY DEF TypeInv, Counted
<1> QED
  BY <1>1, <1>2, SubsetFinite

LEMMA Periods ==
    ASSUME NEW k \in Nat, NEW m \in Nat, k <= m, NEW p \in Nat
    PROVE  k * p <= m * p /\ (m + 1) * p = m * p + p /\ k * p \in Nat /\ m * p \in Nat
<1>1. PICK d \in Nat : m = k + d
  <2>1. m - k \in Nat /\ m = k + (m - k)
    OBVIOUS
  <2> QED
    BY <2>1
<1>2. (k + d) * p = k * p + d * p
  OBVIOUS
<1>3. d * p \in Nat /\ k * p \in Nat /\ m * p \in Nat
  OBVIOUS
<1>4. (m + 1) * p = m * p + p
  OBVIOUS
<1> QED
  BY <1>1, <1>2, <1>3, <1>4

LEMMA QuotaInit == Init => QuotaInv
<1> SUFFICES ASSUME Init PROVE QuotaInv
  OBVIOUS
<1>1. ASSUME NEW t \in Tiers, NEW ip \in Ips PROVE QuotaOK(t, ip)
  <2>1. Quota[t] * Period[t] \in Nat
    BY TierNat, Periods
  <2>2. /\ now = 0 /\ full[t][ip] = 0 /\ entered[t][ip] = {}
    BY DEF Init
  <2> QED
    BY <2>1, <2>2 DEF QuotaOK, Recent
<1> QED
  BY <1>1, TypeInit DEF QuotaInv

(* A request that enters the tier. *)
LEMMA EnterQuota ==
    ASSUME TypeInv, NEW t \in Tiers, NEW ip \in Ips, QuotaOK(t, ip), now' = now,
           WithinQuota(t, ip),
           full'[t][ip] = CheckKey(t, ip),
           entered'[t][ip] = Noted(entered[t][ip])
    PROVE  QuotaOK(t, ip)'
<1> DEFINE p == Period[t]
<1>1. /\ p \in Nat /\ p > 0 /\ Quota[t] \in Nat /\ Quota[t] * p \in Nat
  BY TierNat, Periods
<1>2. /\ now \in Nat /\ full[t][ip] \in Nat
  BY TimeAssumption DEF TypeInv, TypeOK
<1>3. /\ full'[t][ip] \in Nat
      /\ full'[t][ip] >= full[t][ip] + p /\ full'[t][ip] >= now + p
      /\ full'[t][ip] <= now' + Quota[t] * p
  <2> HIDE DEF p
  <2>1. CheckKey(t, ip) = Later(full[t][ip], now) + p
    BY DEF CheckKey, Replenish, p
  <2>2. CheckKey(t, ip) - now <= Quota[t] * p
    BY DEF WithinQuota, Replenish, p
  <2> QED
    BY <2>1, <2>2, <1>1, <1>2 DEF Later
<1>4. PICK n : /\ Noted(entered[t][ip]) = entered[t][ip] \union {<<now, n>>}
  BY DEF Noted
<1>5. \A e \in entered'[t][ip] : now' - e[1] < p
  BY <1>1, <1>2, <1>4 DEF QuotaOK
<1>6. ASSUME NEW from \in Nat, Recent(t, ip, from)' # {}
      PROVE  from + Cardinality(Recent(t, ip, from)') * p <= full'[t][ip]
  <2> HIDE DEF p
  <2>1. /\ IsFiniteSet(Recent(t, ip, from))
        /\ Cardinality(Recent(t, ip, from)) \in Nat
    BY RecentFinite
  <2>2. Recent(t, ip, from) # {} =>
            from + Cardinality(Recent(t, ip, from)) * p <= full[t][ip]
    BY DEF QuotaOK, p
  <2>3. CASE from > now
    <3>1. Recent(t, ip, from)' = Recent(t, ip, from)
      BY <1>2, <1>4, <2>3 DEF Recent
    <3>2. Cardinality(Recent(t, ip, from)) * p \in Nat
      BY <2>1, <1>1, Periods
    <3>3. from + Cardinality(Recent(t, ip, from)) * p <= full[t][ip]
      BY <3>1, <1>6, <2>2
    <3> QED
      BY <3>1, <3>2, <3>3, <1>1, <1>2, <1>3
  <2>4. CASE from <= now
    <3>1. Recent(t, ip, from)' = Recent(t, ip, from) \union {<<now, n>>}
      BY <1>2, <1>4, <2>4 DEF Recent
    <3>2. /\ Cardinality(Recent(t, ip, from)') \in Nat
          /\ Cardinality(Recent(t, ip, from)') <= Cardinality(Recent(t, ip, from)) + 1
      <4>1. Cardinality(Recent(t, ip, from) \union {<<now, n>>})
              = IF <<now, n>> \in Recent(t, ip, from)
                THEN Cardinality(Recent(t, ip, from))
                ELSE Cardinality(Recent(t, ip, from)) + 1
        BY <2>1, FS_AddElement
      <4> QED
        BY <4>1, <3>1, <2>1
    <3>3. /\ Cardinality(Recent(t, ip, from)') * p
               <= (Cardinality(Recent(t, ip, from)) + 1) * p
          /\ (Cardinality(Recent(t, ip, from)) + 1) * p
               = Cardinality(Recent(t, ip, from)) * p + p
          /\ Cardinality(Recent(t, ip, from)) * p \in Nat
          /\ Cardinality(Recent(t, ip, from)') * p \in Nat
      <4>1. Cardinality(Recent(t, ip, from)) + 1 \in Nat
        BY <2>1
      <4>2. (Cardinality(Recent(t, ip, from)) + 1) * p
               = Cardinality(Recent(t, ip, from)) * p + p
        BY <2>1, <1>1, Periods
      <4> QED
        BY <4>1, <4>2, <3>2, <2>1, <1>1, Periods
    <3>4. CASE Recent(t, ip, from) # {}
      BY <3>3, <3>4, <2>2, <1>1, <1>2, <1>3
    <3>5. CASE Recent(t, ip, from) = {}
      <4>1. Cardinality(Recent(t, ip, from)) = 0
        BY <3>5, FS_EmptySet
      <4>2. Cardinality(Recent(t, ip, from)) * p = 0
        BY <4>1, <1>1
      <4> QED
        BY <4>2, <3>3, <2>4, <1>1, <1>2, <1>3
    <3> QED
      BY <3>4, <3>5
  <2> QED
    BY <2>3, <2>4, <1>2
<1> QED
  BY <1>3, <1>5, <1>6 DEF QuotaOK

LEMMA TickQuota ==
    ASSUME TypeInv, TypeInv', NEW t \in Tiers, NEW ip \in Ips, QuotaOK(t, ip), Tick
    PROVE  QuotaOK(t, ip)'
<1>1. /\ now' = now + 1 /\ now \in Nat /\ full' = full /\ full[t][ip] \in Nat
      /\ entered'[t][ip] = {e \in entered[t][ip] : now' - e[1] < Period[t]}
  BY TimeAssumption DEF Tick, TypeInv, TypeOK
<1>2. /\ Quota[t] * Period[t] \in Nat /\ Period[t] \in Nat
  BY TierNat, Periods
<1>3. ASSUME NEW from \in Nat, Recent(t, ip, from)' # {}
      PROVE  from + Cardinality(Recent(t, ip, from)') * Period[t] <= full'[t][ip]
  <2>1. Recent(t, ip, from)' \subseteq Recent(t, ip, from)
    BY <1>1 DEF Recent
  <2>2. /\ Cardinality(Recent(t, ip, from)') <= Cardinality(Recent(t, ip, from))
        /\ Cardinality(Recent(t, ip, from)') \in Nat
        /\ Cardinality(Recent(t, ip, from)) \in Nat
    BY <2>1, RecentFinite, SubsetFinite
  <2>3. /\ Cardinality(Recent(t, ip, from)') * Period[t]
             <= Cardinality(Recent(t, ip, from)) * Period[t]
        /\ Cardinality(Recent(t, ip, from)') * Period[t] \in Nat
        /\ Cardinality(Recent(t, ip, from)) * Period[t] \in Nat
    BY <2>2, <1>2, Periods
  <2>4. from + Cardinality(Recent(t, ip, from)) * Period[t] <= full[t][ip]
    BY <2>1, <1>3 DEF QuotaOK
  <2> QED
    BY <2>3, <2>4, <1>1
<1>4. full'[t][ip] <= now' + Quota[t] * Period[t]
  BY <1>1, <1>2 DEF QuotaOK
<1>5. \A e \in entered'[t][ip] : now' - e[1] < Period[t]
  BY <1>1
<1> QED
  BY <1>3, <1>4, <1>5 DEF QuotaOK

LEMMA QuotaNext == QuotaInv /\ [Next]_vars => QuotaInv'
<1> SUFFICES ASSUME QuotaInv, [Next]_vars PROVE QuotaInv'
  OBVIOUS
<1>1. TypeInv /\ TypeInv'
  BY TypeNext DEF QuotaInv
<1> SUFFICES ASSUME NEW t \in Tiers, NEW ip \in Ips PROVE QuotaOK(t, ip)'
  BY <1>1 DEF QuotaInv
<1>2. QuotaOK(t, ip)
  BY DEF QuotaInv
<1>3. ASSUME now' = now, full'[t][ip] = full[t][ip], entered'[t][ip] = entered[t][ip]
      PROVE  QuotaOK(t, ip)'
  BY <1>2, <1>3 DEF QuotaOK, Recent
<1>4. ASSUME NEW r \in Requests, RateLimit(r)
      PROVE  QuotaOK(t, ip)'
  <2> DEFINE a == request[r].ip
             u == TierOf(request[r].route)
  <2>1. a \in Ips /\ u \in Tiers
    BY <1>1, <1>4 DEF RateLimit, TypeInv, Underway, RequestRecord
  <2>2. /\ full \in [Tiers -> [Ips -> Nat]]
        /\ entered \in [Tiers -> [Ips -> SUBSET Events]]
    BY <1>1 DEF TypeInv, TypeOK
  <2>3. now' = now
    BY <1>4 DEF RateLimit
  <2>4. \/ UNCHANGED <<full, entered>>
        \/ /\ WithinQuota(u, a)
           /\ full' = [full EXCEPT ![u][a] = CheckKey(u, a)]
           /\ entered' = [entered EXCEPT ![u][a] = Noted(@)]
    BY <1>4 DEF RateLimit
  <2> HIDE DEF a, u
  <2>5. CASE UNCHANGED <<full, entered>>
    BY <2>3, <2>5, <1>3
  <2>6. CASE /\ t = u /\ ip = a /\ WithinQuota(u, a)
             /\ full' = [full EXCEPT ![u][a] = CheckKey(u, a)]
             /\ entered' = [entered EXCEPT ![u][a] = Noted(@)]
    <3>1. /\ full'[t][ip] = CheckKey(t, ip)
          /\ entered'[t][ip] = Noted(entered[t][ip])
      BY <2>1, <2>2, <2>6
    <3> QED
      BY <3>1, <2>3, <2>6, <1>1, <1>2, EnterQuota
  <2>7. CASE /\ ~ (t = u /\ ip = a)
             /\ full' = [full EXCEPT ![u][a] = CheckKey(u, a)]
             /\ entered' = [entered EXCEPT ![u][a] = Noted(@)]
    <3>1. full'[t][ip] = full[t][ip] /\ entered'[t][ip] = entered[t][ip]
      BY <2>1, <2>2, <2>7
    <3> QED
      BY <3>1, <2>3, <1>3
  <2> QED
    BY <2>4, <2>5, <2>6, <2>7
<1>5. ASSUME NEW r \in Requests,
             \/ Arrive(r) \/ InjectError(r) \/ PublicRoute(r) \/ RefuseTenant(r)
             \/ Authenticate(r) \/ Handle(r) \/ IsRateLimited(r)
             \/ FailAuthentication(r)
      PROVE  QuotaOK(t, ip)'
  <2>1. UNCHANGED <<now, full, entered>>
    BY <1>5 DEF Arrive, InjectError, PublicRoute, RefuseTenant, Authenticate, Handle,
                IsRateLimited, FailAuthentication
  <2> QED
    BY <2>1, <1>3
<1>6. CASE Tick
  BY <1>1, <1>2, <1>6, TickQuota
<1>7. CASE UNCHANGED vars
  BY <1>7, <1>3
<1> QED
  BY <1>4, <1>5, <1>6, <1>7 DEF Next

(* Over any stretch of time of the length of its window, a tier lets no    *)
(* more requests of an address through than its max_requests, for every    *)
(* quota and every window (rate_limit_llm, rate_limit_search,              *)
(* rate_limit_task).                                                       *)
THEOREM QuotaRespected == Spec => []WindowRespected
<1>1. QuotaInv => WindowRespected
  <2> SUFFICES ASSUME QuotaInv, NEW t \in Tiers, NEW ip \in Ips
               PROVE  Cardinality(entered[t][ip]) <= Quota[t]
    BY DEF WindowRespected
  <2> DEFINE p == Period[t]
             q == Quota[t]
             k == Cardinality(entered[t][ip])
  <2>1. /\ TypeInv /\ QuotaOK(t, ip)
        /\ p \in Nat /\ p > 0 /\ q \in Nat /\ now \in Nat /\ full[t][ip] \in Nat
    BY TierNat, TimeAssumption DEF QuotaInv, TypeInv, TypeOK
  <2>2. k \in Nat
    BY FS_CardinalityType DEF QuotaInv, TypeInv, Counted
  <2>3. CASE entered[t][ip] = {}
    BY <2>3, <2>1, FS_EmptySet
  <2>4. CASE entered[t][ip] # {}
    <3>1. PICK from \in Nat : /\ Recent(t, ip, from) = entered[t][ip]
                              /\ now - from < p
      <4>1. \A e \in entered[t][ip] : e[1] \in Nat /\ now - e[1] < p
        BY <2>1 DEF QuotaOK, TypeInv, TypeOK, Events
      <4>2. CASE now >= p
        <5>1. now - p + 1 \in Nat
          BY <4>2, <2>1
        <5>2. Recent(t, ip, now - p + 1) = entered[t][ip]
          BY <4>1, <2>1 DEF Recent
        <5>3. now - (now - p + 1) < p
          BY <2>1
        <5> QED
          BY <5>1, <5>2, <5>3
      <4>3. CASE now < p
        <5>1. Recent(t, ip, 0) = entered[t][ip]
          BY <4>1 DEF Recent
        <5> QED
          BY <5>1, <4>3, <2>1
      <4> QED
        BY <4>2, <4>3, <2>1
    <3>2. /\ from + k * p <= full[t][ip]
          /\ full[t][ip] <= now + q * p
      BY <2>1, <2>4, <3>1 DEF QuotaOK
    <3> HIDE DEF p, q, k
    <3>3. ~ (q + 1 <= k)
      <4> SUFFICES ASSUME q + 1 <= k PROVE FALSE
        OBVIOUS
      <4>1. /\ q + 1 \in Nat
            /\ (q + 1) * p <= k * p /\ k * p \in Nat
        BY <2>1, <2>2, Periods
      <4>2. (q + 1) * p = q * p + p /\ q * p \in Nat
        BY <2>1, Periods
      <4> QED
        BY <4>1, <4>2, <3>1, <3>2, <2>1
    <3>4. k <= q
      BY <3>3, <2>1, <2>2
    <3> QED
      BY <3>4 DEF k, q
  <2> QED
    BY <2>3, <2>4
<1> QED
  BY <1>1, QuotaInit, QuotaNext, PTL DEF Spec
=============================================================================
