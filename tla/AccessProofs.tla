---------------------------- MODULE AccessProofs ----------------------------
(***************************************************************************)
(* Who may call the server, for any number of requests, tenants, keys and  *)
(* restarts: the bearer token in memory follows the one in the store, and, *)
(* where the keys' hashes have distinct prefixes, a key that was revoked   *)
(* stays revoked and its requests are refused.                             *)
(***************************************************************************)
EXTENDS Access, TLAPS

(* What a request at a place has with it. *)
Carries(r) ==
    /\ pc[r] # "idle" => call[r] \in Calls
    /\ pc[r] = "tenant" => image[r] \in KeyRecord
    /\ pc[r] = "save" => draft[r] \in Draft
    /\ pc[r] = "hash" => minted[r] \in Bearers

TypeInv ==
    /\ TypeOK
    /\ \A r \in Requests : Carries(r)

LEMMA SpendTyped ==
    ASSUME TypeOK, NEW what \in {"request", "fault"}, Spend(what)
    PROVE  left' \in [{"request", "fault"} -> Nat]
BY DEF TypeOK, Spend

(* The answer to r leaves the other requests alone. *)
LEMMA AnsweredTyped ==
    ASSUME TypeInv, NEW r \in Requests, Answered(r)
    PROVE  /\ pc' \in [Requests -> Steps]
           /\ call' \in [Requests -> Calls \union {None}]
           /\ image' \in [Requests -> KeyRecord \union {None}]
           /\ draft' \in [Requests -> Draft \union {None}]
           /\ minted' \in [Requests -> Nat]
           /\ role' \in [Requests -> Roles \union {None}]
           /\ \A q \in Requests : Carries(q)'
           /\ pc'[r] = "idle"
           /\ \A q \in Requests \ {r} :
                 UNCHANGED <<pc[q], call[q], image[q], draft[q], minted[q]>>
<1>1. /\ pc' \in [Requests -> Steps]
      /\ call' \in [Requests -> Calls \union {None}]
      /\ image' \in [Requests -> KeyRecord \union {None}]
      /\ draft' \in [Requests -> Draft \union {None}]
      /\ minted' \in [Requests -> Nat]
      /\ role' \in [Requests -> Roles \union {None}]
  BY DEF TypeInv, TypeOK, Answered, Steps
<1>2. /\ pc'[r] = "idle"
      /\ \A q \in Requests \ {r} :
            UNCHANGED <<pc[q], call[q], image[q], draft[q], minted[q]>>
  BY DEF TypeInv, TypeOK, Answered
<1>3. \A q \in Requests : Carries(q)'
  BY <1>2 DEF TypeInv, Carries
<1> QED
  BY <1>1, <1>2, <1>3

(* A request moves on with what it has. *)
Moves(r, to) ==
    /\ pc' = [pc EXCEPT ![r] = to]
    /\ \A q \in Requests \ {r} : UNCHANGED <<call[q], image[q], draft[q], minted[q]>>

LEMMA MovesTyped ==
    ASSUME TypeInv, NEW r \in Requests, NEW to \in Steps, Moves(r, to),
           call'[r] \in Calls,
           to = "tenant" => image'[r] \in KeyRecord,
           to = "save" => draft'[r] \in Draft,
           to = "hash" => minted'[r] \in Bearers
    PROVE  /\ pc' \in [Requests -> Steps]
           /\ \A q \in Requests : Carries(q)'
<1>1. /\ pc' \in [Requests -> Steps]
      /\ pc'[r] = to
      /\ \A q \in Requests \ {r} : pc'[q] = pc[q]
  BY DEF TypeInv, TypeOK, Moves
<1> QED
  BY <1>1 DEF TypeInv, Carries, Moves

LEMMA DraftsTyped ==
    ASSUME TypeOK, NEW k \in Keys
    PROVE  /\ \A op \in Ops : op.kind = "issue" => WithKey(k, op) \in Draft
           /\ WithoutKey(k) \in Draft
<1>1. StoreKey(k) \in Prefixes /\ bucket[StoreKey(k)] \in SUBSET KeyRecord
  BY PrefixAssumption DEF TypeOK, StoreKey
<1>2. ASSUME NEW op \in Ops, op.kind = "issue"
      PROVE  WithKey(k, op) \in Draft
  <2>1. op.tenant \in Tenants /\ op.role \in Roles
    BY <1>2, RoleAssumption DEF Ops
  <2>2. [key |-> k, tenant |-> op.tenant, role |-> op.role, revoked |-> FALSE]
           \in KeyRecord
    BY <2>1 DEF KeyRecord
  <2> QED
    BY <1>1, <2>2 DEF WithKey, Draft
<1>3. \A rec \in KeyRecord : [rec EXCEPT !.revoked = TRUE] \in KeyRecord
  BY DEF KeyRecord
<1>4. WithoutKey(k) \in Draft
  BY <1>1, <1>3 DEF WithoutKey, Draft
<1> QED
  BY <1>2, <1>4

LEMMA TypeInit == Init => TypeInv
<1> SUFFICES ASSUME Init PROVE TypeInv
  OBVIOUS
<1>1. left \in [{"request", "fault"} -> Nat]
  BY BoundAssumption DEF Init
<1>2. TypeOK
  BY <1>1 DEF Init, TypeOK, Status, Bearers, Steps
<1>3. \A r \in Requests : Carries(r)
  BY DEF Init, Carries
<1> QED
  BY <1>2, <1>3 DEF TypeInv

LEMMA TypeAdmit ==
    ASSUME TypeInv, NEW r \in Requests, Admit(r)
    PROVE  TypeInv'
<1> USE DEF stores, reads, history
<1>1. CASE \E token \in known \union 0 .. issued, op \in Ops : Arrive(r, token, op)
  <2>1. PICK token \in known \union 0 .. issued, op \in Ops : Arrive(r, token, op)
    BY <1>1
  <2>2. token \in Keys \union Nat
    BY DEF TypeInv, TypeOK, Bearers
  <2>3. [token |-> token, op |-> op] \in Calls
    BY <2>2 DEF Calls
  <2>4. left' \in [{"request", "fault"} -> Nat]
    BY <2>1, SpendTyped DEF Arrive, TypeInv
  <2> DEFINE to == IF tenancy THEN "key" ELSE "bearer"
  <2>5. to \in Steps /\ to \notin {"tenant", "save", "hash"}
    BY DEF Steps
  <2>6. Moves(r, to) /\ call'[r] \in Calls
        /\ call' \in [Requests -> Calls \union {None}]
    BY <2>1, <2>3 DEF Arrive, Moves, TypeInv, TypeOK
  <2> HIDE DEF to
  <2>7. /\ pc' \in [Requests -> Steps]
        /\ \A q \in Requests : Carries(q)'
    BY <2>5, <2>6, MovesTyped
  <2>8. dead' \subseteq Requests
    BY <2>1 DEF Arrive, TypeInv, TypeOK
  <2> QED
    BY <2>1, <2>4, <2>6, <2>7, <2>8 DEF Arrive, TypeInv, TypeOK
<1>2. CASE LookupKey(r)
  <2>1. pc[r] = "key" /\ call[r] \in Calls
    BY <1>2 DEF LookupKey, TypeInv, Carries
  <2>2. PICK to \in {"tenant", "bearer"} :
           /\ pc' = [pc EXCEPT ![r] = to]
           /\ \/ to = "bearer" /\ image' = image
              \/ \E rec \in Stored : image' = [image EXCEPT ![r] = rec]
    BY <1>2 DEF LookupKey
  <2>3. Stored \subseteq KeyRecord
    BY DEF TypeInv, TypeOK, Stored
  <2>4. /\ image' \in [Requests -> KeyRecord \union {None}]
        /\ to = "tenant" => image'[r] \in KeyRecord
        /\ \A q \in Requests \ {r} : image'[q] = image[q]
    BY <2>2, <2>3 DEF TypeInv, TypeOK
  <2>5. Moves(r, to) /\ UNCHANGED <<call, draft, minted>>
    BY <1>2, <2>2, <2>4 DEF LookupKey, Moves
  <2>6. to \in Steps /\ to \notin {"save", "hash"}
    BY DEF Steps
  <2>7. /\ pc' \in [Requests -> Steps]
        /\ \A q \in Requests : Carries(q)'
    BY <2>1, <2>4, <2>5, <2>6, MovesTyped
  <2> QED
    BY <1>2, <2>4, <2>7 DEF LookupKey, TypeInv, TypeOK
<1>3. CASE LookupFails(r)
  <2>1. Moves(r, "bearer") /\ call'[r] \in Calls /\ "bearer" \in Steps
    BY <1>3 DEF LookupFails, Moves, TypeInv, Carries, Steps
  <2>2. /\ pc' \in [Requests -> Steps]
        /\ \A q \in Requests : Carries(q)'
    BY <2>1, MovesTyped
  <2>3. left' \in [{"request", "fault"} -> Nat]
    BY <1>3, SpendTyped DEF LookupFails, TypeInv
  <2> QED
    BY <1>3, <2>2, <2>3 DEF LookupFails, TypeInv, TypeOK
<1>4. CASE CheckTenant(r) \/ CompareBearer(r)
  <2>1. pc[r] \in {"tenant", "bearer"} /\ call[r] \in Calls
        /\ UNCHANGED <<tenancy, stores, hash, holder, left, history>>
    BY <1>4 DEF CheckTenant, CompareBearer, TypeInv, Carries
  <2>2. CASE Answered(r)
    BY <2>1, <2>2, AnsweredTyped DEF TypeInv, TypeOK
  <2>3. CASE \E as \in Roles : Admitted(r, as) /\ UNCHANGED <<call, reads>>
    <3>1. Moves(r, "handler") /\ call'[r] \in Calls /\ "handler" \in Steps
      BY <2>1, <2>3 DEF Admitted, Moves, Steps
    <3>2. /\ pc' \in [Requests -> Steps]
          /\ \A q \in Requests : Carries(q)'
      BY <3>1, MovesTyped
    <3>3. role' \in [Requests -> Roles \union {None}]
      BY <2>3 DEF Admitted, TypeInv, TypeOK
    <3> QED
      BY <2>1, <2>3, <3>2, <3>3 DEF TypeInv, TypeOK
  <2>4. Answered(r) \/ \E as \in Roles : Admitted(r, as) /\ UNCHANGED <<call, reads>>
    <3>1. CASE CheckTenant(r)
      <4>1. image[r] \in KeyRecord
        BY <3>1 DEF CheckTenant, TypeInv, Carries
      <4>2. image[r].role \in Roles
        BY <4>1 DEF KeyRecord
      <4> QED
        BY <3>1, <4>2 DEF CheckTenant
    <3>2. CASE CompareBearer(r)
      <4>1. Admin \in Roles
        BY DEF Admin, Roles
      <4> QED
        BY <3>2, <4>1 DEF CompareBearer
    <3> QED
      BY <1>4, <3>1, <3>2
  <2> QED
    BY <2>2, <2>3, <2>4
<1> QED
  BY <1>1, <1>2, <1>3, <1>4 DEF Admit

LEMMA TypeHandle ==
    ASSUME TypeInv, NEW r \in Requests, Handle(r)
    PROVE  TypeInv'
<1> USE DEF stores, reads, history
<1>1. CASE Refuse(r) \/ Use(r) \/ StoreIsOpen(r)
  <2>1. Answered(r) /\ UNCHANGED <<tenancy, stores, hash, holder, left, history>>
    BY <1>1 DEF Refuse, Use, StoreIsOpen
  <2> QED
    BY <2>1, AnsweredTyped DEF TypeInv, TypeOK
<1>2. CASE CreateTenant(r)
  <2>1. status' \in [Tenants -> Status]
    BY <1>2 DEF CreateTenant, PutTenant, TypeInv, TypeOK, Status
  <2>2. Answered(r)
        /\ UNCHANGED <<tenancy, bucket, stored, issued, unused, hash, holder, left,
                       history>>
    BY <1>2 DEF CreateTenant
  <2> QED
    BY <2>1, <2>2, AnsweredTyped DEF TypeInv, TypeOK
<1>3. CASE SetStatus(r)
  <2>1. call[r].op.kind \in {"suspend", "unsuspend", "delete"}
    BY <1>3 DEF SetStatus, MayAdminister, At
  <2>2. NewStatus(call[r].op.kind) \in Status
    BY <2>1 DEF NewStatus, Status
  <2>3. status' \in [Tenants -> Status]
    BY <1>3, <2>2 DEF SetStatus, UpdateStatus, TypeInv, TypeOK
  <2>4. Answered(r)
        /\ UNCHANGED <<tenancy, bucket, stored, issued, unused, hash, holder, left,
                       history>>
    BY <1>3 DEF SetStatus
  <2> QED
    BY <2>3, <2>4, AnsweredTyped DEF TypeInv, TypeOK
<1>4. CASE LoadBucket(r)
  <2>1. call[r] \in Calls /\ call[r].op.kind = "issue"
    BY <1>4 DEF LoadBucket, MayAdminister, At, TypeInv, Carries
  <2>2. call[r].op \in Ops
    BY <2>1 DEF Calls
  <2>3. PICK k \in unused : /\ unused' = unused \ {k}
                            /\ draft' = [draft EXCEPT ![r] = WithKey(k, call[r].op)]
    BY <1>4 DEF LoadBucket
  <2>4. WithKey(k, call[r].op) \in Draft
    BY <2>1, <2>2, <2>3, DraftsTyped DEF TypeInv, TypeOK
  <2>5. /\ draft' \in [Requests -> Draft \union {None}]
        /\ draft'[r] \in Draft
        /\ \A q \in Requests \ {r} : draft'[q] = draft[q]
        /\ unused' \subseteq Keys
    BY <2>3, <2>4 DEF TypeInv, TypeOK
  <2>6. Moves(r, "save") /\ call'[r] \in Calls /\ "save" \in Steps
    BY <1>4, <2>1, <2>5 DEF LoadBucket, Moves, Steps
  <2>7. /\ pc' \in [Requests -> Steps]
        /\ \A q \in Requests : Carries(q)'
    BY <2>5, <2>6, MovesTyped
  <2> QED
    BY <1>4, <2>5, <2>7 DEF LoadBucket, TypeInv, TypeOK
<1>5. CASE FindKey(r)
  <2>1. call[r] \in Calls /\ call[r].op.kind = "revoke"
    BY <1>5 DEF FindKey, MayAdminister, At, TypeInv, Carries
  <2>2. call[r].op.key \in Keys
    BY <2>1 DEF Calls, Ops
  <2>3. UNCHANGED <<tenancy, stores, hash, holder, left, history>>
    BY <1>5 DEF FindKey
  <2>4. CASE Answered(r)
    BY <2>3, <2>4, AnsweredTyped DEF TypeInv, TypeOK
  <2>5. CASE ~Answered(r)
    <3>1. /\ draft' = [draft EXCEPT ![r] = WithoutKey(call[r].op.key)]
          /\ pc' = [pc EXCEPT ![r] = "save"]
          /\ UNCHANGED <<call, image, minted, role>>
      BY <1>5, <2>5 DEF FindKey
    <3>2. WithoutKey(call[r].op.key) \in Draft
      BY <2>2, DraftsTyped DEF TypeInv
    <3>3. /\ draft' \in [Requests -> Draft \union {None}]
          /\ draft'[r] \in Draft
          /\ \A q \in Requests \ {r} : draft'[q] = draft[q]
      BY <3>1, <3>2 DEF TypeInv, TypeOK
    <3>4. Moves(r, "save") /\ call'[r] \in Calls /\ "save" \in Steps
      BY <2>1, <3>1, <3>3 DEF Moves, Steps
    <3>5. /\ pc' \in [Requests -> Steps]
          /\ \A q \in Requests : Carries(q)'
      BY <3>3, <3>4, MovesTyped
    <3> QED
      BY <2>3, <3>1, <3>3, <3>5 DEF TypeInv, TypeOK
  <2> QED
    BY <2>4, <2>5
<1>6. CASE SaveBucket(r)
  <2>1. draft[r] \in Draft
    BY <1>6 DEF SaveBucket, TypeInv, Carries
  <2>2. draft[r].key \in Keys /\ draft[r].bucket \subseteq KeyRecord
    BY <2>1 DEF Draft
  <2>3. /\ bucket' \in [Prefixes -> SUBSET KeyRecord]
        /\ known' \subseteq Keys
    BY <1>6, <2>2 DEF SaveBucket, TypeInv, TypeOK
  <2> QED
    BY <1>6, <2>3, AnsweredTyped DEF SaveBucket, TypeInv, TypeOK
<1>7. CASE StoreToken(r)
  <2>1. NewToken(r) /\ pc[r] = "handler" /\ holder' = r
    BY <1>7 DEF StoreToken, At
  <2>2. /\ issued' \in Bearers /\ stored' \in Bearers
        /\ minted' \in [Requests -> Nat] /\ minted'[r] \in Bearers
    BY <2>1 DEF NewToken, TypeInv, TypeOK, Bearers
  <2>3. Moves(r, "hash") /\ call'[r] \in Calls /\ "hash" \in Steps
    BY <2>1 DEF NewToken, Moves, TypeInv, Carries, Steps
  <2>4. /\ pc' \in [Requests -> Steps]
        /\ \A q \in Requests : Carries(q)'
    BY <2>2, <2>3, MovesTyped
  <2> QED
    BY <2>1, <2>2, <2>4 DEF NewToken, TypeInv, TypeOK
<1>8. CASE SwapHash(r)
  <2>1. minted[r] \in Bearers
    BY <1>8 DEF SwapHash, TypeInv, Carries
  <2> QED
    BY <1>8, <2>1, AnsweredTyped DEF SwapHash, TypeInv, TypeOK
<1>9. CASE CutRotation(r)
  <2>1. left' \in [{"request", "fault"} -> Nat]
    BY <1>9, SpendTyped DEF CutRotation, TypeInv
  <2>2. minted[r] \in Bearers
    BY <1>9 DEF CutRotation, TypeInv, Carries
  <2> QED
    BY <1>9, <2>1, <2>2, AnsweredTyped DEF CutRotation, TypeInv, TypeOK
<1> QED
  BY <1>1, <1>2, <1>3, <1>4, <1>5, <1>6, <1>7, <1>8, <1>9 DEF Handle

LEMMA TypeNext ==
    ASSUME TypeInv, [Next]_vars
    PROVE  TypeInv'
<1> USE DEF stores, reads, history
<1>1. ASSUME NEW r \in Requests, Admit(r) \/ Handle(r)
      PROVE  TypeInv'
  BY <1>1, TypeAdmit, TypeHandle
<1>2. CASE TokenGenerate
  <2>1. left' \in [{"request", "fault"} -> Nat]
    BY <1>2, SpendTyped DEF TokenGenerate, TypeInv
  <2>2. issued' \in Bearers /\ stored' \in Bearers /\ unsynced' \subseteq Bearers
    BY <1>2 DEF TokenGenerate, TypeInv, TypeOK, Bearers
  <2> QED
    BY <1>2, <2>1, <2>2 DEF TokenGenerate, TypeInv, TypeOK, Carries
<1>3. CASE Restart
  <2>1. left' \in [{"request", "fault"} -> Nat]
    BY <1>3, SpendTyped DEF Restart, TypeInv
  <2>2. \A q \in Requests : pc'[q] = "idle"
    BY <1>3 DEF Restart
  <2>3. \A q \in Requests : Carries(q)'
    BY <2>2 DEF Carries
  <2> QED
    BY <1>3, <2>1, <2>3 DEF Restart, TypeInv, TypeOK, Steps
<1>4. CASE UNCHANGED vars
  BY <1>4 DEF vars, TypeInv, TypeOK, Carries
<1> QED
  BY <1>1, <1>2, <1>3, <1>4 DEF Next

(* Every reachable state is of the declared type: a request that goes on   *)
(* has the call, the record, the draft or the new token it goes on with.   *)
THEOREM TypeCorrect == Spec => []TypeOK
<1>1. Init => TypeInv
  BY TypeInit
<1>2. TypeInv /\ [Next]_vars => TypeInv'
  BY TypeNext
<1>3. TypeInv => TypeOK
  BY DEF TypeInv
<1> QED
  BY <1>1, <1>2, <1>3, PTL DEF Spec

-----------------------------------------------------------------------------
(* The bearer token.  The rotation that has the store open has stored the  *)
(* newest token, so what it puts in memory is what the store holds.        *)

TokenInv ==
    /\ TypeInv
    /\ stored = issued /\ hash <= stored
    /\ \A r \in Requests :
          pc[r] = "hash" => holder = r /\ minted[r] = stored
    /\ TokensAgree

(* A step of r that has to do with no bearer token. *)
LEMMA TokenFrame ==
    ASSUME TokenInv, TypeInv', NEW r \in Requests,
           UNCHANGED <<stored, hash, issued, holder, unsynced>>,
           pc'[r] # "hash",
           \A q \in Requests \ {r} : UNCHANGED <<pc[q], minted[q]>>
    PROVE  TokenInv'
BY DEF TokenInv, TokensAgree

LEMMA TokenNext ==
    ASSUME TokenInv, [Next]_vars
    PROVE  TokenInv'
<1> USE DEF stores, reads, history
<1>1. TypeInv /\ TypeInv'
  BY TypeNext DEF TokenInv
<1>2. /\ pc \in [Requests -> Steps] /\ minted \in [Requests -> Nat]
      /\ stored \in Nat /\ hash \in Nat /\ issued \in Nat
  BY <1>1 DEF TypeInv, TypeOK, Bearers
<1>3. ASSUME NEW r \in Requests, Admit(r)
      PROVE  TokenInv'
  <2>1. /\ UNCHANGED <<stored, hash, issued, holder, unsynced>>
        /\ pc'[r] # "hash"
        /\ \A q \in Requests \ {r} : UNCHANGED <<pc[q], minted[q]>>
    BY <1>2, <1>3
    DEF Admit, Arrive, LookupKey, LookupFails, CheckTenant, CompareBearer,
        Answered, Admitted
  <2> QED
    BY <1>1, <2>1, TokenFrame
<1>4. ASSUME NEW r \in Requests,
             \/ Refuse(r) \/ Use(r) \/ CreateTenant(r) \/ SetStatus(r)
             \/ LoadBucket(r) \/ FindKey(r) \/ SaveBucket(r) \/ StoreIsOpen(r)
      PROVE  TokenInv'
  <2>1. /\ UNCHANGED <<stored, hash, issued, holder, unsynced>>
        /\ pc'[r] # "hash"
        /\ \A q \in Requests \ {r} : UNCHANGED <<pc[q], minted[q]>>
    BY <1>2, <1>4
    DEF Refuse, Use, CreateTenant, SetStatus, LoadBucket, FindKey, SaveBucket,
        StoreIsOpen, Answered
  <2> QED
    BY <1>1, <2>1, TokenFrame
<1>5. ASSUME NEW r \in Requests, StoreToken(r)
      PROVE  TokenInv'
  <2>1. /\ holder = None /\ holder' = r
        /\ stored' = issued + 1 /\ issued' = issued + 1 /\ hash' = hash
        /\ minted' = [minted EXCEPT ![r] = issued + 1]
        /\ pc' = [pc EXCEPT ![r] = "hash"]
    BY <1>5 DEF StoreToken, NewToken
  <2>2. \A q \in Requests : pc[q] # "hash"
    BY <2>1, NoneAssumption DEF TokenInv
  <2> QED
    BY <1>1, <1>2, <2>1, <2>2, NoneAssumption DEF TokenInv, TokensAgree
<1>6. ASSUME NEW r \in Requests, SwapHash(r) \/ CutRotation(r)
      PROVE  TokenInv'
  <2>1. /\ holder = r /\ minted[r] = stored /\ holder' = None
        /\ UNCHANGED <<stored, issued>>
        /\ \/ hash' = stored
           \/ hash' = hash /\ stored \in unsynced'
    BY <1>6 DEF SwapHash, CutRotation, TokenInv
  <2>2. \A q \in Requests : pc'[q] # "hash"
    BY <1>2, <1>6, <2>1 DEF SwapHash, CutRotation, Answered, TokenInv
  <2> QED
    BY <1>1, <1>2, <2>1, <2>2 DEF TokenInv, TokensAgree
<1>7. CASE TokenGenerate
  <2>1. /\ holder = None /\ stored' = issued + 1 /\ issued' = issued + 1
        /\ stored' \in unsynced' /\ UNCHANGED <<hash, holder, pc>>
    BY <1>7 DEF TokenGenerate
  <2>2. \A q \in Requests : pc[q] # "hash"
    BY <2>1, NoneAssumption DEF TokenInv
  <2> QED
    BY <1>1, <1>2, <2>1, <2>2 DEF TokenInv, TokensAgree
<1>8. CASE Restart
  BY <1>1, <1>2, <1>8 DEF Restart, TokenInv, TokensAgree
<1>9. CASE UNCHANGED vars
  BY <1>1, <1>9 DEF vars, TokenInv, TokensAgree
<1> QED
  BY <1>3, <1>4, <1>5, <1>6, <1>7, <1>8, <1>9 DEF Next, Handle

(* Unless a rotation is under way the server accepts the token in the      *)
(* store, or a command or a rotation that was cut has stored it, however   *)
(* rotations, commands and restarts interleave.                            *)
THEOREM TokensCorrect == Spec => []TokensAgree
<1>1. Init => TokenInv
  BY TypeInit DEF Init, TokenInv, TokensAgree
<1>2. TokenInv /\ [Next]_vars => TokenInv'
  BY TokenNext
<1>3. TokenInv => TokensAgree
  BY DEF TokenInv
<1> QED
  BY <1>1, <1>2, <1>3, PTL DEF Spec

-----------------------------------------------------------------------------
(* The keys.  With distinct prefixes a bucket is about one key: it is      *)
(* empty until the one request that draws the key saves it, and then holds *)
(* one record, which whoever revokes the key replaces by the same.         *)

Revoked(rec) == [rec EXCEPT !.revoked = TRUE]

OneRecord(p) ==
    /\ \A rec \in bucket[p] : PrefixOf[rec.key] = p /\ rec.key \notin unused
    /\ \A x, y \in bucket[p] : x = y

(* What r is about to save: the new key's first record or a revoked one.   *)
DraftOK(r) ==
    /\ draft[r].key \notin unused
    /\ \E rec \in KeyRecord :
          /\ draft[r].bucket = {rec} /\ draft[r].key = rec.key
          /\ \/ /\ bucket[PrefixOf[rec.key]] = {}
                /\ \A q \in Requests \ {r} :
                      pc[q] = "save" => draft[q].key # rec.key
             \/ /\ bucket[PrefixOf[rec.key]] # {}
                /\ \A x \in bucket[PrefixOf[rec.key]] : Revoked(x) = rec

KeyInv ==
    /\ TypeInv
    /\ \A p \in Prefixes : OneRecord(p)
    /\ \A r \in Requests : pc[r] = "save" => DraftOK(r)

KeysKept ==
    \A p \in Prefixes : \A rec \in bucket[p] :
        rec \in bucket'[p] \/ Revoked(rec) \in bucket'[p]

(* A step that saves and draws no key. *)
LEMMA KeyFrame ==
    ASSUME KeyInv, TypeInv', UNCHANGED <<bucket, unused>>,
           \A q \in Requests : pc'[q] = "save" =>
              pc[q] = "save" /\ draft'[q] = draft[q]
    PROVE  KeyInv' /\ KeysKept
<1>1. \A p \in Prefixes : OneRecord(p)'
  BY DEF KeyInv, OneRecord
<1>2. ASSUME NEW r \in Requests, pc'[r] = "save"
      PROVE  DraftOK(r)'
  <2>1. DraftOK(r) /\ draft'[r] = draft[r]
    BY <1>2 DEF KeyInv
  <2> QED
    BY <2>1 DEF DraftOK
<1>3. KeysKept
  BY DEF KeysKept
<1> QED
  BY <1>1, <1>2, <1>3 DEF KeyInv

LEMMA KeyNext ==
    ASSUME Distinct, KeyInv, [Next]_vars
    PROVE  KeyInv' /\ KeysKept
<1> USE DEF stores, reads, history
<1>1. TypeInv /\ TypeInv'
  BY TypeNext DEF KeyInv
<1>2. /\ pc \in [Requests -> Steps]
      /\ draft \in [Requests -> Draft \union {None}]
      /\ bucket \in [Prefixes -> SUBSET KeyRecord]
      /\ unused \subseteq Keys
      /\ \A k \in Keys : PrefixOf[k] \in Prefixes
  BY <1>1, PrefixAssumption DEF TypeInv, TypeOK
<1>3. ASSUME NEW r \in Requests, Admit(r)
      PROVE  KeyInv' /\ KeysKept
  <2>1. /\ UNCHANGED <<bucket, unused>>
        /\ \A q \in Requests : pc'[q] = "save" =>
              pc[q] = "save" /\ draft'[q] = draft[q]
    BY <1>2, <1>3
    DEF Admit, Arrive, LookupKey, LookupFails, CheckTenant, CompareBearer,
        Answered, Admitted
  <2> QED
    BY <1>1, <2>1, KeyFrame
<1>4. ASSUME NEW r \in Requests,
             \/ Refuse(r) \/ Use(r) \/ CreateTenant(r) \/ SetStatus(r)
             \/ StoreToken(r) \/ StoreIsOpen(r) \/ SwapHash(r) \/ CutRotation(r)
      PROVE  KeyInv' /\ KeysKept
  <2>1. /\ UNCHANGED <<bucket, unused>>
        /\ \A q \in Requests : pc'[q] = "save" =>
              pc[q] = "save" /\ draft'[q] = draft[q]
    BY <1>2, <1>4
    DEF Refuse, Use, CreateTenant, SetStatus, StoreToken, NewToken, StoreIsOpen,
        SwapHash, CutRotation, Answered
  <2> QED
    BY <1>1, <2>1, KeyFrame
<1>5. ASSUME NEW r \in Requests, LoadBucket(r)
      PROVE  KeyInv' /\ KeysKept
  <2>1. PICK k \in unused :
           /\ unused' = unused \ {k}
           /\ draft' = [draft EXCEPT ![r] = WithKey(k, call[r].op)]
    BY <1>5 DEF LoadBucket
  <2>2. bucket' = bucket /\ pc' = [pc EXCEPT ![r] = "save"] /\ pc[r] = "handler"
    BY <1>5 DEF LoadBucket, MayAdminister, At
  <2>3. bucket[PrefixOf[k]] = {}
    <3> SUFFICES ASSUME NEW x \in bucket[PrefixOf[k]] PROVE FALSE
      OBVIOUS
    <3>1. k \in Keys /\ x \in KeyRecord /\ PrefixOf[x.key] = PrefixOf[k]
          /\ x.key \notin unused
      BY <1>2 DEF KeyInv, OneRecord
    <3>2. x.key = k
      BY <3>1 DEF Distinct, KeyRecord
    <3> QED
      BY <3>1, <3>2
  <2> DEFINE rec == [key |-> k, tenant |-> call[r].op.tenant,
                     role |-> call[r].op.role, revoked |-> FALSE]
  <2>4. draft'[r] = [key |-> k, bucket |-> {rec}]
    BY <1>2, <2>1, <2>3 DEF WithKey, StoreKey
  <2>5. rec \in KeyRecord /\ rec.key = k
    <3>1. draft'[r] \in Draft
      BY <1>1, <1>2, <2>2 DEF TypeInv, Carries
    <3> QED
      BY <2>4, <3>1 DEF Draft
  <2> HIDE DEF rec
  <2>6. /\ \A q \in Requests \ {r} : pc'[q] = pc[q] /\ draft'[q] = draft[q]
        /\ draft'[r].key = k /\ draft'[r].bucket = {rec}
    BY <1>2, <2>1, <2>2, <2>4
  <2>7. \A q \in Requests \ {r} : pc'[q] = "save" => draft'[q].key # k
    BY <2>6 DEF KeyInv, DraftOK
  <2>8. DraftOK(r)'
    BY <2>1, <2>2, <2>3, <2>5, <2>6, <2>7 DEF DraftOK
  <2>9. ASSUME NEW q \in Requests \ {r}, pc'[q] = "save"
        PROVE  DraftOK(q)'
    <3>1. DraftOK(q) /\ draft'[q] = draft[q] /\ draft[q].key # k
      BY <2>6, <2>7, <2>9 DEF KeyInv
    <3> QED
      BY <2>1, <2>2, <2>6, <3>1 DEF DraftOK
  <2>10. \A p \in Prefixes : OneRecord(p)'
    BY <2>1, <2>2 DEF KeyInv, OneRecord
  <2> QED
    BY <1>1, <2>2, <2>8, <2>9, <2>10 DEF KeyInv, KeysKept
<1>6. ASSUME NEW r \in Requests, FindKey(r)
      PROVE  KeyInv' /\ KeysKept
  <2>1. UNCHANGED <<bucket, unused>> /\ pc[r] = "handler"
    BY <1>6 DEF FindKey, MayAdminister, At
  <2>2. CASE Answered(r)
    BY <1>1, <1>2, <2>1, <2>2, KeyFrame DEF Answered
  <2>3. CASE ~Answered(r)
    <3> DEFINE k == call[r].op.key
    <3>1. /\ draft' = [draft EXCEPT ![r] = WithoutKey(k)]
          /\ pc' = [pc EXCEPT ![r] = "save"]
          /\ \E rec \in Stored : rec.key = k
      BY <1>6, <2>3 DEF FindKey
    <3> HIDE DEF k
    <3>p. PICK p \in Prefixes : \E x \in bucket[p] : x.key = k
      BY <3>1 DEF Stored
    <3>2. PICK x \in bucket[p] : x.key = k
      BY <3>p
    <3>3. /\ x \in KeyRecord /\ p = PrefixOf[k] /\ bucket[p] = {x}
          /\ k \notin unused
      BY <1>2, <3>2 DEF KeyInv, OneRecord
    <3>4. Revoked(x) \in KeyRecord /\ Revoked(x).key = k
      BY <3>2, <3>3 DEF Revoked, KeyRecord
    <3>5. WithoutKey(k) = [key |-> k, bucket |-> {Revoked(x)}]
      BY <3>2, <3>3 DEF WithoutKey, StoreKey, Revoked
    <3>6. /\ \A q \in Requests \ {r} : pc'[q] = pc[q] /\ draft'[q] = draft[q]
          /\ draft'[r].key = k /\ draft'[r].bucket = {Revoked(x)}
      BY <1>2, <3>1, <3>5
    <3>7. DraftOK(r)'
      BY <2>1, <3>3, <3>4, <3>6 DEF DraftOK
    <3>8. ASSUME NEW q \in Requests \ {r}, pc'[q] = "save"
          PROVE  DraftOK(q)'
      <4>1. DraftOK(q) /\ draft'[q] = draft[q]
        BY <3>6, <3>8 DEF KeyInv
      <4>2. draft[q].key = k => bucket[PrefixOf[k]] # {}
        BY <3>3
      <4> QED
        BY <2>1, <3>6, <4>1, <4>2 DEF DraftOK
    <3>9. \A s \in Prefixes : OneRecord(s)'
      BY <2>1 DEF KeyInv, OneRecord
    <3> QED
      BY <1>1, <2>1, <3>7, <3>8, <3>9 DEF KeyInv, KeysKept
  <2> QED
    BY <2>2, <2>3
<1>7. ASSUME NEW r \in Requests, SaveBucket(r)
      PROVE  KeyInv' /\ KeysKept
  <2>1. /\ pc[r] = "save" /\ unused' = unused
        /\ bucket' = [bucket EXCEPT ![PrefixOf[draft[r].key]] = draft[r].bucket]
        /\ pc'[r] = "idle"
        /\ \A q \in Requests \ {r} : pc'[q] = pc[q] /\ draft'[q] = draft[q]
    BY <1>2, <1>7 DEF SaveBucket, Answered, StoreKey
  <2>2. PICK rec \in KeyRecord :
           /\ draft[r].bucket = {rec} /\ draft[r].key = rec.key
           /\ rec.key \notin unused
           /\ \/ /\ bucket[PrefixOf[rec.key]] = {}
                 /\ \A q \in Requests \ {r} :
                       pc[q] = "save" => draft[q].key # rec.key
              \/ /\ bucket[PrefixOf[rec.key]] # {}
                 /\ \A x \in bucket[PrefixOf[rec.key]] : Revoked(x) = rec
    BY <2>1 DEF KeyInv, DraftOK
  <2> DEFINE p == PrefixOf[rec.key]
  <2>3. /\ rec.key \in Keys /\ p \in Prefixes
        /\ bucket'[p] = {rec}
        /\ \A s \in Prefixes \ {p} : bucket'[s] = bucket[s]
    BY <1>2, <2>1, <2>2 DEF KeyRecord
  <2>4. \A s \in Prefixes : OneRecord(s)'
    BY <2>1, <2>2, <2>3 DEF KeyInv, OneRecord
  <2>5. KeysKept
    BY <2>2, <2>3 DEF KeysKept
  <2>6. ASSUME NEW q \in Requests \ {r}, pc'[q] = "save"
        PROVE  DraftOK(q)'
    <3>1. pc[q] = "save" /\ draft'[q] = draft[q] /\ draft[q].key \notin unused
      BY <2>1, <2>6 DEF KeyInv, DraftOK
    <3>2. PICK mine \in KeyRecord :
             /\ draft[q].bucket = {mine} /\ draft[q].key = mine.key
             /\ \/ /\ bucket[PrefixOf[mine.key]] = {}
                   /\ \A o \in Requests \ {q} :
                         pc[o] = "save" => draft[o].key # mine.key
                \/ /\ bucket[PrefixOf[mine.key]] # {}
                   /\ \A x \in bucket[PrefixOf[mine.key]] : Revoked(x) = mine
      BY <3>1 DEF KeyInv, DraftOK
    <3>3. mine.key \in Keys /\ PrefixOf[mine.key] \in Prefixes
      BY <1>2 DEF KeyRecord
    <3>4. CASE mine.key = rec.key
      <4>1. PICK x \in bucket[p] : Revoked(x) = mine /\ Revoked(x) = rec
        BY <2>1, <2>2, <3>1, <3>2, <3>4
      <4>2. x \in KeyRecord
        BY <1>2, <2>3
      <4>3. Revoked(rec) = mine
        BY <4>1, <4>2 DEF Revoked, KeyRecord
      <4> QED
        BY <2>1, <2>3, <3>1, <3>2, <3>4, <4>3 DEF DraftOK
    <3>5. CASE mine.key # rec.key
      <4>1. PrefixOf[mine.key] # p
        BY <2>3, <3>3, <3>5 DEF Distinct
      <4>2. bucket'[PrefixOf[mine.key]] = bucket[PrefixOf[mine.key]]
        BY <2>3, <3>3, <4>1
      <4>3. \A o \in Requests : pc'[o] = "save" =>
               pc[o] = "save" /\ draft'[o] = draft[o]
        BY <2>1
      <4> QED
        BY <2>1, <3>1, <3>2, <4>2, <4>3 DEF DraftOK
    <3> QED
      BY <3>4, <3>5
  <2> QED
    BY <1>1, <2>1, <2>4, <2>5, <2>6 DEF KeyInv
<1>8. CASE TokenGenerate \/ Restart \/ UNCHANGED vars
  <2>1. /\ UNCHANGED <<bucket, unused>>
        /\ \A q \in Requests : pc'[q] = "save" =>
              pc[q] = "save" /\ draft'[q] = draft[q]
    BY <1>8 DEF TokenGenerate, Restart, vars
  <2> QED
    BY <1>1, <2>1, KeyFrame
<1> QED
  BY <1>3, <1>4, <1>5, <1>6, <1>7, <1>8 DEF Next, Handle

LEMMA KeyInit == Init => KeyInv
<1> SUFFICES ASSUME Init PROVE KeyInv
  OBVIOUS
<1>1. TypeInv
  BY TypeInit
<1> QED
  BY <1>1 DEF Init, KeyInv, OneRecord

(* No record of a key is lost, and a revoked one stays revoked, however    *)
(* creations, revocations, cut connections and restarts interleave,        *)
(* provided the hashes of the keys have distinct prefixes.                 *)
THEOREM KeysCorrect ==
    ASSUME Distinct
    PROVE  Spec => KeysOnlyRevoked
<1>1. Init => KeyInv
  BY KeyInit
<1>2. KeyInv /\ [Next]_vars => KeyInv' /\ KeysKept
  BY KeyNext
<1>3. KeysKept =>
         \A p \in Prefixes : \A rec \in bucket[p] :
            \/ rec \in bucket'[p]
            \/ [rec EXCEPT !.revoked = TRUE] \in bucket'[p]
  BY DEF KeysKept, Revoked
<1> QED
  BY <1>1, <1>2, <1>3, PTL DEF Spec, KeysOnlyRevoked

-----------------------------------------------------------------------------
(* A void token stays void, and while its request is on the way nothing    *)
(* makes the middleware take it.                                           *)

DeadInv ==
    /\ TokenInv
    /\ KeyInv
    /\ \A r \in dead : pc[r] # "idle" =>
          pc[r] \in {"key", "bearer"} /\ Void(call[r].token)

LEMMA VoidStays ==
    ASSUME KeyInv, KeysKept, NEW token, Void(token),
           hash \in Nat, hash' \in Nat, hash <= hash'
    PROVE  Void(token)'
<1>1. CASE token \in Bearers /\ token < hash
  BY <1>1 DEF Void, Bearers
<1>2. CASE \E rec \in Stored : rec.key = token /\ rec.revoked
  <2>p. PICK p \in Prefixes : \E rec \in bucket[p] : rec.key = token /\ rec.revoked
    BY <1>2 DEF Stored
  <2>1. PICK rec \in bucket[p] : rec.key = token /\ rec.revoked
    BY <2>p
  <2>2. rec \in KeyRecord
    BY DEF KeyInv, TypeInv, TypeOK
  <2>3. Revoked(rec) = rec
    BY <2>1, <2>2 DEF Revoked, KeyRecord
  <2>4. rec \in bucket'[p]
    BY <2>3 DEF KeysKept
  <2> QED
    BY <2>1, <2>4 DEF Void, Stored
<1> QED
  BY <1>1, <1>2 DEF Void

(* What admits a request is not void. *)
LEMMA VoidIsRefused ==
    ASSUME KeyInv, NEW token, Void(token)
    PROVE  /\ token # hash
           /\ \A rec \in Stored : rec.key = token => rec.revoked
<1>1. /\ Stored \subseteq KeyRecord /\ hash \in Nat
      /\ \A rec \in Stored : rec.key \in Keys /\ rec.key \notin Nat
  BY TokenAssumption DEF KeyInv, TypeInv, TypeOK, Stored, Bearers, KeyRecord
<1>2. CASE token \in Bearers /\ token < hash
  BY <1>1, <1>2 DEF Bearers
<1>3. CASE \E rec \in Stored : rec.key = token /\ rec.revoked
  <2>1. token # hash
    BY <1>1, <1>3
  <2>2. ASSUME NEW x \in Stored, x.key = token
        PROVE  x.revoked
    <3>1. PICK p \in Prefixes : \E rec \in bucket[p] : rec.key = token /\ rec.revoked
      BY <1>3 DEF Stored
    <3>2. x \in bucket[p]
      BY <2>2, <3>1 DEF Stored, KeyInv, OneRecord
    <3> QED
      BY <3>1, <3>2 DEF KeyInv, OneRecord
  <2> QED
    BY <2>1, <2>2
<1> QED
  BY <1>2, <1>3 DEF Void

LEMMA DeadNext ==
    ASSUME Distinct, DeadInv, [Next]_vars
    PROVE  DeadInv'
<1> USE DEF stores, reads, history
<1>1. TokenInv' /\ KeyInv' /\ KeysKept
  BY TokenNext, KeyNext DEF DeadInv
<1>2. /\ pc \in [Requests -> Steps]
      /\ call \in [Requests -> Calls \union {None}]
      /\ hash \in Nat /\ stored \in Nat /\ hash' \in Nat
      /\ dead \subseteq Requests
  BY <1>1 DEF DeadInv, KeyInv, TypeInv, TypeOK, Bearers
<1>3. hash <= hash'
  <2>1. hash' \in {hash, stored}
    <3>1. ASSUME NEW r \in Requests, Admit(r)
          PROVE  hash' = hash
      BY <3>1 DEF Admit, Arrive, LookupKey, LookupFails, CheckTenant, CompareBearer
    <3>2. ASSUME NEW r \in Requests, Handle(r)
          PROVE  hash' \in {hash, stored}
      <4>1. CASE SwapHash(r)
        BY <4>1 DEF SwapHash, DeadInv, TokenInv
      <4>2. CASE ~SwapHash(r)
        BY <3>2, <4>2
        DEF Handle, Refuse, Use, CreateTenant, SetStatus, LoadBucket, FindKey,
            SaveBucket, StoreToken, NewToken, StoreIsOpen, CutRotation
      <4> QED
        BY <4>1, <4>2
    <3> QED
      BY <3>1, <3>2 DEF Next, TokenGenerate, Restart, vars
  <2> QED
    BY <1>2, <2>1 DEF DeadInv, TokenInv
<1>4. \A token : Void(token) => Void(token)'
  BY <1>1, <1>2, <1>3, VoidStays DEF DeadInv
(* A step of r leaves the others where they are. *)
<1>5. ASSUME NEW r \in Requests,
             \A q \in Requests \ {r} : UNCHANGED <<pc[q], call[q]>>,
             dead' \subseteq dead \union {r},
             r \in dead' /\ pc'[r] # "idle" =>
                pc'[r] \in {"key", "bearer"} /\ Void(call[r].token)'
      PROVE  DeadInv'
  <2>1. ASSUME NEW q \in dead', pc'[q] # "idle", q # r
        PROVE  pc'[q] \in {"key", "bearer"} /\ Void(call[q].token)'
    <3>1. q \in dead /\ UNCHANGED <<pc[q], call[q]>>
      BY <1>2, <1>5, <2>1
    <3>2. pc[q] \in {"key", "bearer"} /\ Void(call[q].token)
      BY <2>1, <3>1 DEF DeadInv
    <3> QED
      BY <1>4, <3>1, <3>2
  <2> QED
    BY <1>1, <1>5, <2>1 DEF DeadInv
<1>6. ASSUME NEW r \in Requests, Admit(r)
      PROVE  DeadInv'
  <2>1. CASE \E token \in known \union 0 .. issued, op \in Ops : Arrive(r, token, op)
    <3>1. PICK token \in known \union 0 .. issued, op \in Ops : Arrive(r, token, op)
      BY <2>1
    <3>2. /\ \A q \in Requests \ {r} : UNCHANGED <<pc[q], call[q]>>
          /\ dead' \subseteq dead \union {r}
          /\ pc'[r] \in {"key", "bearer"} /\ call'[r].token = token
          /\ r \in dead' => Void(token)
      BY <1>2, <3>1 DEF Arrive
    <3> QED
      BY <1>4, <1>5, <3>2
  <2>2. CASE LookupKey(r)
    <3>1. /\ pc[r] = "key" /\ call' = call /\ dead' = dead
          /\ \A q \in Requests \ {r} : pc'[q] = pc[q]
      BY <1>2, <2>2 DEF LookupKey
    <3>2. r \in dead => Void(call[r].token)
      BY <3>1 DEF DeadInv
    <3>3. r \in dead => \A rec \in Stored : rec.key = call[r].token => rec.revoked
      BY <3>2, VoidIsRefused DEF DeadInv
    <3>4. r \in dead => pc'[r] = "bearer"
      BY <1>2, <2>2, <3>3 DEF LookupKey
    <3> QED
      BY <1>4, <1>5, <3>1, <3>2, <3>4
  <2>3. CASE LookupFails(r)
    <3>1. /\ pc[r] = "key" /\ call' = call /\ dead' = dead
          /\ pc'[r] = "bearer"
          /\ \A q \in Requests \ {r} : pc'[q] = pc[q]
      BY <1>2, <2>3 DEF LookupFails
    <3>2. r \in dead => Void(call[r].token)
      BY <3>1 DEF DeadInv
    <3> QED
      BY <1>4, <1>5, <3>1, <3>2
  <2>4. CASE CheckTenant(r)
    <3>1. /\ pc[r] = "tenant" /\ dead' = dead
          /\ \A q \in Requests \ {r} : UNCHANGED <<pc[q], call[q]>>
      BY <1>2, <2>4 DEF CheckTenant, Admitted, Answered
    <3>2. r \notin dead
      BY <3>1 DEF DeadInv
    <3> QED
      BY <1>5, <3>1, <3>2
  <2>5. CASE CompareBearer(r)
    <3>1. /\ pc[r] = "bearer" /\ dead' = dead
          /\ \A q \in Requests \ {r} : UNCHANGED <<pc[q], call[q]>>
      BY <1>2, <2>5 DEF CompareBearer, Admitted, Answered
    <3>2. r \in dead => call[r].token # hash
      BY <3>1, VoidIsRefused DEF DeadInv
    <3>3. r \in dead => pc'[r] = "idle"
      BY <1>2, <2>5, <3>2 DEF CompareBearer, Answered
    <3> QED
      BY <1>5, <3>1, <3>3
  <2> QED
    BY <1>6, <2>1, <2>2, <2>3, <2>4, <2>5 DEF Admit
<1>7. ASSUME NEW r \in Requests, Handle(r)
      PROVE  DeadInv'
  <2>1. /\ pc[r] \in {"handler", "save", "hash"} /\ dead' = dead
        /\ \A q \in Requests \ {r} : UNCHANGED <<pc[q], call[q]>>
    BY <1>2, <1>7
    DEF Handle, Refuse, Use, CreateTenant, SetStatus, LoadBucket, FindKey,
        SaveBucket, StoreToken, NewToken, StoreIsOpen, SwapHash, CutRotation,
        Answered, At, MayAdminister
  <2>2. r \notin dead
    BY <2>1 DEF DeadInv
  <2> QED
    BY <1>5, <2>1, <2>2
<1>8. CASE TokenGenerate \/ UNCHANGED vars
  <2>1. UNCHANGED <<pc, call, dead>>
    BY <1>8 DEF TokenGenerate, vars
  <2> QED
    BY <1>1, <1>4, <2>1 DEF DeadInv
<1>9. CASE Restart
  <2>1. \A q \in Requests : pc'[q] = "idle"
    BY <1>9 DEF Restart
  <2>2. dead' = dead
    BY <1>9 DEF Restart
  <2> QED
    BY <1>1, <1>2, <2>1, <2>2 DEF DeadInv
<1> QED
  BY <1>6, <1>7, <1>8, <1>9 DEF Next

(* A request whose token was void when it arrived never gets past the      *)
(* middleware, whatever is created, revoked, rotated and restarted while   *)
(* it is on its way, provided the hashes of the keys have distinct         *)
(* prefixes.                                                               *)
THEOREM VoidRefused ==
    ASSUME Distinct
    PROVE  Spec => []VoidTokensRefused
<1>1. Init => DeadInv
  BY TypeInit, KeyInit DEF Init, DeadInv, TokenInv, TokensAgree
<1>2. DeadInv /\ [Next]_vars => DeadInv'
  BY DeadNext
<1>3. DeadInv => VoidTokensRefused
  BY DEF DeadInv, VoidTokensRefused
<1> QED
  BY <1>1, <1>2, <1>3, PTL DEF Spec
=============================================================================
