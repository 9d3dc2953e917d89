------------------------------- MODULE Access -------------------------------
(***************************************************************************)
(* Who may call the server: the middlewares of aivyx-server that admit a   *)
(* request by an API key or by the bearer token, the handlers that change  *)
(* what they look at (routes/tenants.rs, routes/admin.rs, the command      *)
(* `server token generate`), and the stores of aivyx-tenant behind them.   *)
(*                                                                         *)
(* Handlers run in parallel on the threads of the runtime.  A get and a    *)
(* put of an encrypted store are each one transaction, so a step here is   *)
(* what a handler does from one of them to the next.  Names, quotas,       *)
(* scopes and audit entries are left out; no route sets an expiry.         *)
(***************************************************************************)
EXTENDS Integers

CONSTANTS
    Requests,     \* requests that are being served at a time
    Tenants,      \* ids of tenants
    Keys,         \* API keys, each with its token
    Prefixes,     \* prefixes of the hashes of tokens
    PrefixOf,     \* the prefix of a key's hash
    KeyRoles,     \* roles that keys are given
    MaxRequests,  \* bound on the requests
    MaxFaults,    \* bound on crashes and connections that are cut
    None

(* AivyxRole: Billing, Viewer, Operator, Admin. *)
Roles == 0 .. 3
Operator == 2
Admin == 3

ASSUME PrefixAssumption == PrefixOf \in [Keys -> Prefixes]
ASSUME RoleAssumption == KeyRoles \subseteq Roles
ASSUME BoundAssumption == MaxRequests \in Nat /\ MaxFaults \in Nat
ASSUME NoneAssumption == None \notin Keys /\ None \notin Requests

(* The token of a key starts with "aivyx_", a bearer token has no "_".     *)
ASSUME TokenAssumption == Keys \cap Nat = {}

(* Bearer tokens are numbered in the order of their creation. *)
Bearers == Nat \ {0}

Status == {"absent", "active", "suspended", "deleted"}
KeyRecord == [key : Keys, tenant : Tenants, role : Roles, revoked : BOOLEAN]
Ops == [kind : {"create", "rotate", "use"}]
       \union [kind : {"suspend", "unsuspend", "delete"}, tenant : Tenants]
       \union [kind : {"issue"}, tenant : Tenants, role : KeyRoles]
       \union [kind : {"revoke"}, key : Keys]
Steps == {"idle", "key", "tenant", "bearer", "handler", "save", "hash"}

VARIABLES
    tenancy,    \* multi_tenant_enabled, read once at the start
    status,     \* the status in each tenant's record
    bucket,     \* apikey:{prefix}: the records under each prefix
    stored,     \* server-bearer-token in store.db
    hash,       \* bearer_token_hash in the memory of the server
    holder,     \* the rotation that has store.db open
    issued,     \* the bearer tokens made so far
    unused,     \* the keys that have not been made yet
    pc,         \* where each request is
    call,       \* its token and what it asks for
    image,      \* the record of its key
    draft,      \* the bucket it is about to save
    minted,     \* the bearer token it has stored
    role,       \* its role once it is admitted
    left,       \* what is left of the bounds
    known,      \* history: the keys whose creation has been answered
    unsynced,   \* history: bearer tokens that were stored only
    dead        \* history: requests whose token was void when they arrived

stores == <<status, bucket, stored, issued, unused>>
history == <<known, unsynced, dead>>
reads == <<image, draft, minted>>
vars == <<tenancy, stores, hash, holder, pc, call, reads, role, left, history>>

Calls == [token : Keys \union Nat, op : Ops]
Draft == [key : Keys, bucket : SUBSET KeyRecord]

TypeOK ==
    /\ tenancy \in BOOLEAN
    /\ status \in [Tenants -> Status]
    /\ bucket \in [Prefixes -> SUBSET KeyRecord]
    /\ stored \in Bearers /\ hash \in Bearers
    /\ holder \in Requests \union {None}
    /\ issued \in Bearers
    /\ unused \subseteq Keys
    /\ pc \in [Requests -> Steps]
    /\ call \in [Requests -> Calls \union {None}]
    /\ image \in [Requests -> KeyRecord \union {None}]
    /\ draft \in [Requests -> Draft \union {None}]
    /\ minted \in [Requests -> Nat]
    /\ role \in [Requests -> Roles \union {None}]
    /\ left \in [{"request", "fault"} -> Nat]
    /\ known \subseteq Keys
    /\ unsynced \subseteq Bearers
    /\ dead \subseteq Requests

Init ==
    /\ tenancy \in BOOLEAN
    /\ status = [t \in Tenants |-> "absent"]
    /\ bucket = [p \in Prefixes |-> {}]
    /\ stored = 1 /\ hash = 1 /\ issued = 1
    /\ unused = Keys
    /\ holder = None
    /\ pc = [r \in Requests |-> "idle"]
    /\ call = [r \in Requests |-> None]
    /\ image = [r \in Requests |-> None]
    /\ draft = [r \in Requests |-> None]
    /\ minted = [r \in Requests |-> 0]
    /\ role = [r \in Requests |-> None]
    /\ left = [request |-> MaxRequests, fault |-> MaxFaults]
    /\ known = {} /\ unsynced = {} /\ dead = {}

-----------------------------------------------------------------------------
(* Helpers *)

Spend(what) == left[what] > 0 /\ left' = [left EXCEPT ![what] = @ - 1]

Stored == UNION {bucket[p] : p \in Prefixes}

OneStoreKey(k) == CHOOSE p \in Prefixes : TRUE

(* The key of the store for an API key is made of the prefix of its hash.  *)
StoreKey(k) == PrefixOf[k]

(* require_role *)
Requires(r, minimum) == role[r] >= minimum

(* What is left of a request that has been answered. *)
Answered(r) ==
    /\ pc' = [pc EXCEPT ![r] = "idle"]
    /\ call' = [call EXCEPT ![r] = None]
    /\ image' = [image EXCEPT ![r] = None]
    /\ draft' = [draft EXCEPT ![r] = None]
    /\ minted' = [minted EXCEPT ![r] = 0]
    /\ role' = [role EXCEPT ![r] = None]

Admitted(r, as) ==
    /\ pc' = [pc EXCEPT ![r] = "handler"]
    /\ role' = [role EXCEPT ![r] = as]

(* create_tenant of the store: a record under a new id. *)
PutTenant ==
    \E t \in Tenants :
        status[t] = "absent" /\ status' = [status EXCEPT ![t] = "active"]

(* update_status: whatever the status is, if there is a record. *)
UpdateStatus(t, new) ==
    status' = IF status[t] = "absent" THEN status ELSE [status EXCEPT ![t] = new]

NewStatus(kind) ==
    CASE kind = "suspend" -> "suspended"
      [] kind = "unsuspend" -> "active"
      [] kind = "delete" -> "deleted"

(* create_key: the bucket with a new record pushed to it; the tenant need  *)
(* not exist.                                                              *)
WithKey(k, op) ==
    [key |-> k,
     bucket |-> bucket[StoreKey(k)] \union
        {[key |-> k, tenant |-> op.tenant, role |-> op.role, revoked |-> FALSE]}]

(* revoke_key: the bucket that has the key with the key marked in it.      *)
WithoutKey(k) ==
    [key |-> k,
     bucket |-> {IF rec.key = k THEN [rec EXCEPT !.revoked = TRUE] ELSE rec :
                   rec \in bucket[StoreKey(k)]}]

-----------------------------------------------------------------------------
(* The middlewares *)

(* Void for good: a revoked key, or a bearer token that a later one has    *)
(* replaced in memory.                                                     *)
Void(token) ==
    \/ \E rec \in Stored : rec.key = token /\ rec.revoked
    \/ token \in Bearers /\ token < hash

(* A request arrives with the token of a known key, a bearer token, or     *)
(* one that was never issued (0).                                          *)
Arrive(r, token, op) ==
    /\ pc[r] = "idle"
    /\ Spend("request")
    /\ token \in known \union 0 .. issued
    /\ call' = [call EXCEPT ![r] = [token |-> token, op |-> op]]
    /\ pc' = [pc EXCEPT ![r] = IF tenancy THEN "key" ELSE "bearer"]
    /\ dead' = IF Void(token) THEN dead \union {r} ELSE dead \ {r}
    /\ UNCHANGED <<tenancy, stores, hash, holder, reads, role, known, unsynced>>

AnyKeyOfTheToken(r) ==
    /\ pc[r] = "key"
    /\ \/ \E rec \in Stored :
             /\ rec.key = call[r].token
             /\ image' = [image EXCEPT ![r] = rec]
             /\ pc' = [pc EXCEPT ![r] = "tenant"]
       \/ /\ ~\E rec \in Stored : rec.key = call[r].token
          /\ pc' = [pc EXCEPT ![r] = "bearer"]
          /\ UNCHANGED image
    /\ UNCHANGED <<tenancy, stores, hash, holder, call, draft, minted, role, left,
                   history>>

(* lookup_by_token: the record of the token, unless it is revoked.  An     *)
(* error of the store counts as no record.                                 *)
LookupKey(r) ==
    /\ pc[r] = "key"
    /\ \/ \E rec \in Stored :
             /\ rec.key = call[r].token /\ ~rec.revoked
             /\ image' = [image EXCEPT ![r] = rec]
             /\ pc' = [pc EXCEPT ![r] = "tenant"]
       \/ /\ ~\E rec \in Stored : rec.key = call[r].token /\ ~rec.revoked
          /\ pc' = [pc EXCEPT ![r] = "bearer"]
          /\ UNCHANGED image
    /\ UNCHANGED <<tenancy, stores, hash, holder, call, draft, minted, role, left,
                   history>>

LookupFails(r) ==
    /\ pc[r] = "key"
    /\ Spend("fault")
    /\ pc' = [pc EXCEPT ![r] = "bearer"]
    /\ UNCHANGED <<tenancy, stores, hash, holder, call, reads, role, history>>

(* The request is admitted with the role of its key if the tenant of the   *)
(* key is active now, and refused otherwise.                               *)
CheckTenant(r) ==
    /\ pc[r] = "tenant"
    /\ IF status[image[r].tenant] = "active"
       THEN /\ Admitted(r, image[r].role)
            /\ UNCHANGED <<call, reads>>
       ELSE Answered(r)
    /\ UNCHANGED <<tenancy, stores, hash, holder, left, history>>

(* What is not a key is compared with the bearer token in memory. *)
CompareBearer(r) ==
    /\ pc[r] = "bearer"
    /\ IF call[r].token = hash
       THEN Admitted(r, Admin) /\ UNCHANGED <<call, reads>>
       ELSE Answered(r)
    /\ UNCHANGED <<tenancy, stores, hash, holder, left, history>>

-----------------------------------------------------------------------------
(* The handlers *)

At(r, kinds) == pc[r] = "handler" /\ call[r].op.kind \in kinds

TenantRoutes == {"create", "suspend", "unsuspend", "delete", "issue", "revoke"}

(* A handler whose role check fails, or a route of tenants in a server     *)
(* without them.                                                           *)
Refuse(r) ==
    /\ \/ At(r, TenantRoutes \union {"rotate"}) /\ ~Requires(r, Admin)
       \/ At(r, TenantRoutes) /\ ~tenancy
       \/ At(r, {"use"}) /\ ~Requires(r, Operator)
    /\ Answered(r)
    /\ UNCHANGED <<tenancy, stores, hash, holder, left, history>>

(* Any other handler: it reads and changes other state. *)
Use(r) ==
    /\ At(r, {"use"}) /\ Requires(r, Operator)
    /\ Answered(r)
    /\ UNCHANGED <<tenancy, stores, hash, holder, left, history>>

MayAdminister(r, kinds) == At(r, kinds) /\ Requires(r, Admin) /\ tenancy

CreateTenant(r) ==
    /\ MayAdminister(r, {"create"})
    /\ PutTenant
    /\ Answered(r)
    /\ UNCHANGED <<tenancy, bucket, stored, issued, unused, hash, holder, left,
                   history>>

SetStatus(r) ==
    /\ MayAdminister(r, {"suspend", "unsuspend", "delete"})
    /\ UpdateStatus(call[r].op.tenant, NewStatus(call[r].op.kind))
    /\ Answered(r)
    /\ UNCHANGED <<tenancy, bucket, stored, issued, unused, hash, holder, left,
                   history>>

(* create_api_key: draw a token and load its bucket. *)
LoadBucket(r) ==
    /\ MayAdminister(r, {"issue"})
    /\ \E k \in unused :
          /\ unused' = unused \ {k}
          /\ draft' = [draft EXCEPT ![r] = WithKey(k, call[r].op)]
    /\ pc' = [pc EXCEPT ![r] = "save"]
    /\ UNCHANGED <<tenancy, status, bucket, stored, issued, hash, holder, call,
                   image, minted, role, left, history>>

(* revoke_api_key: the tenant in the path is not compared with the key's.  *)
FindKey(r) ==
    /\ MayAdminister(r, {"revoke"})
    /\ LET k == call[r].op.key
       IN  IF \E rec \in Stored : rec.key = k
           THEN /\ draft' = [draft EXCEPT ![r] = WithoutKey(k)]
                /\ pc' = [pc EXCEPT ![r] = "save"]
                /\ UNCHANGED <<call, image, minted, role>>
           ELSE Answered(r)
    /\ UNCHANGED <<tenancy, stores, hash, holder, left, history>>

(* save_bucket *)
SaveBucket(r) ==
    /\ pc[r] = "save"
    /\ bucket' = [bucket EXCEPT ![StoreKey(draft[r].key)] = draft[r].bucket]
    /\ known' = known \union {draft[r].key}
    /\ Answered(r)
    /\ UNCHANGED <<tenancy, status, stored, issued, unused, hash, holder, left,
                   unsynced, dead>>

NewToken(r) ==
    /\ issued' = issued + 1
    /\ stored' = issued + 1
    /\ minted' = [minted EXCEPT ![r] = issued + 1]
    /\ pc' = [pc EXCEPT ![r] = "hash"]
    /\ UNCHANGED <<tenancy, status, bucket, unused, hash, call, image, draft, role,
                   left, history>>

StoreTokenAndClose(r) ==
    /\ At(r, {"rotate"}) /\ Requires(r, Admin)
    /\ NewToken(r)
    /\ UNCHANGED holder

(* rotate_token: open store.db and store a new token; the store stays open *)
(* until the handler ends.                                                 *)
StoreToken(r) ==
    /\ At(r, {"rotate"}) /\ Requires(r, Admin)
    /\ holder = None /\ holder' = r
    /\ NewToken(r)

(* The store is open already, in a rotation, another handler or a command. *)
StoreIsOpen(r) ==
    /\ At(r, {"rotate"}) /\ Requires(r, Admin)
    /\ Answered(r)
    /\ UNCHANGED <<tenancy, stores, hash, holder, left, history>>

SwapHash(r) ==
    /\ pc[r] = "hash"
    /\ hash' = minted[r]
    /\ holder' = None
    /\ Answered(r)
    /\ UNCHANGED <<tenancy, stores, left, history>>

-----------------------------------------------------------------------------
(* Around the server *)

(* The client goes away while the rotation waits for the lock of the hash: *)
(* the handler is dropped there.                                           *)
CutRotation(r) ==
    /\ pc[r] = "hash"
    /\ Spend("fault")
    /\ holder' = None
    /\ unsynced' = unsynced \union {minted[r]}
    /\ Answered(r)
    /\ UNCHANGED <<tenancy, stores, hash, known, dead>>

(* `server token generate`, in a process of its own. *)
TokenGenerate ==
    /\ holder = None
    /\ Spend("fault")
    /\ issued' = issued + 1
    /\ stored' = issued + 1
    /\ unsynced' = unsynced \union {issued + 1}
    /\ UNCHANGED <<tenancy, status, bucket, unused, hash, holder, pc, call, reads,
                   role, known, dead>>

(* The server stops, wherever its requests are, and starts with the token  *)
(* in the store.                                                           *)
Restart ==
    /\ Spend("fault")
    /\ hash' = stored
    /\ holder' = None
    /\ pc' = [r \in Requests |-> "idle"]
    /\ call' = [r \in Requests |-> None]
    /\ image' = [r \in Requests |-> None]
    /\ draft' = [r \in Requests |-> None]
    /\ minted' = [r \in Requests |-> 0]
    /\ role' = [r \in Requests |-> None]
    /\ UNCHANGED <<tenancy, stores, history>>

Admit(r) ==
    \/ \E token \in known \union 0 .. issued, op \in Ops : Arrive(r, token, op)
    \/ LookupKey(r) \/ LookupFails(r) \/ CheckTenant(r) \/ CompareBearer(r)

Handle(r) ==
    \/ Refuse(r) \/ Use(r)
    \/ CreateTenant(r) \/ SetStatus(r)
    \/ LoadBucket(r) \/ FindKey(r) \/ SaveBucket(r)
    \/ StoreToken(r) \/ StoreIsOpen(r) \/ SwapHash(r) \/ CutRotation(r)

Next ==
    \/ \E r \in Requests : Admit(r) \/ Handle(r)
    \/ TokenGenerate
    \/ Restart

Spec == Init /\ [][Next]_vars

-----------------------------------------------------------------------------
(* Properties *)

Distinct == \A k, l \in Keys : PrefixOf[k] = PrefixOf[l] => k = l

(* A request whose token was void when it arrived never gets past the      *)
(* middleware, whatever is stored and swapped while it is on its way.      *)
VoidTokensRefused ==
    \A r \in dead : pc[r] \in {"idle", "key", "bearer"}

(* A record of a key is never lost from its bucket, and once revoked it    *)
(* stays revoked, however creations and revocations overlap.  This needs   *)
(* keys whose hashes have distinct prefixes: two writers of one bucket     *)
(* overwrite each other.                                                   *)
KeysOnlyRevoked ==
    [][\A p \in Prefixes : \A rec \in bucket[p] :
          \/ rec \in bucket'[p]
          \/ [rec EXCEPT !.revoked = TRUE] \in bucket'[p]]_vars

(* Unless a rotation is under way the server accepts the token that is in  *)
(* the store, so that a restart changes nothing for its clients, or that   *)
(* token was stored by a command or by a rotation that was cut.            *)
TokensAgree == holder = None => hash = stored \/ stored \in unsynced

(* A tenant that is deleted stays deleted.                                 *)
DeletedStays ==
    [][\A t \in Tenants : status[t] = "deleted" => status'[t] = "deleted"]_vars
=============================================================================
