------------------------------ MODULE Tenants ------------------------------
(***************************************************************************)
(* Tenants: provisioning, configuration, deactivation, the configuration   *)
(* cache every request resolves its tenant through, and the HRMS snapshots *)
(* that Celery keeps per tenant.                                           *)
(* backend/app/api/tenant_routes.py, core/tenant.py, the TenantMiddleware  *)
(* of main.py, workers/hrms_tasks.py and integrations/hrms_router.py.      *)
(*                                                                         *)
(* Configurations live in PostgreSQL, a copy in Redis for _CACHE_TTL; the  *)
(* adapters live in each Celery process.  Resolution and the config        *)
(* handlers never await between their calls: one worker process runs them  *)
(* one at a time, two interleave.                                          *)
(*                                                                         *)
(* PostgreSQL may fail a lookup and Redis any call, at any time: both      *)
(* exceptions are swallowed and the handler goes on without an answer.     *)
(*                                                                         *)
(* Left out: authorisation (a request is one that passed), the audit log,  *)
(* branding and features.                                                  *)
(***************************************************************************)
EXTENDS Integers, FiniteSets

CONSTANTS
    Worker,    \* uvicorn worker processes
    Celery,    \* Celery worker processes of the queue "hrms_sync"
    Slug,      \* slugs requests ask for, "default" and Reserved among them
    Reserved,  \* reserved slugs: "api", "admin", ...
    Provider,  \* HRMS providers
    None,      \* no provider, nothing cached
    Limit,     \* values of rate_limits.queries_per_hour
    max_retries  \* of a sync; 3 in the code

Conf == [hrms : Provider \cup {None}, limit : Limit]
DEFAULT_CONFIG == [hrms |-> None, limit |-> CHOOSE n \in Limit : \A m \in Limit : m <= n]

VARIABLES
    tenant,    \* table tenants: the rows, by slug
    cache,     \* tenant_config:<id> in Redis
    req,       \* the request each uvicorn worker serves
    queue,     \* sync_tenant_hrms_data tasks that wait
    adapter,   \* _adapter_cache of each Celery process
    snapshot,  \* hrms:snapshot:<id> in Redis: the provider its data come from
    had,       \* history: the providers a tenant was ever configured with
    doubtful   \* history: the slugs to whose outdated copy in Redis a swallowed failure led

vars == <<tenant, cache, req, queue, adapter, snapshot, had, doubtful>>
hrms == <<queue, adapter, snapshot>>
copies == <<cache, doubtful>>

Idle    == [pc |-> "idle"]
Tenants == DOMAIN tenant

TypeOK ==
    /\ Tenants \subseteq Slug
    /\ \A s \in Tenants : tenant[s] \in [active : BOOLEAN, conf : Conf]
    /\ cache \in [Slug -> Conf \cup {None}]
    /\ DOMAIN req = Worker
    /\ queue \subseteq [slug : Slug, conf : Conf, retries : 0..max_retries]
    /\ adapter \in [Celery -> [Slug -> Provider \cup {None}]]
    /\ had \in [Slug -> SUBSET Provider]
    /\ doubtful \subseteq Slug
    /\ snapshot \in [Slug -> Provider \cup {None}]

\* _seed_default_tenant.
Init ==
    /\ tenant = [s \in {"default"} |-> [active |-> TRUE, conf |-> DEFAULT_CONFIG]]
    /\ cache = [s \in Slug |-> None]
    /\ req = [w \in Worker |-> Idle]
    /\ queue = {}
    /\ adapter = [c \in Celery |-> [s \in Slug |-> None]]
    /\ snapshot = [s \in Slug |-> None]
    /\ had = [s \in Slug |-> {}]
    /\ doubtful = {}

-----------------------------------------------------------------------------
(* Tenants *)

\* _lookup_tenant_by_id, "or DEFAULT_CONFIG": an inactive tenant gets the default.
Looked(s) == IF s \in Tenants /\ tenant[s].active THEN tenant[s].conf ELSE DEFAULT_CONFIG

Configured(s, conf) == had' = [had EXCEPT ![s] = @ \cup ({conf.hrms} \ {None})]
Insert(s, conf) ==
    /\ Configured(s, conf)
    /\ tenant' = [x \in Tenants \cup {s} |-> IF x = s THEN [active |-> TRUE, conf |-> conf] ELSE tenant[x]]

\* POST /tenants: check and INSERT in one transaction, the slug is unique.
Provision(s, conf) ==
    /\ s \notin Reserved \cup {"default"} \cup Tenants
    /\ Insert(s, conf)
    /\ UNCHANGED <<cache, req, hrms, doubtful>>
\* POST /tenants/register, open to everybody: reserved slugs are not looked at.
Register(s) ==
    /\ s \notin Tenants
    /\ Insert(s, DEFAULT_CONFIG)
    /\ UNCHANGED <<cache, req, hrms, doubtful>>

\* PATCH /tenants/{slug}/config: what the request names replaces what was read.
ConfigRead(w, s, patch) ==
    /\ req[w] = Idle /\ s \in Tenants
    /\ req' = [req EXCEPT ![w] = [pc |-> "update", slug |-> s,
                  conf |-> [f \in {"hrms", "limit"} |->
                               IF f \in DOMAIN patch THEN patch[f] ELSE tenant[s].conf[f]]]]
    /\ UNCHANGED <<tenant, cache, hrms, had, doubtful>>
ConfigUpdate(w) ==
    /\ req[w].pc = "update"
    /\ tenant' = [tenant EXCEPT ![req[w].slug].conf = req[w].conf]
    /\ req' = [req EXCEPT ![w].pc = "invalidate"]
    /\ Configured(req[w].slug, req[w].conf)
    /\ UNCHANGED <<cache, hrms, doubtful>>
\* The driver may refuse the dict it is handed, as psycopg2 does with every one:
\* the request answers 500 and nothing has changed.
ConfigRefused(w) ==
    /\ req[w].pc = "update"
    /\ req' = [req EXCEPT ![w] = Idle]
    /\ UNCHANGED <<tenant, cache, hrms, had, doubtful>>
\* POST /tenants/{slug}/deactivate.
DeactivateUpdate(w, s) ==
    /\ req[w] = Idle /\ s \in Tenants \ {"default"}
    /\ tenant' = [tenant EXCEPT ![s].active = FALSE]
    /\ req' = [req EXCEPT ![w] = [pc |-> "invalidate", slug |-> s]]
    /\ UNCHANGED <<cache, hrms, had, doubtful>>
\* invalidate_tenant_cache: the adapters are not told.
Dropped_Never(s) == cache
Dropped(s) == [cache EXCEPT ![s] = None]
Invalidate(w) ==
    /\ req[w].pc = "invalidate"
    /\ cache' = Dropped(req[w].slug)
    /\ req' = [req EXCEPT ![w] = Idle]
    /\ doubtful' = doubtful \ {req[w].slug}
    /\ UNCHANGED <<tenant, hrms, had>>
\* Redis does not answer: the copy, if there is one, outlives the change.
InvalidateFails(w) ==
    /\ req[w].pc = "invalidate"
    /\ req' = [req EXCEPT ![w] = Idle]
    /\ doubtful' = doubtful \cup {s \in {req[w].slug} : cache[s] \notin {None, Looked(s)}}
    /\ UNCHANGED <<tenant, cache, hrms, had>>

-----------------------------------------------------------------------------
(* Resolution: TenantMiddleware, get_tenant_config_cached.                   *)

\* A request of the tenant that finds nothing in Redis, or cannot ask it; a hit
\* changes nothing.
ResolveLookup(w, s) ==
    /\ req[w] = Idle /\ s \in Tenants
    /\ req' = [req EXCEPT ![w] = [pc |-> "store", slug |-> s, conf |-> Looked(s)]]
    /\ UNCHANGED <<tenant, cache, hrms, had, doubtful>>
\* The lookup fails in the database: None is returned, and the default goes on.
LookupFails(w, s) ==
    /\ req[w] = Idle /\ s \in Tenants
    /\ req' = [req EXCEPT ![w] = [pc |-> "default", slug |-> s]]
    /\ UNCHANGED <<tenant, cache, hrms, had, doubtful>>
ResolveStore(w) ==
    /\ req[w].pc = "store"
    /\ cache' = [cache EXCEPT ![req[w].slug] = req[w].conf]
    /\ req' = [req EXCEPT ![w] = Idle]
    /\ doubtful' = doubtful \ {req[w].slug}
    /\ UNCHANGED <<tenant, hrms, had>>
DefaultStore(w) ==
    /\ req[w].pc = "default"
    /\ cache' = [cache EXCEPT ![req[w].slug] = DEFAULT_CONFIG]
    /\ req' = [req EXCEPT ![w] = Idle]
    /\ doubtful' = doubtful \cup {s \in {req[w].slug} : Looked(s) # DEFAULT_CONFIG}
    /\ UNCHANGED <<tenant, hrms, had>>
\* Redis does not answer: the request is served, nothing is kept.
StoreFails(w) ==
    /\ req[w].pc \in {"store", "default"}
    /\ req' = [req EXCEPT ![w] = Idle]
    /\ UNCHANGED <<tenant, cache, hrms, had, doubtful>>
CacheExpires(s) ==
    /\ cache[s] # None
    /\ cache' = [cache EXCEPT ![s] = None]
    /\ doubtful' = doubtful \ {s}
    /\ UNCHANGED <<tenant, req, hrms, had>>

-----------------------------------------------------------------------------
(* HRMS *)

\* sync_all_tenants_hrms, every four hours: the tasks carry the configuration.
SyncAll ==
    /\ queue = {}
    /\ queue' = {[slug |-> s, conf |-> tenant[s].conf, retries |-> 0] :
                    s \in {t \in Tenants : tenant[t].active /\ tenant[t].conf.hrms # None}}
    /\ UNCHANGED <<tenant, cache, req, adapter, snapshot, had, doubtful>>

\* get_adapter: the adapter of the first configuration this process saw.
Adapter_OneForAll(c, t) ==
    LET cached == {adapter[c][s] : s \in Slug} \ {None}
    IN  IF cached # {} THEN CHOOSE p \in cached : TRUE ELSE t.conf.hrms
Adapter(c, t) == IF adapter[c][t.slug] # None THEN adapter[c][t.slug] ELSE t.conf.hrms

\* sync_tenant_hrms_data, its HRMS in good health ...
Sync(c, t) ==
    /\ t \in queue /\ queue' = queue \ {t}
    /\ adapter' = [adapter EXCEPT ![c][t.slug] = Adapter(c, t)]
    /\ snapshot' = [snapshot EXCEPT ![t.slug] = Adapter(c, t)]
    /\ UNCHANGED <<tenant, cache, req, had, doubtful>>
\* ... or down: tried again, four times in all; the old snapshot stays.
SyncFails(c, t) ==
    /\ t \in queue
    /\ queue' = (queue \ {t}) \cup (IF t.retries < max_retries THEN {[t EXCEPT !.retries = @ + 1]} ELSE {})
    /\ adapter' = [adapter EXCEPT ![c][t.slug] = Adapter(c, t)]
    /\ UNCHANGED <<tenant, cache, req, snapshot, had, doubtful>>
\* HRMS_CACHE_TTL.
SnapshotExpires(s) ==
    /\ snapshot[s] # None
    /\ snapshot' = [snapshot EXCEPT ![s] = None]
    /\ UNCHANGED <<tenant, cache, req, queue, adapter, had, doubtful>>

Patch == [hrms : Provider \cup {None}] \cup [limit : Limit]

Next ==
    \/ \E s \in Slug : Register(s) \/ CacheExpires(s) \/ SnapshotExpires(s)
                       \/ \E conf \in Conf : Provision(s, conf)
    \/ \E w \in Worker : \/ ConfigUpdate(w) \/ ConfigRefused(w) \/ Invalidate(w) \/ InvalidateFails(w)
                         \/ ResolveStore(w) \/ DefaultStore(w) \/ StoreFails(w)
    \/ \E w \in Worker, s \in Slug : DeactivateUpdate(w, s) \/ ResolveLookup(w, s) \/ LookupFails(w, s)
                                     \/ \E patch \in Patch : ConfigRead(w, s, patch)
    \/ SyncAll
    \/ \E c \in Celery : \E t \in queue : Sync(c, t) \/ SyncFails(c, t)

Spec == Init /\ [][Next]_vars

-----------------------------------------------------------------------------
(* Properties *)

(* What a request is served with is what the row says: when no handler is in *)
(* the middle of its work, the cached configuration of a tenant is the one a *)
(* lookup would find, after updates, refusals, deactivation and expiry.  The *)
(* exceptions are named: the default stored after a lookup that failed, and  *)
(* the copy that a failed invalidation left, stay until they are replaced,   *)
(* dropped or expire, and only those.  One worker process; two can put an    *)
(* outdated copy back, for _CACHE_TTL at most.                               *)
CachedConfigIsCurrent ==
    (\A w \in Worker : req[w] = Idle) =>
        \A s \in Slug \ doubtful : cache[s] \in {None, Looked(s)}

(* A Celery process keeps an adapter per tenant, for good: nothing calls      *)
(* invalidate_adapter.  It may be outdated, but it is one of the tenant's     *)
(* own: whatever was synchronised before, and from however old a task, no     *)
(* snapshot comes from a provider that only other tenants ever had.           *)
SnapshotIsTheTenants ==
    \A s \in Slug : snapshot[s] # None => snapshot[s] \in had[s]
=============================================================================
