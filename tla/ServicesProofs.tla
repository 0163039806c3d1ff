--------------------------- MODULE ServicesProofs ---------------------------
(***************************************************************************)
(* Proofs about Tenants, AIRouter, Conversations and RateLimits, for any   *)
(* number of tenants, providers, questions, sessions, processes, addresses *)
(* and accounts.                                                           *)
(*                                                                         *)
(* Two of the limits are bounds that races overrun: what such a limit      *)
(* holds is less than the limit plus one for each request that may be      *)
(* between its check and its count, and the inductive invariants (Bound,   *)
(* Capped) count the requests that are there, by cardinality: a count      *)
(* makes one fewer of them, and a request joins them only below the limit. *)
(* Snapshots and cached configurations are traced to the row they come     *)
(* from (Owned, Cached).  What is tried on an account is either held by    *)
(* its list of failed logins or outlasted by its lock (Recent).            *)
(***************************************************************************)
EXTENDS MCServices, Sequences, SequenceTheorems, FiniteSetTheorems, TLAPS

OneWorker == \A v, w \in Worker : v = w

-----------------------------------------------------------------------------
(* Tenants *)

AnyConf == [hrms : Other \cup {None}, limit : Limit \cup {T!DEFAULT_CONFIG.limit}]
Changing == [pc : {"update", "invalidate", "store"}, slug : Slug, conf : AnyConf]
TReq == [pc : {"idle"}] \cup Changing \cup [pc : {"invalidate", "default"}, slug : Slug]
SyncTask == [slug : Slug, conf : AnyConf, retries : Nat]

TTypes ==
    /\ T!Tenants \subseteq Slug
    /\ tenant \in [T!Tenants -> [active : BOOLEAN, conf : AnyConf]]
    /\ cache \in [Slug -> AnyConf \cup {None}]
    /\ req \in [Worker -> TReq]
    /\ queue \subseteq SyncTask
    /\ adapter \in [Celery -> [Slug -> Other \cup {None}]]
    /\ DOMAIN snapshot = Slug
    /\ had \in [Slug -> SUBSET Other]
    /\ doubtful \subseteq Slug

(* Every provider on the way to a snapshot is one the tenant had.            *)
Own(s) == had[s] \cup {None}
Owned ==
    /\ \A s \in T!Tenants : tenant[s].conf.hrms \in Own(s)
    /\ \A t \in queue : t.conf.hrms \in had[t.slug]
    /\ \A c \in Celery, s \in Slug : adapter[c][s] \in Own(s)

SnapInv == TTypes /\ Owned /\ SnapshotIsTheTenants

(* What is cached, or about to be stored, is what a lookup finds, unless a    *)
(* failure left it there or the handler that made it outdated is about to     *)
(* drop it.                                                                   *)
Cached ==
    /\ \A s \in Slug : cache[s] # None => s \in T!Tenants
    /\ \A s \in Slug : \/ cache[s] \in {None, T!Looked(s)}
                       \/ s \in doubtful
                       \/ \E w \in Worker : req[w].pc = "invalidate" /\ req[w].slug = s
    /\ \A w \in Worker : req[w].pc = "store" =>
          req[w].slug \in T!Tenants /\ req[w].conf = T!Looked(req[w].slug)
    /\ \A w \in Worker : req[w].pc \in {"update", "default"} => req[w].slug \in T!Tenants

(* The default configuration, and what a lookup of a tenant finds.           *)
LEMMA DefaultConf == T!DEFAULT_CONFIG \in AnyConf /\ T!DEFAULT_CONFIG.hrms = None
  BY DEF T!DEFAULT_CONFIG, AnyConf

LEMMA LookedConf == ASSUME TTypes, NEW s PROVE T!Looked(s) \in AnyConf
  BY DefaultConf DEF TTypes, T!Looked

(* The invariants hold when the program starts.                              *)
LEMMA TenantsInit == T!Init => TTypes /\ Owned /\ SnapshotIsTheTenants /\ Cached
  <1> SUFFICES ASSUME T!Init PROVE TTypes /\ Owned /\ SnapshotIsTheTenants /\ Cached
    OBVIOUS
  <1>1. T!Tenants = {"default"} /\ tenant["default"] = [active |-> TRUE, conf |-> T!DEFAULT_CONFIG]
    BY DEF T!Init, T!Tenants
  <1>2. TTypes
    BY <1>1, SlugAssumption, DefaultConf DEF T!Init, T!Idle, TTypes, TReq
  <1>3. Owned /\ SnapshotIsTheTenants
    BY <1>1, DefaultConf DEF T!Init, Owned, Own, SnapshotIsTheTenants, T!SnapshotIsTheTenants
  <1>4. Cached
    BY <1>1 DEF T!Init, T!Idle, Cached
  <1> QED
    BY <1>2, <1>3, <1>4

(* A new tenant.                                                             *)
LEMMA InsertKeeps ==
    ASSUME TTypes, Owned, SnapshotIsTheTenants, NEW s \in Slug, NEW conf \in AnyConf,
           s \notin T!Tenants, T!Insert(s, conf), UNCHANGED <<cache, req, queue, adapter, snapshot, doubtful>>
    PROVE  TTypes' /\ Owned' /\ SnapshotIsTheTenants' /\ (Cached => Cached')
  <1>1. conf.hrms \in Other \cup {None}
    BY DEF AnyConf
  <1>2. /\ had' = [had EXCEPT ![s] = @ \cup ({conf.hrms} \ {None})]
        /\ tenant' = [x \in T!Tenants \cup {s} |-> IF x = s THEN [active |-> TRUE, conf |-> conf] ELSE tenant[x]]
    BY DEF T!Insert, T!Configured
  <1>3. /\ had' \in [Slug -> SUBSET Other] /\ had'[s] = had[s] \cup ({conf.hrms} \ {None})
        /\ \A x \in Slug \ {s} : had'[x] = had[x]
    BY <1>1, <1>2 DEF TTypes
  <1>4. /\ T!Tenants' = T!Tenants \cup {s} /\ tenant'[s] = [active |-> TRUE, conf |-> conf]
        /\ \A x \in T!Tenants : tenant'[x] = tenant[x]
    BY <1>2 DEF T!Tenants
  <1>5. tenant' \in [T!Tenants' -> [active : BOOLEAN, conf : AnyConf]]
    BY <1>2, <1>4 DEF TTypes
  <1>6. TTypes'
    BY <1>3, <1>4, <1>5 DEF TTypes
  <1>7. Owned'
    BY <1>1, <1>3, <1>4 DEF TTypes, SyncTask, Owned, Own
  <1>8. SnapshotIsTheTenants'
    BY <1>3 DEF SnapshotIsTheTenants, T!SnapshotIsTheTenants
  <1>9. ASSUME Cached PROVE Cached'
    <2>1. \A x \in Slug : x # s => T!Looked(x)' = T!Looked(x)
      BY <1>4 DEF T!Looked
    <2>2. cache[s] = None
      BY <1>9 DEF Cached
    <2>3. \A w \in Worker : req[w].pc \in {"store", "update", "default"} => req[w].slug \in T!Tenants
      BY <1>9 DEF Cached
    <2>4. \A x \in T!Tenants : T!Looked(x)' = T!Looked(x)
      BY <2>1 DEF TTypes
    <2> QED
      BY <1>4, <1>9, <2>1, <2>2, <2>3, <2>4 DEF Cached
  <1> QED
    BY <1>6, <1>7, <1>8, <1>9

(* What a request of each kind holds.                                        *)
LEMMA ReqKinds ==
    ASSUME NEW r \in TReq
    PROVE  /\ r.pc = "update" => r.slug \in Slug /\ r.conf \in AnyConf
           /\ r.pc = "store" => r.slug \in Slug /\ r.conf \in AnyConf
           /\ r.pc \in {"invalidate", "default"} => r.slug \in Slug
  BY DEF TReq, Changing

(* A configuration is its provider and its limit.                            *)
LEMMA ConfOf ==
    ASSUME NEW f, f = [x \in {"hrms", "limit"} |-> f[x]],
           f["hrms"] \in Other \cup {None}, f["limit"] \in Limit \cup {T!DEFAULT_CONFIG.limit}
    PROVE  f \in AnyConf
  BY DEF AnyConf

(* The configuration an update writes is one a tenant may have.              *)
LEMMA ConfigReadConf ==
    ASSUME TTypes, NEW s \in T!Tenants, NEW patch \in T!Patch
    PROVE  [f \in {"hrms", "limit"} |-> IF f \in DOMAIN patch THEN patch[f] ELSE tenant[s].conf[f]] \in AnyConf
  <1> DEFINE new == [f \in {"hrms", "limit"} |-> IF f \in DOMAIN patch THEN patch[f] ELSE tenant[s].conf[f]]
  <1>1. PICK old \in AnyConf : old = tenant[s].conf
    BY DEF TTypes
  <1>2. old["hrms"] \in Other \cup {None} /\ old["limit"] \in Limit \cup {T!DEFAULT_CONFIG.limit}
    BY DEF AnyConf
  <1>3. new = [x \in {"hrms", "limit"} |-> new[x]]
    BY Zenon
  <1>4. CASE patch \in [hrms : Other \cup {None}]
    <2>1. DOMAIN patch = {"hrms"} /\ patch["hrms"] \in Other \cup {None}
      BY <1>4
    <2>2. new["hrms"] \in Other \cup {None} /\ new["limit"] = old["limit"]
      BY <1>1, <2>1
    <2> QED
      BY <1>2, <1>3, <2>2, ConfOf
  <1>5. CASE patch \in [limit : Limit]
    <2>1. DOMAIN patch = {"limit"} /\ patch["limit"] \in Limit
      BY <1>5
    <2>2. new["hrms"] = old["hrms"] /\ new["limit"] \in Limit
      BY <1>1, <2>1
    <2> QED
      BY <1>2, <1>3, <2>2, ConfOf
  <1> QED
    BY <1>4, <1>5 DEF T!Patch

(* The requests the handlers make.                                           *)
LEMMA Requests ==
    /\ T!Idle \in TReq /\ T!Idle.pc = "idle"
    /\ \A s \in Slug, conf \in AnyConf, pc \in {"update", "invalidate", "store"} :
          [pc |-> pc, slug |-> s, conf |-> conf] \in TReq
    /\ \A s \in Slug, pc \in {"invalidate", "default"} : [pc |-> pc, slug |-> s] \in TReq
  <1>1. T!Idle \in TReq /\ T!Idle.pc = "idle"
    BY DEF T!Idle, TReq
  <1>2. \A s \in Slug, conf \in AnyConf, pc \in {"update", "invalidate", "store"} :
          [pc |-> pc, slug |-> s, conf |-> conf] \in Changing
    BY DEF Changing
  <1>3. \A s \in Slug, pc \in {"invalidate", "default"} :
           [pc |-> pc, slug |-> s] \in [pc : {"invalidate", "default"}, slug : Slug]
    OBVIOUS
  <1> QED
    BY <1>1, <1>2, <1>3 DEF TReq

(* The steps that change no more than a request and the cache.               *)
LEMMA RequestsKeep ==
    ASSUME TTypes, Owned, SnapshotIsTheTenants, UNCHANGED <<tenant, queue, adapter, snapshot, had>>,
           req' \in [Worker -> TReq], cache' \in [Slug -> AnyConf \cup {None}],
           doubtful' \subseteq Slug
    PROVE  TTypes' /\ Owned' /\ SnapshotIsTheTenants' /\ \A s : T!Looked(s)' = T!Looked(s)
  <1>1. TTypes'
    BY DEF TTypes, T!Tenants
  <1>2. Owned'
    BY DEF Owned, Own, T!Tenants
  <1>3. SnapshotIsTheTenants'
    BY DEF SnapshotIsTheTenants, T!SnapshotIsTheTenants
  <1>4. \A s : T!Looked(s)' = T!Looked(s)
    BY DEF T!Looked, T!Tenants
  <1> QED
    BY <1>1, <1>2, <1>3, <1>4

LEMMA ConfigReadKeeps ==
    ASSUME TTypes, Owned, SnapshotIsTheTenants, NEW w \in Worker, NEW s \in Slug, NEW patch \in T!Patch,
           T!ConfigRead(w, s, patch)
    PROVE  TTypes' /\ Owned' /\ SnapshotIsTheTenants' /\ (Cached => Cached')
  <1>1. PICK conf \in AnyConf : req' = [req EXCEPT ![w] = [pc |-> "update", slug |-> s, conf |-> conf]]
    BY ConfigReadConf DEF T!ConfigRead
  <1>2. PICK r \in TReq : /\ req' = [req EXCEPT ![w] = r]
                          /\ r.pc = "update" /\ r.slug = s
    BY <1>1, Requests
  <1>3. /\ req' \in [Worker -> TReq] /\ req'[w] = r /\ \A x \in Worker \ {w} : req'[x] = req[x]
    BY <1>2 DEF TTypes
  <1>4. /\ UNCHANGED <<tenant, cache, queue, adapter, snapshot, had, doubtful>>
        /\ req[w].pc = "idle" /\ s \in T!Tenants
    BY DEF T!ConfigRead, T!hrms, T!Idle
  <1>5. TTypes' /\ Owned' /\ SnapshotIsTheTenants' /\ \A x : T!Looked(x)' = T!Looked(x)
    BY <1>3, <1>4, RequestsKeep DEF TTypes
  <1>6. Cached => Cached'
    BY <1>2, <1>3, <1>4, <1>5 DEF Cached, T!Tenants
  <1> QED
    BY <1>5, <1>6

LEMMA ConfigRefusedKeeps ==
    ASSUME TTypes, Owned, SnapshotIsTheTenants, NEW w \in Worker, T!ConfigRefused(w)
    PROVE  TTypes' /\ Owned' /\ SnapshotIsTheTenants' /\ (Cached => Cached')
  <1>1. PICK r \in TReq : req' = [req EXCEPT ![w] = r] /\ r.pc = "idle"
    BY Requests DEF T!ConfigRefused
  <1>2. req' \in [Worker -> TReq] /\ req'[w] = r /\ \A x \in Worker \ {w} : req'[x] = req[x]
    BY <1>1 DEF TTypes
  <1>3. UNCHANGED <<tenant, cache, queue, adapter, snapshot, had, doubtful>> /\ req[w].pc = "update"
    BY DEF T!ConfigRefused, T!hrms
  <1>4. TTypes' /\ Owned' /\ SnapshotIsTheTenants' /\ \A x : T!Looked(x)' = T!Looked(x)
    BY <1>2, <1>3, RequestsKeep DEF TTypes
  <1>5. Cached => Cached'
    BY <1>1, <1>2, <1>3, <1>4 DEF Cached, T!Tenants
  <1> QED
    BY <1>4, <1>5

LEMMA InvalidateKeeps ==
    ASSUME TTypes, Owned, SnapshotIsTheTenants, NEW w \in Worker, T!Invalidate(w)
    PROVE  TTypes' /\ Owned' /\ SnapshotIsTheTenants' /\ (OneWorker /\ Cached => Cached')
  <1>1. PICK r \in TReq : req' = [req EXCEPT ![w] = r] /\ r.pc = "idle"
    BY Requests DEF T!Invalidate
  <1>2. req' \in [Worker -> TReq] /\ req'[w] = r /\ \A x \in Worker \ {w} : req'[x] = req[x]
    BY <1>1 DEF TTypes
  <1>3. UNCHANGED <<tenant, queue, adapter, snapshot, had>> /\ req[w].pc = "invalidate"
    BY DEF T!Invalidate, T!hrms
  <1>4. PICK s \in Slug : s = req[w].slug
    BY <1>3, ReqKinds DEF TTypes
  <1>5. /\ cache' \in [Slug -> AnyConf \cup {None}] /\ cache'[s] = None
        /\ \A x \in Slug \ {s} : cache'[x] = cache[x]
        /\ doubtful' = doubtful \ {s} /\ doubtful' \subseteq Slug
    BY <1>4 DEF T!Invalidate, T!Dropped, TTypes
  <1>6. TTypes' /\ Owned' /\ SnapshotIsTheTenants' /\ \A x : T!Looked(x)' = T!Looked(x)
    BY <1>2, <1>3, <1>5, RequestsKeep DEF TTypes
  <1>7. ASSUME OneWorker, Cached PROVE Cached'
    <2>1. \A x \in Slug \ {s} : cache[x] \in {None, T!Looked(x)} \/ x \in doubtful
      BY <1>4, <1>7 DEF Cached, OneWorker
    <2> QED
      BY <1>1, <1>2, <1>3, <1>5, <1>6, <1>7, <2>1 DEF Cached, T!Tenants
  <1> QED
    BY <1>6, <1>7

LEMMA InvalidateFailsKeeps ==
    ASSUME TTypes, Owned, SnapshotIsTheTenants, NEW w \in Worker, T!InvalidateFails(w)
    PROVE  TTypes' /\ Owned' /\ SnapshotIsTheTenants' /\ (OneWorker /\ Cached => Cached')
  <1>1. PICK r \in TReq : req' = [req EXCEPT ![w] = r] /\ r.pc = "idle"
    BY Requests DEF T!InvalidateFails
  <1>2. req' \in [Worker -> TReq] /\ req'[w] = r /\ \A x \in Worker \ {w} : req'[x] = req[x]
    BY <1>1 DEF TTypes
  <1>3. UNCHANGED <<tenant, cache, queue, adapter, snapshot, had>> /\ req[w].pc = "invalidate"
    BY DEF T!InvalidateFails, T!hrms
  <1>4. PICK s \in Slug : s = req[w].slug
    BY <1>3, ReqKinds DEF TTypes
  <1>5. /\ doubtful \subseteq doubtful' /\ doubtful' \subseteq Slug
        /\ cache[s] \notin {None, T!Looked(s)} => s \in doubtful'
    BY <1>4 DEF T!InvalidateFails, TTypes
  <1>6. TTypes' /\ Owned' /\ SnapshotIsTheTenants' /\ \A x : T!Looked(x)' = T!Looked(x)
    BY <1>2, <1>3, <1>5, RequestsKeep DEF TTypes
  <1>7. ASSUME OneWorker, Cached PROVE Cached'
    <2>1. \A x \in Slug \ {s} : cache[x] \in {None, T!Looked(x)} \/ x \in doubtful
      BY <1>4, <1>7 DEF Cached, OneWorker
    <2> QED
      BY <1>1, <1>2, <1>3, <1>5, <1>6, <1>7, <2>1 DEF Cached, T!Tenants
  <1> QED
    BY <1>6, <1>7

LEMMA ResolveLookupKeeps ==
    ASSUME TTypes, Owned, SnapshotIsTheTenants, NEW w \in Worker, NEW s \in Slug, T!ResolveLookup(w, s)
    PROVE  TTypes' /\ Owned' /\ SnapshotIsTheTenants' /\ (Cached => Cached')
  <1>1. PICK conf \in AnyConf : conf = T!Looked(s)
    BY LookedConf
  <1>2. req' = [req EXCEPT ![w] = [pc |-> "store", slug |-> s, conf |-> conf]]
    BY <1>1, Zenon DEF T!ResolveLookup
  <1>3. PICK r \in TReq : /\ req' = [req EXCEPT ![w] = r]
                          /\ r.pc = "store" /\ r.slug = s /\ r.conf = T!Looked(s)
    BY <1>1, <1>2, Requests
  <1>4. req' \in [Worker -> TReq] /\ req'[w] = r /\ \A x \in Worker \ {w} : req'[x] = req[x]
    BY <1>3 DEF TTypes
  <1>5. /\ UNCHANGED <<tenant, cache, queue, adapter, snapshot, had, doubtful>>
        /\ req[w].pc = "idle" /\ s \in T!Tenants
    BY DEF T!ResolveLookup, T!hrms, T!Idle
  <1>6. TTypes' /\ Owned' /\ SnapshotIsTheTenants' /\ \A x : T!Looked(x)' = T!Looked(x)
    BY <1>4, <1>5, RequestsKeep DEF TTypes
  <1>7. Cached => Cached'
    BY <1>3, <1>4, <1>5, <1>6 DEF Cached, T!Tenants
  <1> QED
    BY <1>6, <1>7

LEMMA LookupFailsKeeps ==
    ASSUME TTypes, Owned, SnapshotIsTheTenants, NEW w \in Worker, NEW s \in Slug, T!LookupFails(w, s)
    PROVE  TTypes' /\ Owned' /\ SnapshotIsTheTenants' /\ (Cached => Cached')
  <1>1. PICK r \in TReq : req' = [req EXCEPT ![w] = r] /\ r.pc = "default" /\ r.slug = s
    BY Requests DEF T!LookupFails
  <1>2. req' \in [Worker -> TReq] /\ req'[w] = r /\ \A x \in Worker \ {w} : req'[x] = req[x]
    BY <1>1 DEF TTypes
  <1>3. /\ UNCHANGED <<tenant, cache, queue, adapter, snapshot, had, doubtful>>
        /\ req[w].pc = "idle" /\ s \in T!Tenants
    BY DEF T!LookupFails, T!hrms, T!Idle
  <1>4. TTypes' /\ Owned' /\ SnapshotIsTheTenants' /\ \A x : T!Looked(x)' = T!Looked(x)
    BY <1>2, <1>3, RequestsKeep DEF TTypes
  <1>5. Cached => Cached'
    BY <1>1, <1>2, <1>3, <1>4 DEF Cached, T!Tenants
  <1> QED
    BY <1>4, <1>5

LEMMA ResolveStoreKeeps ==
    ASSUME TTypes, Owned, SnapshotIsTheTenants, NEW w \in Worker, T!ResolveStore(w)
    PROVE  TTypes' /\ Owned' /\ SnapshotIsTheTenants' /\ (Cached => Cached')
  <1>1. PICK r \in TReq : req' = [req EXCEPT ![w] = r] /\ r.pc = "idle"
    BY Requests DEF T!ResolveStore
  <1>2. req' \in [Worker -> TReq] /\ req'[w] = r /\ \A x \in Worker \ {w} : req'[x] = req[x]
    BY <1>1 DEF TTypes
  <1>3. UNCHANGED <<tenant, queue, adapter, snapshot, had>> /\ req[w].pc = "store"
    BY DEF T!ResolveStore, T!hrms
  <1>4. PICK s \in Slug, conf \in AnyConf : s = req[w].slug /\ conf = req[w].conf
    BY <1>3, ReqKinds DEF TTypes
  <1>5. /\ cache' \in [Slug -> AnyConf \cup {None}] /\ cache'[s] = conf
        /\ \A x \in Slug \ {s} : cache'[x] = cache[x]
        /\ doubtful' = doubtful \ {s} /\ doubtful' \subseteq Slug
    BY <1>4 DEF T!ResolveStore, TTypes
  <1>6. TTypes' /\ Owned' /\ SnapshotIsTheTenants' /\ \A x : T!Looked(x)' = T!Looked(x)
    BY <1>2, <1>3, <1>5, RequestsKeep DEF TTypes
  <1>7. ASSUME Cached PROVE Cached'
    <2>1. s \in T!Tenants /\ conf = T!Looked(s)
      BY <1>3, <1>4, <1>7 DEF Cached
    <2> QED
      BY <1>1, <1>2, <1>3, <1>5, <1>6, <1>7, <2>1 DEF Cached, T!Tenants
  <1> QED
    BY <1>6, <1>7

LEMMA DefaultStoreKeeps ==
    ASSUME TTypes, Owned, SnapshotIsTheTenants, NEW w \in Worker, T!DefaultStore(w)
    PROVE  TTypes' /\ Owned' /\ SnapshotIsTheTenants' /\ (Cached => Cached')
  <1>1. PICK r \in TReq : req' = [req EXCEPT ![w] = r] /\ r.pc = "idle"
    BY Requests DEF T!DefaultStore
  <1>2. req' \in [Worker -> TReq] /\ req'[w] = r /\ \A x \in Worker \ {w} : req'[x] = req[x]
    BY <1>1 DEF TTypes
  <1>3. UNCHANGED <<tenant, queue, adapter, snapshot, had>> /\ req[w].pc = "default"
    BY DEF T!DefaultStore, T!hrms
  <1>4. PICK s \in Slug : s = req[w].slug
    BY <1>3, ReqKinds DEF TTypes
  <1>5. PICK conf \in AnyConf : conf = T!DEFAULT_CONFIG
    BY DefaultConf
  <1>6. /\ cache' \in [Slug -> AnyConf \cup {None}]
        /\ \A x \in Slug \ {s} : cache'[x] = cache[x]
        /\ doubtful \subseteq doubtful' /\ doubtful' \subseteq Slug
        /\ cache'[s] = T!Looked(s) \/ s \in doubtful'
    BY <1>4, <1>5 DEF T!DefaultStore, TTypes
  <1>7. TTypes' /\ Owned' /\ SnapshotIsTheTenants' /\ \A x : T!Looked(x)' = T!Looked(x)
    BY <1>2, <1>3, <1>6, RequestsKeep DEF TTypes
  <1>8. ASSUME Cached PROVE Cached'
    <2>1. s \in T!Tenants
      BY <1>3, <1>4, <1>8 DEF Cached
    <2> QED
      BY <1>1, <1>2, <1>3, <1>6, <1>7, <1>8, <2>1 DEF Cached, T!Tenants
  <1> QED
    BY <1>7, <1>8

LEMMA StoreFailsKeeps ==
    ASSUME TTypes, Owned, SnapshotIsTheTenants, NEW w \in Worker, T!StoreFails(w)
    PROVE  TTypes' /\ Owned' /\ SnapshotIsTheTenants' /\ (Cached => Cached')
  <1>1. PICK r \in TReq : req' = [req EXCEPT ![w] = r] /\ r.pc = "idle"
    BY Requests DEF T!StoreFails
  <1>2. req' \in [Worker -> TReq] /\ req'[w] = r /\ \A x \in Worker \ {w} : req'[x] = req[x]
    BY <1>1 DEF TTypes
  <1>3. /\ UNCHANGED <<tenant, cache, queue, adapter, snapshot, had, doubtful>>
        /\ req[w].pc \in {"store", "default"}
    BY DEF T!StoreFails, T!hrms
  <1>4. TTypes' /\ Owned' /\ SnapshotIsTheTenants' /\ \A x : T!Looked(x)' = T!Looked(x)
    BY <1>2, <1>3, RequestsKeep DEF TTypes
  <1>5. Cached => Cached'
    BY <1>1, <1>2, <1>3, <1>4 DEF Cached, T!Tenants
  <1> QED
    BY <1>4, <1>5

LEMMA CacheExpiresKeeps ==
    ASSUME TTypes, Owned, SnapshotIsTheTenants, NEW s \in Slug, T!CacheExpires(s)
    PROVE  TTypes' /\ Owned' /\ SnapshotIsTheTenants' /\ (Cached => Cached')
  <1>1. UNCHANGED <<tenant, req, queue, adapter, snapshot, had>>
    BY DEF T!CacheExpires, T!hrms
  <1>2. /\ cache' \in [Slug -> AnyConf \cup {None}] /\ cache'[s] = None
        /\ \A x \in Slug \ {s} : cache'[x] = cache[x]
        /\ doubtful' = doubtful \ {s} /\ doubtful' \subseteq Slug
    BY DEF T!CacheExpires, TTypes
  <1>3. TTypes' /\ Owned' /\ SnapshotIsTheTenants' /\ \A x : T!Looked(x)' = T!Looked(x)
    BY <1>1, <1>2, RequestsKeep DEF TTypes
  <1>4. Cached => Cached'
    BY <1>1, <1>2, <1>3 DEF Cached, T!Tenants
  <1> QED
    BY <1>3, <1>4

LEMMA ConfigUpdateKeeps ==
    ASSUME TTypes, Owned, SnapshotIsTheTenants, NEW w \in Worker, T!ConfigUpdate(w)
    PROVE  TTypes' /\ Owned' /\ SnapshotIsTheTenants' /\ (OneWorker /\ Cached => Cached')
  <1>1. PICK s \in Slug, conf \in AnyConf : s = req[w].slug /\ conf = req[w].conf
    BY ReqKinds DEF TTypes, T!ConfigUpdate
  <1>2. PICK r : r = [req[w] EXCEPT !.pc = "invalidate"]
    OBVIOUS
  <1>3. req[w] \in Changing
    BY DEF TTypes, TReq, T!ConfigUpdate
  <1>4. \A any \in Changing : r = [any EXCEPT !.pc = "invalidate"] =>
           r \in Changing /\ r.pc = "invalidate" /\ r.slug = any.slug
    BY Zenon DEF Changing
  <1>5. r \in TReq /\ r.pc = "invalidate" /\ r.slug = s
    BY <1>1, <1>2, <1>3, <1>4 DEF TReq
  <1>6. req' = [req EXCEPT ![w] = r]
    BY <1>2, Zenon DEF T!ConfigUpdate
  <1>7. req' \in [Worker -> TReq] /\ req'[w] = r /\ \A x \in Worker \ {w} : req'[x] = req[x]
    BY <1>5, <1>6 DEF TTypes
  <1>8. UNCHANGED <<cache, queue, adapter, snapshot, doubtful>> /\ req[w].pc = "update"
    BY DEF T!ConfigUpdate, T!hrms
  <1>9. had' = [had EXCEPT ![s] = @ \cup ({conf.hrms} \ {None})]
    BY <1>1 DEF T!ConfigUpdate, T!Configured
  <1>10. /\ had' \in [Slug -> SUBSET Other] /\ had'[s] = had[s] \cup ({conf.hrms} \ {None})
         /\ \A x \in Slug \ {s} : had'[x] = had[x]
    BY <1>9 DEF TTypes, AnyConf
  <1>11. tenant' = [tenant EXCEPT ![s].conf = conf]
    BY <1>1 DEF T!ConfigUpdate
  <1>12. /\ T!Tenants' = T!Tenants /\ tenant' \in [T!Tenants -> [active : BOOLEAN, conf : AnyConf]]
         /\ \A x \in T!Tenants \ {s} : tenant'[x] = tenant[x]
         /\ s \in T!Tenants => tenant'[s].conf = conf
    BY <1>11 DEF TTypes, T!Tenants
  <1>13. TTypes'
    BY <1>7, <1>8, <1>10, <1>12 DEF TTypes
  <1>14. Owned'
    BY <1>8, <1>10, <1>12 DEF Owned, Own, TTypes, SyncTask
  <1>15. SnapshotIsTheTenants'
    BY <1>8, <1>10 DEF SnapshotIsTheTenants, T!SnapshotIsTheTenants
  <1>16. ASSUME OneWorker, Cached PROVE Cached'
    <2>1. \A x \in Slug \ {s} : cache[x] # None =>
             (cache[x] = T!Looked(x) \/ x \in doubtful) /\ x \in T!Tenants
      BY <1>8, <1>16 DEF Cached, OneWorker
    <2>2. \A x \in T!Tenants \ {s} : T!Looked(x)' = T!Looked(x)
      BY <1>12 DEF T!Looked
    <2>3. \A v \in Worker : v = w
      BY <1>16 DEF OneWorker
    <2> QED
      BY <1>5, <1>7, <1>8, <1>12, <1>16, <2>1, <2>2, <2>3 DEF Cached
  <1> QED
    BY <1>13, <1>14, <1>15, <1>16

LEMMA DeactivateUpdateKeeps ==
    ASSUME TTypes, Owned, SnapshotIsTheTenants, NEW w \in Worker, NEW s \in Slug, T!DeactivateUpdate(w, s)
    PROVE  TTypes' /\ Owned' /\ SnapshotIsTheTenants' /\ (OneWorker /\ Cached => Cached')
  <1>1. PICK r \in TReq : req' = [req EXCEPT ![w] = r] /\ r.pc = "invalidate" /\ r.slug = s
    BY Requests DEF T!DeactivateUpdate
  <1>2. req' \in [Worker -> TReq] /\ req'[w] = r /\ \A x \in Worker \ {w} : req'[x] = req[x]
    BY <1>1 DEF TTypes
  <1>3. /\ UNCHANGED <<cache, queue, adapter, snapshot, had, doubtful>>
        /\ req[w].pc = "idle" /\ s \in T!Tenants
    BY DEF T!DeactivateUpdate, T!hrms, T!Idle
  <1>4. tenant' = [tenant EXCEPT ![s].active = FALSE]
    BY DEF T!DeactivateUpdate
  <1>5. /\ T!Tenants' = T!Tenants /\ tenant' \in [T!Tenants -> [active : BOOLEAN, conf : AnyConf]]
        /\ \A x \in T!Tenants : tenant'[x].conf = tenant[x].conf
        /\ \A x \in T!Tenants \ {s} : tenant'[x] = tenant[x]
    BY <1>4 DEF TTypes, T!Tenants
  <1>6. TTypes'
    BY <1>2, <1>3, <1>5 DEF TTypes
  <1>7. Owned'
    BY <1>3, <1>5 DEF Owned, Own
  <1>8. SnapshotIsTheTenants'
    BY <1>3 DEF SnapshotIsTheTenants, T!SnapshotIsTheTenants
  <1>9. ASSUME OneWorker, Cached PROVE Cached'
    <2>1. \A x \in Slug \ {s} : cache[x] # None =>
             (cache[x] = T!Looked(x) \/ x \in doubtful) /\ x \in T!Tenants
      BY <1>3, <1>9 DEF Cached, OneWorker
    <2>2. \A x \in T!Tenants \ {s} : T!Looked(x)' = T!Looked(x)
      BY <1>5 DEF T!Looked
    <2>3. \A v \in Worker : v = w
      BY <1>9 DEF OneWorker
    <2> QED
      BY <1>1, <1>2, <1>3, <1>5, <1>9, <2>1, <2>2, <2>3 DEF Cached
  <1> QED
    BY <1>6, <1>7, <1>8, <1>9

(* The steps that touch neither the rows nor the requests.                   *)
LEMMA SyncsKeep ==
    ASSUME Cached, UNCHANGED <<tenant, cache, req, doubtful>>
    PROVE  Cached'
  <1>1. \A s : T!Looked(s)' = T!Looked(s)
    BY DEF T!Looked, T!Tenants
  <1> QED
    BY <1>1 DEF Cached, T!Tenants

LEMMA SyncAllKeeps ==
    ASSUME TTypes, Owned, SnapshotIsTheTenants, T!SyncAll
    PROVE  TTypes' /\ Owned' /\ SnapshotIsTheTenants'
  <1>1. UNCHANGED <<tenant, cache, req, adapter, snapshot, had, doubtful>> /\ T!Tenants' = T!Tenants
    BY DEF T!SyncAll, T!Tenants
  <1>2. \A t \in queue' : \E s \in T!Tenants :
           t = [slug |-> s, conf |-> tenant[s].conf, retries |-> 0] /\ tenant[s].conf.hrms # None
    BY DEF T!SyncAll
  <1>3. \A t \in queue' : t \in SyncTask /\ t.conf.hrms \in had[t.slug]
    BY <1>2 DEF SyncTask, TTypes, Owned, Own
  <1>4. TTypes'
    BY <1>1, <1>3 DEF TTypes
  <1>5. Owned'
    BY <1>1, <1>3 DEF Owned, Own
  <1> QED
    BY <1>1, <1>4, <1>5 DEF SnapshotIsTheTenants, T!SnapshotIsTheTenants

(* The adapter a sync takes is one the tenant had.                           *)
LEMMA AdapterKept ==
    ASSUME TTypes, Owned, NEW c \in Celery, NEW t \in queue,
           adapter' = [adapter EXCEPT ![c][t.slug] = T!Adapter(c, t)], UNCHANGED had
    PROVE  /\ T!Adapter(c, t) \in had[t.slug] \cap Other
           /\ adapter' \in [Celery -> [Slug -> Other \cup {None}]]
           /\ \A d \in Celery, s \in Slug : adapter'[d][s] \in Own(s)
  <1>1. t.slug \in Slug /\ t.conf.hrms \in had[t.slug] /\ had[t.slug] \subseteq Other
    BY DEF TTypes, Owned, SyncTask
  <1>2. T!Adapter(c, t) \in had[t.slug] \cap Other
    BY <1>1 DEF TTypes, Owned, Own, T!Adapter
  <1>3. PICK p \in had[t.slug] \cap Other : p = T!Adapter(c, t)
    BY <1>2
  <1>4. adapter' = [adapter EXCEPT ![c][t.slug] = p]
    BY <1>3
  <1>5. /\ adapter' \in [Celery -> [Slug -> Other \cup {None}]]
        /\ \A d \in Celery, s \in Slug : adapter'[d][s] = IF d = c /\ s = t.slug THEN p ELSE adapter[d][s]
    BY <1>1, <1>4 DEF TTypes
  <1> QED
    BY <1>2, <1>3, <1>5 DEF Owned, Own

LEMMA SyncKeeps ==
    ASSUME TTypes, Owned, SnapshotIsTheTenants, NEW c \in Celery, NEW t \in queue, T!Sync(c, t)
    PROVE  TTypes' /\ Owned' /\ SnapshotIsTheTenants'
  <1>1. UNCHANGED <<tenant, cache, req, had, doubtful>> /\ T!Tenants' = T!Tenants /\ queue' \subseteq queue
    BY DEF T!Sync, T!Tenants
  <1>2. /\ T!Adapter(c, t) \in had[t.slug]
        /\ adapter' \in [Celery -> [Slug -> Other \cup {None}]]
        /\ \A d \in Celery, s \in Slug : adapter'[d][s] \in Own(s)
    BY AdapterKept DEF T!Sync
  <1>3. t.slug \in Slug
    BY DEF TTypes, SyncTask
  <1>4. PICK p : p = T!Adapter(c, t)
    OBVIOUS
  <1>5. snapshot' = [snapshot EXCEPT ![t.slug] = p]
    BY <1>4 DEF T!Sync
  <1>6. /\ DOMAIN snapshot' = Slug /\ snapshot'[t.slug] = p /\ p = T!Adapter(c, t)
        /\ \A s \in Slug \ {t.slug} : snapshot'[s] = snapshot[s]
    BY <1>3, <1>4, <1>5 DEF TTypes
  <1>7. TTypes'
    BY <1>1, <1>2, <1>6 DEF TTypes
  <1>8. Owned'
    BY <1>1, <1>2 DEF Owned, Own
  <1>9. SnapshotIsTheTenants'
    BY <1>1, <1>2, <1>6 DEF SnapshotIsTheTenants, T!SnapshotIsTheTenants
  <1> QED
    BY <1>7, <1>8, <1>9

LEMMA SyncFailsKeeps ==
    ASSUME TTypes, Owned, SnapshotIsTheTenants, NEW c \in Celery, NEW t \in queue, T!SyncFails(c, t)
    PROVE  TTypes' /\ Owned' /\ SnapshotIsTheTenants'
  <1>1. UNCHANGED <<tenant, cache, req, snapshot, had, doubtful>> /\ T!Tenants' = T!Tenants
    BY DEF T!SyncFails, T!Tenants
  <1>2. /\ adapter' \in [Celery -> [Slug -> Other \cup {None}]]
        /\ \A d \in Celery, s \in Slug : adapter'[d][s] \in Own(s)
    BY AdapterKept DEF T!SyncFails
  <1>3. PICK again : again = [t EXCEPT !.retries = @ + 1]
    OBVIOUS
  <1>4. queue' \subseteq queue \cup {again}
    BY <1>3 DEF T!SyncFails
  <1>5. \A any \in SyncTask : again = [any EXCEPT !.retries = @ + 1] =>
           again \in SyncTask /\ again.slug = any.slug /\ again.conf = any.conf
    BY DEF SyncTask
  <1>6. again \in SyncTask /\ again.slug = t.slug /\ again.conf = t.conf
    BY <1>3, <1>5 DEF TTypes
  <1>7. TTypes'
    BY <1>1, <1>2, <1>4, <1>6 DEF TTypes
  <1>8. \A u \in queue' : u.conf.hrms \in had[u.slug]
    BY <1>4, <1>6 DEF Owned
  <1>9. Owned'
    BY <1>1, <1>2, <1>8 DEF Owned, Own
  <1> QED
    BY <1>1, <1>7, <1>9 DEF SnapshotIsTheTenants, T!SnapshotIsTheTenants

LEMMA SnapshotExpiresKeeps ==
    ASSUME TTypes, Owned, SnapshotIsTheTenants, NEW s \in Slug, T!SnapshotExpires(s)
    PROVE  TTypes' /\ Owned' /\ SnapshotIsTheTenants'
  <1>1. UNCHANGED <<tenant, cache, req, queue, adapter, had, doubtful>> /\ T!Tenants' = T!Tenants
    BY DEF T!SnapshotExpires, T!Tenants
  <1>2. DOMAIN snapshot' = Slug /\ \A x \in Slug : snapshot'[x] \in {snapshot[x], None}
    BY DEF T!SnapshotExpires, TTypes
  <1>3. TTypes'
    BY <1>1, <1>2 DEF TTypes
  <1>4. Owned'
    BY <1>1 DEF Owned, Own
  <1> QED
    BY <1>1, <1>2, <1>3, <1>4 DEF SnapshotIsTheTenants, T!SnapshotIsTheTenants

(* Every step of Tenants keeps what holds for any number of workers, and     *)
(* with one worker what is cached stays current.                             *)
LEMMA TenantsStep ==
    ASSUME TTypes, Owned, SnapshotIsTheTenants, [T!Next]_(T!vars)
    PROVE  TTypes' /\ Owned' /\ SnapshotIsTheTenants' /\ (OneWorker /\ Cached => Cached')
  <1>1. ASSUME NEW s \in Slug, T!Register(s)
        PROVE  TTypes' /\ Owned' /\ SnapshotIsTheTenants' /\ (OneWorker /\ Cached => Cached')
    BY <1>1, InsertKeeps, DefaultConf DEF T!Register, T!hrms
  <1>2. ASSUME NEW s \in Slug, NEW conf \in T!Conf, T!Provision(s, conf)
        PROVE  TTypes' /\ Owned' /\ SnapshotIsTheTenants' /\ (OneWorker /\ Cached => Cached')
    <2>1. conf \in AnyConf
      BY DEF T!Conf, AnyConf
    <2> QED
      BY <1>2, <2>1, InsertKeeps DEF T!Provision, T!hrms
  <1>3. CASE \E s \in Slug : T!CacheExpires(s)
    BY <1>3, CacheExpiresKeeps
  <1>4. CASE \E s \in Slug : T!SnapshotExpires(s)
    BY <1>4, SnapshotExpiresKeeps, SyncsKeep DEF T!SnapshotExpires
  <1>5. CASE \E w \in Worker : \/ T!ConfigUpdate(w) \/ T!ConfigRefused(w)
                               \/ T!Invalidate(w) \/ T!InvalidateFails(w)
                               \/ T!ResolveStore(w) \/ T!DefaultStore(w) \/ T!StoreFails(w)
    BY <1>5, ConfigUpdateKeeps, ConfigRefusedKeeps, InvalidateKeeps, InvalidateFailsKeeps,
       ResolveStoreKeeps, DefaultStoreKeeps, StoreFailsKeeps
  <1>6. CASE \E w \in Worker, s \in Slug : \/ T!DeactivateUpdate(w, s) \/ T!ResolveLookup(w, s)
                                           \/ T!LookupFails(w, s)
                                           \/ \E patch \in T!Patch : T!ConfigRead(w, s, patch)
    BY <1>6, DeactivateUpdateKeeps, ResolveLookupKeeps, LookupFailsKeeps, ConfigReadKeeps
  <1>7. CASE T!SyncAll
    BY <1>7, SyncAllKeeps, SyncsKeep DEF T!SyncAll
  <1>8. CASE \E c \in Celery : \E t \in queue : T!Sync(c, t)
    BY <1>8, SyncKeeps, SyncsKeep DEF T!Sync
  <1>9. CASE \E c \in Celery : \E t \in queue : T!SyncFails(c, t)
    BY <1>9, SyncFailsKeeps, SyncsKeep DEF T!SyncFails
  <1>10. CASE UNCHANGED T!vars
    <2>1. UNCHANGED <<tenant, cache, req, queue, adapter, snapshot, had, doubtful>> /\ T!Tenants' = T!Tenants
      BY <1>10 DEF T!vars, T!Tenants
    <2> QED
      BY <2>1, SyncsKeep
      DEF TTypes, Owned, Own, SnapshotIsTheTenants, T!SnapshotIsTheTenants
  <1> QED
    BY <1>1, <1>2, <1>3, <1>4, <1>5, <1>6, <1>7, <1>8, <1>9, <1>10 DEF T!Next

(* However many workers and Celery processes there are, a snapshot comes     *)
(* from a provider its own tenant has had.                                   *)
THEOREM SnapshotsStayTheTenants == T!Spec => []SnapshotIsTheTenants
  <1>1. T!Init => TTypes /\ Owned /\ SnapshotIsTheTenants
    BY TenantsInit
  <1>2. TTypes /\ Owned /\ SnapshotIsTheTenants /\ [T!Next]_(T!vars) =>
           TTypes' /\ Owned' /\ SnapshotIsTheTenants'
    BY TenantsStep
  <1> QED
    BY <1>1, <1>2, PTL DEF T!Spec

(* With one worker process, what a request is served with is what a lookup   *)
(* would find whenever no handler is in the middle of its work, but for the   *)
(* copies that a failing database or an unreachable Redis left behind.        *)
THEOREM CachedConfigStaysCurrent == OneWorker => (T!Spec => []CachedConfigIsCurrent)
  <1> SUFFICES ASSUME OneWorker PROVE T!Spec => []CachedConfigIsCurrent
    OBVIOUS
  <1> DEFINE Inv == TTypes /\ Owned /\ SnapshotIsTheTenants /\ Cached
  <1>1. T!Init => Inv
    BY TenantsInit
  <1>2. Inv /\ [T!Next]_(T!vars) => Inv'
    BY TenantsStep
  <1>3. Inv => CachedConfigIsCurrent
    BY DEF Cached, CachedConfigIsCurrent, T!CachedConfigIsCurrent, T!Idle
  <1> QED
    BY <1>1, <1>2, <1>3, PTL DEF T!Spec

-----------------------------------------------------------------------------
(* AI router *)

RCall == [pc : R!Steps, todo : Seq(Other), first : Other \cup {R!Internal}]
RReq == [pc : {"idle"}] \cup [pc : {"mode"}, mode : Other \cup {R!Internal}]
           \cup [pc : {"create"}, name : Other]
RRow == [active : BOOLEAN, usage : Nat, limit : Limits]
Queued(c, p) == c.pc \in {"external", "log"} /\ \E i \in 1 .. Len(c.todo) : c.todo[i] = p

RTypes ==
    /\ R!Rows \subseteq Other \X Worker
    /\ row \in [R!Rows -> RRow]
    /\ mode \in Other \cup {R!Internal}
    /\ call \in [One -> RCall]
    /\ rreq \in [Worker -> RReq]
    /\ \A k \in One : call[k].pc \in {"external", "log"} => call[k].todo # <<>>

(* A question that has passed the check of a provider, and may yet count.    *)
Waiting(p) == {k \in One : Queued(call[k], p)}
(* A row whose limit counts: the only one of its name, and never changed.    *)
Sole(r) == r \in R!Rows /\ R!Name(r) \notin changed /\ R!Named(R!Name(r)) = {r} /\ row[r].limit > 0
Bound ==
    \A r \in R!Rows : Sole(r) =>
        row[r].usage + Cardinality(Waiting(R!Name(r))) < row[r].limit + Cardinality(One)

(* The questions that wait for a provider can be counted.                    *)
LEMMA WaitingIsFinite ==
    \A p : /\ IsFiniteSet(Waiting(p)) /\ Cardinality(Waiting(p)) \in Nat
           /\ Cardinality(Waiting(p)) <= Cardinality(One) /\ Cardinality(One) \in Nat
  BY FiniteAssumption, FS_Subset, FS_CardinalityType DEF Waiting

(* AIRouter counts with an instance of FiniteSets of its own.                *)
LEMMA RouterCardinality == \A S : R!Cardinality(S) = Cardinality(S)
  BY Zenon DEF R!Cardinality, Cardinality

(* The invariants hold when the program starts.                              *)
LEMMA RouterInit == R!Init => RTypes /\ Bound
  <1> SUFFICES ASSUME R!Init PROVE RTypes /\ Bound
    OBVIOUS
  <1>1. R!Rows = {} /\ row \in [{} -> RRow]
    BY DEF R!Init, R!Rows
  <1>2. /\ mode = R!Internal
        /\ call = [k \in One |-> [pc |-> "idle", todo |-> <<>>, first |-> R!Internal]]
        /\ rreq = [w \in Worker |-> [pc |-> "idle"]]
    BY DEF R!Init, R!Idle
  <1>3. call \in [One -> RCall] /\ \A k \in One : call[k].pc = "idle"
    BY <1>2 DEF RCall, R!Steps
  <1>4. rreq \in [Worker -> RReq]
    BY <1>2 DEF RReq
  <1> QED
    BY <1>1, <1>2, <1>3, <1>4 DEF RTypes, Bound

(* A question moves on: it comes to wait for no provider but a usable one.   *)
LEMMA CallKeeps ==
    ASSUME RTypes, Bound, NEW k \in One, NEW r \in RCall,
           call' = [call EXCEPT ![k] = r], UNCHANGED <<row, mode, rreq, changed>>,
           r.pc \in {"external", "log"} => r.todo # <<>>,
           \A p : Queued(r, p) => Queued(call[k], p) \/ p \in R!Callable
    PROVE  RTypes' /\ Bound'
  <1>1. call' \in [One -> RCall] /\ call'[k] = r /\ \A j \in One \ {k} : call'[j] = call[j]
    BY DEF RTypes
  <1>2. RTypes'
    BY <1>1 DEF RTypes, R!Rows
  <1>3. SUFFICES ASSUME NEW o \in R!Rows, Sole(o), NEW p, p = R!Name(o)
                 PROVE  row[o].usage + Cardinality(Waiting(p)') < row[o].limit + Cardinality(One)
    BY <1>2 DEF Bound, Sole, R!Rows, R!Name, R!Named
  <1>4. row[o].limit \in Nat /\ row[o].usage \in Nat /\ Cardinality(One) \in Nat
    BY LimitsAssumption, FiniteAssumption, FS_CardinalityType DEF RTypes, RRow
  <1>5. /\ IsFiniteSet(Waiting(p)') /\ Cardinality(Waiting(p)') \in Nat
        /\ Cardinality(Waiting(p)') <= Cardinality(One)
    BY FiniteAssumption, FS_Subset, FS_CardinalityType DEF Waiting
  <1>6. CASE p \in R!Callable
    <2>1. PICK u \in R!Usable : R!Name(u) = p
      BY <1>6 DEF R!Callable
    <2>2. u = o
      BY <1>3, <2>1 DEF Sole, R!Named, R!Usable
    <2>3. row[o].usage < row[o].limit
      BY <1>3, <1>4, <2>2 DEF R!Usable, R!BelowLimit, Sole
    <2> QED
      BY <1>4, <1>5, <2>3
  <1>7. CASE p \notin R!Callable
    <2>1. Waiting(p)' \subseteq Waiting(p)
      BY <1>1, <1>7 DEF Waiting, Queued
    <2>2. Cardinality(Waiting(p)') <= Cardinality(Waiting(p))
      BY <2>1, WaitingIsFinite, FS_Subset
    <2>3. row[o].usage + Cardinality(Waiting(p)) < row[o].limit + Cardinality(One)
      BY <1>3 DEF Bound
    <2> QED
      BY <1>4, <1>5, <2>2, <2>3, WaitingIsFinite
  <1> QED
    BY <1>6, <1>7

(* What Go makes of a call.                                                  *)
LEMMA GoesTo ==
    ASSUME RTypes, NEW k \in One, NEW pc \in R!Steps, NEW todo \in Seq(Other), R!Go(k, pc, todo)
    PROVE  \E r \in RCall : call' = [call EXCEPT ![k] = r] /\ r.pc = pc /\ r.todo = todo
  <1>1. /\ call' \in [One -> RCall] /\ call'[k].pc = pc /\ call'[k].todo = todo
        /\ \A j \in One \ {k} : call'[j] = call[j]
    BY DEF RTypes, RCall, R!Go
  <1>2. call' = [call EXCEPT ![k] = call'[k]]
    BY <1>1 DEF RTypes
  <1> QED
    BY <1>1, <1>2

LEMMA GoingKeeps ==
    ASSUME RTypes, Bound, NEW k \in One, NEW pc \in R!Steps, NEW todo \in Seq(Other),
           R!Go(k, pc, todo), UNCHANGED <<row, mode, rreq, changed>>,
           pc \in {"external", "log"} => todo # <<>>,
           pc \in {"external", "log"} =>
              \A i \in 1 .. Len(todo) : Queued(call[k], todo[i]) \/ todo[i] \in R!Callable
    PROVE  RTypes' /\ Bound'
  <1>1. PICK r \in RCall : call' = [call EXCEPT ![k] = r] /\ r.pc = pc /\ r.todo = todo
    BY GoesTo
  <1>2. \A p : Queued(r, p) => Queued(call[k], p) \/ p \in R!Callable
    BY <1>1 DEF Queued
  <1> QED
    BY <1>1, <1>2, CallKeeps

LEMMA ReplacedKeeps ==
    ASSUME RTypes, Bound, NEW k \in One, NEW pc \in R!Steps \ {"external", "log"},
           NEW first \in Other \cup {R!Internal},
           call' = [call EXCEPT ![k] = [pc |-> pc, todo |-> <<>>, first |-> first]],
           UNCHANGED <<row, mode, rreq, changed>>
    PROVE  RTypes' /\ Bound'
  <1>1. <<>> \in Seq(Other)
    OBVIOUS
  <1>2. PICK r : r = [pc |-> pc, todo |-> <<>>, first |-> first]
    OBVIOUS
  <1>3. r \in RCall /\ r.pc = pc
    BY <1>1, <1>2 DEF RCall
  <1>4. /\ call' = [call EXCEPT ![k] = r]
        /\ r.pc \notin {"external", "log"}
    BY <1>2, <1>3
  <1>5. \A p : ~Queued(r, p)
    BY <1>4 DEF Queued
  <1> QED
    BY <1>4, <1>5, <1>3, CallKeeps

LEMMA BeginKeeps ==
    ASSUME RTypes, Bound, NEW k \in One, R!Begin(k)
    PROVE  RTypes' /\ Bound'
  <1>1. PICK m \in {mode, R!Internal} :
           call' = [call EXCEPT ![k] = [pc |-> IF m = R!Internal THEN "internal" ELSE "primary",
                                        todo |-> <<>>, first |-> m]]
    BY DEF R!Begin
  <1>2. PICK pc \in {"internal", "primary"} : pc = IF m = R!Internal THEN "internal" ELSE "primary"
    OBVIOUS
  <1>3. /\ pc \in R!Steps \ {"external", "log"} /\ m \in Other \cup {R!Internal}
        /\ UNCHANGED <<row, mode, rreq, changed>>
    BY DEF R!Steps, RTypes, R!Begin, R!Keep
  <1> QED
    BY <1>1, <1>2, <1>3, ReplacedKeeps

LEMMA ReturnKeeps ==
    ASSUME RTypes, Bound, NEW k \in One, R!Return(k)
    PROVE  RTypes' /\ Bound'
  <1>1. "idle" \in R!Steps \ {"external", "log"}
    BY DEF R!Steps
  <1> QED
    BY <1>1, ReplacedKeeps DEF R!Return, R!Keep

(* The steps of a question that queue it for nothing.                        *)
LEMMA EndsKeep ==
    ASSUME RTypes, Bound, NEW k \in One, NEW pc \in R!Steps \ {"external", "log"},
           R!Go(k, pc, <<>>), R!Keep
    PROVE  RTypes' /\ Bound'
  <1>1. <<>> \in Seq(Other)
    OBVIOUS
  <1> QED
    BY <1>1, GoingKeeps DEF R!Keep

LEMMA ListKeeps ==
    ASSUME RTypes, Bound, NEW k \in One, R!List(k)
    PROVE  RTypes' /\ Bound'
  <1>1. R!Keep /\ {"failed", "external"} \subseteq R!Steps
    BY DEF R!List, R!Steps
  <1>2. CASE R!Go(k, "failed", <<>>)
    BY <1>1, <1>2, EndsKeep
  <1>3. ASSUME R!Usable # {}, NEW s \in R!SetToSeqs(R!Usable),
               R!Go(k, "external", [i \in DOMAIN s |-> R!Name(s[i])])
        PROVE  RTypes' /\ Bound'
    <2>1. R!Usable \subseteq Other \X Worker
      BY DEF R!Usable, RTypes
    <2>2. PICK n \in Nat \ {0} : s \in [1 .. n -> R!Usable]
      <3>1. s \in [1 .. R!Cardinality(R!Usable) -> R!Usable]
        BY <1>3 DEF R!SetToSeqs
      <3>2. IsFiniteSet(R!Usable)
        BY <2>1, FiniteAssumption, FS_Product, FS_Subset
      <3>3. Cardinality(R!Usable) \in Nat \ {0}
        BY <1>3, <3>2, FS_CardinalityType, FS_EmptySet
      <3> QED
        BY <3>1, <3>3, RouterCardinality
    <2>3. PICK todo : todo = [i \in 1 .. n |-> R!Name(s[i])]
      OBVIOUS
    <2>4. /\ todo \in Seq(Other) /\ todo # <<>> /\ Len(todo) = n
          /\ \A i \in 1 .. n : todo[i] \in R!Callable
      <3>1. \A u \in R!Usable : R!Name(u) \in Other /\ R!Name(u) \in R!Callable
        BY <2>1 DEF R!Name, R!Callable
      <3>2. todo \in [1 .. n -> Other] /\ \A i \in 1 .. n : todo[i] \in R!Callable
        BY <2>2, <2>3, <3>1
      <3> QED
        BY <3>2
    <2>5. R!Go(k, "external", todo)
      BY <1>3, <2>2, <2>3
    <2> QED
      BY <1>1, <2>4, <2>5, GoingKeeps DEF R!Keep
  <1> QED
    BY <1>2, <1>3 DEF R!List

LEMMA PrimaryKeeps ==
    ASSUME RTypes, Bound, NEW k \in One, R!Primary(k)
    PROVE  RTypes' /\ Bound'
  <1>1. R!Keep /\ {"fallback", "external"} \subseteq R!Steps
    BY DEF R!Primary, R!Steps
  <1>2. CASE R!Go(k, "fallback", <<>>)
    BY <1>1, <1>2, EndsKeep
  <1>3. CASE call[k].first \in R!Callable /\ R!Go(k, "external", <<call[k].first>>)
    <2>1. PICK p \in R!Callable : p = call[k].first
      BY <1>3
    <2>2. p \in Other
      BY DEF R!Callable, R!Usable, R!Name, RTypes
    <2>3. <<p>> \in Seq(Other) /\ <<p>> # <<>> /\ \A i \in 1 .. Len(<<p>>) : <<p>>[i] \in R!Callable
      BY <2>2
    <2>4. R!Go(k, "external", <<p>>)
      BY <1>3, <2>1
    <2> QED
      BY <1>1, <2>3, <2>4, GoingKeeps DEF R!Keep
  <1> QED
    BY <1>2, <1>3 DEF R!Primary

LEMMA ExternalKeeps ==
    ASSUME RTypes, Bound, NEW k \in One, R!External(k)
    PROVE  RTypes' /\ Bound'
  <1>1. call[k] \in RCall /\ call[k].pc = "external" /\ R!Keep /\ R!Go(k, "log", call[k].todo)
    BY DEF R!External, RTypes
  <1>2. PICK todo \in Seq(Other) : todo = call[k].todo
    BY <1>1 DEF RCall
  <1>3. todo # <<>> /\ \A i \in 1 .. Len(todo) : Queued(call[k], todo[i])
    BY <1>1, <1>2 DEF RTypes, Queued
  <1>4. R!Go(k, "log", todo) /\ "log" \in R!Steps
    BY <1>1, <1>2 DEF R!Steps
  <1> QED
    BY <1>1, <1>3, <1>4, GoingKeeps DEF R!Keep

LEMMA ExternalFailsKeeps ==
    ASSUME RTypes, Bound, NEW k \in One, R!ExternalFails(k)
    PROVE  RTypes' /\ Bound'
  <1>1. call[k] \in RCall /\ call[k].pc = "external" /\ R!Keep
    BY DEF R!ExternalFails, RTypes
  <1>2. PICK todo \in Seq(Other) : todo = call[k].todo
    BY <1>1 DEF RCall
  <1>3. \A i \in 1 .. Len(todo) : Queued(call[k], todo[i])
    BY <1>1, <1>2 DEF Queued
  <1>4. CASE Len(todo) > 1
    <2>1. Tail(todo) \in Seq(Other)
      BY <1>4
    <2>2. PICK rest \in Seq(Other) : rest = Tail(todo)
      BY <2>1
    <2>3. rest # <<>> /\ \A i \in 1 .. Len(rest) : rest[i] = todo[i + 1] /\ i + 1 \in 1 .. Len(todo)
      BY <1>4, <2>2
    <2>4. R!Go(k, "external", rest) /\ "external" \in R!Steps
      BY <1>2, <1>4, <2>2 DEF R!ExternalFails, R!Steps
    <2>5. \A i \in 1 .. Len(rest) : Queued(call[k], rest[i])
      BY <1>3, <2>3
    <2> QED
      BY <1>1, <2>3, <2>4, <2>5, GoingKeeps DEF R!Keep
  <1>5. CASE ~(Len(todo) > 1)
    <2>1. PICK pc \in {"failed", "fallback"} : R!Go(k, pc, <<>>)
      BY <1>2, <1>5 DEF R!ExternalFails, R!AfterLast
    <2>2. pc \in R!Steps \ {"external", "log"}
      BY DEF R!Steps
    <2> QED
      BY <1>1, <2>1, <2>2, EndsKeep
  <1> QED
    BY <1>4, <1>5

LEMMA InternalKeeps ==
    ASSUME RTypes, Bound, NEW k \in One, R!InternalFirst(k) \/ R!Fallback(k)
    PROVE  RTypes' /\ Bound'
  <1>1. R!Keep /\ {"answered", "list", "failed"} \subseteq R!Steps \ {"external", "log"}
    BY DEF R!InternalFirst, R!Fallback, R!Steps
  <1>2. PICK pc \in {"answered", "list", "failed"} : R!Go(k, pc, <<>>)
    BY DEF R!InternalFirst, R!Fallback
  <1> QED
    BY <1>1, <1>2, EndsKeep

(* The count: one more call, one question fewer that waits for the provider. *)
LEMMA LogKeeps ==
    ASSUME RTypes, Bound, NEW k \in One, R!Log(k)
    PROVE  RTypes' /\ Bound'
  <1>1. PICK p : p = Head(call[k].todo)
    OBVIOUS
  <1>2. /\ call[k].pc = "log" /\ UNCHANGED <<mode, rreq, changed>> /\ R!Go(k, "answered", <<>>)
        /\ row' = [o \in R!Rows |-> IF R!Name(o) = p /\ row[o].active
                                    THEN [row[o] EXCEPT !.usage = @ + 1] ELSE row[o]]
    BY <1>1, Zenon DEF R!Log
  <1>3. /\ R!Rows' = R!Rows /\ row' \in [R!Rows -> RRow]
        /\ \A o \in R!Rows : row'[o].limit = row[o].limit
        /\ \A o \in R!Rows : /\ row'[o].usage = row[o].usage \/ R!Name(o) = p
                             /\ row'[o].usage <= row[o].usage + 1
    <2>1. R!Rows' = R!Rows
      BY <1>2 DEF R!Rows
    <2>2. ASSUME NEW o \in R!Rows
          PROVE  /\ row'[o] \in RRow /\ row'[o].limit = row[o].limit
                 /\ row'[o].usage = row[o].usage \/ R!Name(o) = p
                 /\ row'[o].usage <= row[o].usage + 1
      <3>1. PICK x \in RRow : x = row[o]
        BY DEF RTypes
      <3>2. x.usage \in Nat /\ [x EXCEPT !.usage = @ + 1] \in RRow
        BY DEF RRow
      <3>3. row'[o] = IF R!Name(o) = p /\ row[o].active THEN [x EXCEPT !.usage = @ + 1] ELSE x
        BY <1>2, <3>1
      <3> QED
        BY <3>1, <3>2, <3>3 DEF RRow
    <2> QED
      BY <1>2, <2>1, <2>2
  <1>4. call[k] \in RCall /\ call[k].todo # <<>>
    BY <1>2 DEF RTypes
  <1>5. 1 \in 1 .. Len(call[k].todo) /\ call[k].todo[1] = p
    BY <1>1, <1>4 DEF RCall
  <1>6. Queued(call[k], p)
    BY <1>2, <1>5 DEF Queued
  <1>7. "answered" \in R!Steps /\ <<>> \in Seq(Other)
    BY DEF R!Steps
  <1>8. PICK todo \in Seq(Other) : todo = <<>>
    BY <1>7
  <1>9. R!Go(k, "answered", todo)
    BY <1>2, <1>8
  <1>10. PICK r \in RCall : call' = [call EXCEPT ![k] = r] /\ r.pc = "answered"
    BY <1>7, <1>9, GoesTo
  <1>11. call' \in [One -> RCall] /\ call'[k] = r /\ \A j \in One \ {k} : call'[j] = call[j]
    BY <1>10 DEF RTypes
  <1>12. RTypes'
    BY <1>2, <1>3, <1>10, <1>11 DEF RTypes
  <1>13. SUFFICES ASSUME NEW o \in R!Rows, Sole(o), NEW name, name = R!Name(o)
                  PROVE  row'[o].usage + Cardinality(Waiting(name)') < row[o].limit + Cardinality(One)
    BY <1>2, <1>3, <1>12 DEF Bound, Sole, R!Name, R!Named
  <1>14. /\ row[o].limit \in Nat /\ row[o].usage \in Nat /\ row'[o].usage \in Nat
         /\ Cardinality(One) \in Nat
    BY <1>3, LimitsAssumption, FiniteAssumption, FS_CardinalityType DEF RTypes, RRow
  <1>15. row[o].usage + Cardinality(Waiting(name)) < row[o].limit + Cardinality(One)
    BY <1>13 DEF Bound
  <1>16. Waiting(name)' = Waiting(name) \ {k}
    BY <1>10, <1>11 DEF Waiting, Queued
  <1>17. /\ IsFiniteSet(Waiting(name)) /\ Cardinality(Waiting(name)) \in Nat
         /\ Cardinality(Waiting(name) \ {k}) =
               IF k \in Waiting(name) THEN Cardinality(Waiting(name)) - 1 ELSE Cardinality(Waiting(name))
    BY WaitingIsFinite, FS_RemoveElement
  <1>18. name = p => k \in Waiting(name)
    BY <1>6 DEF Waiting
  <1>19. \/ row'[o].usage = row[o].usage
         \/ row'[o].usage <= row[o].usage + 1 /\ k \in Waiting(name)
    BY <1>3, <1>13, <1>18
  <1>20. \/ /\ row'[o].usage = row[o].usage
            /\ Cardinality(Waiting(name)') <= Cardinality(Waiting(name))
         \/ /\ row'[o].usage <= row[o].usage + 1
            /\ Cardinality(Waiting(name)') = Cardinality(Waiting(name)) - 1
    BY <1>16, <1>17, <1>19
  <1>21. Cardinality(Waiting(name)') \in Int
    BY <1>16, <1>17
  <1>22. PICK u, v, c, d, l, n : /\ u = row[o].usage /\ v = row'[o].usage
                                 /\ c = Cardinality(Waiting(name)) /\ d = Cardinality(Waiting(name)')
                                 /\ l = row[o].limit /\ n = Cardinality(One)
    OBVIOUS
  <1>23. /\ row[o].usage \in Int /\ row'[o].usage \in Int /\ row[o].limit \in Int
        /\ Cardinality(Waiting(name)) \in Int /\ Cardinality(One) \in Int
    BY <1>14, <1>17
  <1>24. u \in Int /\ v \in Int /\ c \in Int /\ d \in Int /\ l \in Int /\ n \in Int
    BY <1>23, <1>21, <1>22, Zenon
  <1>25. /\ u + c < l + n
         /\ (v = u /\ d <= c) \/ (v <= u + 1 /\ d = c - 1)
    BY <1>15, <1>20, <1>22, Zenon
  <1>26. v + d < l + n
    BY <1>24, <1>25
  <1> QED
    BY <1>22, <1>26, Zenon

(* What the administrators do.                                               *)
LEMMA RowsKeep ==
    ASSUME RTypes, Bound, UNCHANGED <<mode, call>>, rreq' \in [Worker -> RReq],
           R!Rows' \subseteq Other \X Worker, row' \in [R!Rows' -> RRow],
           \A r \in R!Rows' : Sole(r)' =>
              \/ row'[r].usage = 0
              \/ Sole(r) /\ row'[r].usage = row[r].usage /\ row'[r].limit = row[r].limit
    PROVE  RTypes' /\ Bound'
  <1>1. RTypes'
    BY DEF RTypes
  <1>2. SUFFICES ASSUME NEW r \in R!Rows', Sole(r)', NEW p, p = R!Name(r)
                 PROVE  row'[r].usage + Cardinality(Waiting(p)) < row'[r].limit + Cardinality(One)
    BY <1>1 DEF Bound, Waiting, R!Name
  <1>3. /\ row'[r].limit \in Nat /\ row'[r].limit > 0
        /\ Cardinality(Waiting(p)) \in Nat /\ Cardinality(One) \in Nat
        /\ Cardinality(Waiting(p)) <= Cardinality(One)
    BY <1>2, LimitsAssumption, WaitingIsFinite DEF Sole, RRow
  <1>4. CASE row'[r].usage = 0
    BY <1>3, <1>4
  <1>5. CASE Sole(r) /\ row'[r].usage = row[r].usage /\ row'[r].limit = row[r].limit
    BY <1>2, <1>5 DEF Bound, Sole
  <1> QED
    BY <1>2, <1>4, <1>5

LEMMA CreateWriteKeeps ==
    ASSUME RTypes, Bound, NEW w \in Worker, NEW active \in BOOLEAN, NEW limit \in Limits,
           R!CreateWrite(w, active, limit)
    PROVE  RTypes' /\ Bound'
  <1>1. rreq[w] \in RReq /\ rreq[w].pc = "create"
    BY DEF RTypes, R!CreateWrite
  <1>2. PICK p \in Other : p = rreq[w].name
    BY <1>1 DEF RReq
  <1>3. PICK new, n : /\ new = <<p, w>>
                      /\ n = [active |-> active, usage |-> 0, limit |-> limit]
    OBVIOUS
  <1>4. /\ row' = [r \in R!Rows \cup {new} |-> IF r \in R!Rows THEN row[r] ELSE n]
        /\ UNCHANGED <<mode, call, changed>> /\ rreq' = [rreq EXCEPT ![w] = R!Idle]
    BY <1>2, <1>3 DEF R!CreateWrite
  <1>5. n \in RRow /\ n.usage = 0 /\ new \in Other \X Worker /\ R!Idle \in RReq
    BY <1>3 DEF RRow, RReq, R!Idle
  <1>6. R!Rows' = R!Rows \cup {new}
    BY <1>4 DEF R!Rows
  <1>7. /\ row' \in [R!Rows' -> RRow] /\ R!Rows' \subseteq Other \X Worker
        /\ rreq' \in [Worker -> RReq]
    BY <1>4, <1>5, <1>6 DEF RTypes
  <1>8. \A r \in R!Rows' : IF r \in R!Rows THEN row'[r] = row[r] ELSE row'[r].usage = 0
    BY <1>4, <1>5, <1>6
  <1>9. \A r \in R!Rows : Sole(r)' => Sole(r)
    BY <1>4, <1>6, <1>8 DEF Sole, R!Named, R!Name
  <1> QED
    BY <1>4, <1>7, <1>8, <1>9, RowsKeep

LEMMA UpdateStatusKeeps ==
    ASSUME RTypes, Bound, NEW p \in Other, NEW active \in BOOLEAN, R!UpdateStatus(p, active)
    PROVE  RTypes' /\ Bound'
  <1>1. /\ row' = [r \in R!Rows |-> IF R!Name(r) = p THEN [row[r] EXCEPT !.active = active] ELSE row[r]]
        /\ UNCHANGED <<mode, call, rreq, changed>>
    BY DEF R!UpdateStatus
  <1>2. /\ R!Rows' = R!Rows /\ row' \in [R!Rows' -> RRow]
        /\ \A r \in R!Rows : row'[r].usage = row[r].usage /\ row'[r].limit = row[r].limit
    BY <1>1 DEF RTypes, R!Rows, RRow
  <1>3. R!Rows' \subseteq Other \X Worker /\ rreq' \in [Worker -> RReq]
    BY <1>1, <1>2 DEF RTypes
  <1>4. \A r \in R!Rows : Sole(r)' => Sole(r)
    BY <1>1, <1>2 DEF Sole, R!Named, R!Name
  <1> QED
    BY <1>1, <1>2, <1>3, <1>4, RowsKeep

LEMMA UpdateLimitKeeps ==
    ASSUME RTypes, Bound, NEW p \in Other, NEW limit \in Limits, R!UpdateLimit(p, limit)
    PROVE  RTypes' /\ Bound'
  <1>1. /\ row' = [r \in R!Rows |-> IF R!Name(r) = p THEN [row[r] EXCEPT !.limit = limit] ELSE row[r]]
        /\ changed' = changed \cup {p} /\ UNCHANGED <<mode, call, rreq>>
    BY DEF R!UpdateLimit
  <1>2. /\ R!Rows' = R!Rows /\ row' \in [R!Rows' -> RRow]
        /\ \A r \in R!Rows : R!Name(r) # p => row'[r] = row[r]
    BY <1>1 DEF RTypes, R!Rows, RRow
  <1>3. R!Rows' \subseteq Other \X Worker /\ rreq' \in [Worker -> RReq]
    BY <1>1, <1>2 DEF RTypes
  <1>4. \A r \in R!Rows : Sole(r)' => Sole(r) /\ R!Name(r) # p
    BY <1>1, <1>2 DEF Sole, R!Named, R!Name
  <1> QED
    BY <1>1, <1>2, <1>3, <1>4, RowsKeep

LEMMA DeleteProviderKeeps ==
    ASSUME RTypes, Bound, NEW p \in Other, R!DeleteProvider(p)
    PROVE  RTypes' /\ Bound'
  <1>1. /\ row' = [r \in R!Rows \ R!Named(p) |-> row[r]] /\ changed' = changed \ {p}
        /\ UNCHANGED <<mode, call, rreq>>
    BY DEF R!DeleteProvider
  <1>2. R!Rows' = R!Rows \ R!Named(p) /\ R!Rows' = {r \in R!Rows : R!Name(r) # p}
    BY <1>1 DEF R!Rows, R!Named
  <1>3. /\ row' \in [R!Rows' -> RRow]
        /\ \A r \in R!Rows' : row'[r] = row[r]
    BY <1>1, <1>2 DEF RTypes
  <1>4. R!Rows' \subseteq Other \X Worker /\ rreq' \in [Worker -> RReq]
    BY <1>1, <1>2 DEF RTypes
  <1>5. \A r \in R!Rows' : Sole(r)' => Sole(r)
    BY <1>1, <1>2, <1>3 DEF Sole, R!Named, R!Name
  <1> QED
    BY <1>1, <1>3, <1>4, <1>5, RowsKeep

LEMMA ModeKeeps ==
    ASSUME RTypes, Bound, UNCHANGED <<row, call, changed>>,
           mode' \in Other \cup {R!Internal}, rreq' \in [Worker -> RReq]
    PROVE  RTypes' /\ Bound'
  <1>1. RTypes'
    BY DEF RTypes, R!Rows
  <1>2. Bound'
    BY DEF Bound, Sole, Waiting, R!Rows, R!Named, R!Name
  <1> QED
    BY <1>1, <1>2

LEMMA CreateCheckKeeps ==
    ASSUME RTypes, Bound, NEW w \in Worker, NEW p \in Other, R!CreateCheck(w, p)
    PROVE  RTypes' /\ Bound'
  <1>1. [pc |-> "create", name |-> p] \in RReq
    BY DEF RReq
  <1>2. rreq' \in [Worker -> RReq] /\ UNCHANGED <<row, mode, call, changed>>
    BY <1>1 DEF RTypes, R!CreateCheck
  <1> QED
    BY <1>2, ModeKeeps DEF RTypes

LEMMA SetModeCheckKeeps ==
    ASSUME RTypes, Bound, NEW w \in Worker, NEW m \in Other \cup {R!Internal}, R!SetModeCheck(w, m)
    PROVE  RTypes' /\ Bound'
  <1>1. [pc |-> "mode", mode |-> m] \in RReq
    BY DEF RReq
  <1>2. rreq' \in [Worker -> RReq] /\ UNCHANGED <<row, mode, call, changed>>
    BY <1>1 DEF RTypes, R!SetModeCheck
  <1> QED
    BY <1>2, ModeKeeps DEF RTypes

LEMMA SetModeWriteKeeps ==
    ASSUME RTypes, Bound, NEW w \in Worker, R!SetModeWrite(w)
    PROVE  RTypes' /\ Bound'
  <1>1. R!Idle \in RReq
    BY DEF RReq, R!Idle
  <1>2. rreq' \in [Worker -> RReq] /\ UNCHANGED <<row, call, changed>>
    BY <1>1 DEF RTypes, R!SetModeWrite
  <1>3. mode' \in Other \cup {R!Internal}
    BY DEF RTypes, RReq, R!SetModeWrite
  <1> QED
    BY <1>2, <1>3, ModeKeeps

(* Every step of AIRouter keeps the bound.                                   *)
LEMMA RouterStep ==
    ASSUME RTypes, Bound, [R!Next]_(R!vars)
    PROVE  RTypes' /\ Bound'
  <1>1. CASE \E k \in One : \/ R!Begin(k) \/ R!InternalFirst(k) \/ R!List(k) \/ R!Primary(k)
                            \/ R!External(k) \/ R!ExternalFails(k) \/ R!Log(k) \/ R!Fallback(k)
                            \/ R!Return(k)
    BY <1>1, BeginKeeps, InternalKeeps, ListKeeps, PrimaryKeeps, ExternalKeeps, ExternalFailsKeeps,
       LogKeeps, ReturnKeeps
  <1>2. CASE \E p \in Other :
                \/ \E active \in BOOLEAN : R!UpdateStatus(p, active)
                \/ \E limit \in Limits : R!UpdateLimit(p, limit)
                \/ R!DeleteProvider(p)
    BY <1>2, UpdateStatusKeeps, UpdateLimitKeeps, DeleteProviderKeeps
  <1>3. CASE \E w \in Worker :
                \/ \E p \in Other : R!CreateCheck(w, p)
                \/ \E active \in BOOLEAN, limit \in Limits : R!CreateWrite(w, active, limit)
                \/ \E m \in Other \cup {R!Internal} : R!SetModeCheck(w, m)
                \/ R!SetModeWrite(w)
    BY <1>3, CreateCheckKeeps, CreateWriteKeeps, SetModeWriteKeeps, SetModeCheckKeeps
  <1>4. CASE UNCHANGED R!vars
    BY <1>4 DEF R!vars, RTypes, Bound, Sole, Waiting, R!Rows, R!Named, R!Name
  <1> QED
    BY <1>1, <1>2, <1>3, <1>4 DEF R!Next

(* However many questions are answered at a time, a usage limit is overrun   *)
(* by no more of them than there are.                                        *)
THEOREM OverrunStaysBounded == R!Spec => []OverrunIsBounded
  <1> DEFINE Inv == RTypes /\ Bound
  <1>1. R!Init => Inv
    BY RouterInit
  <1>2. Inv /\ [R!Next]_(R!vars) => Inv'
    BY RouterStep
  <1>3. Inv => OverrunIsBounded
    <2> SUFFICES ASSUME Inv, NEW r \in R!Rows, Sole(r)
                 PROVE  row[r].usage < row[r].limit + Cardinality(One)
      BY RouterCardinality DEF OverrunIsBounded, R!OverrunIsBounded, Sole
    <2>1. row[r].usage + Cardinality(Waiting(R!Name(r))) < row[r].limit + Cardinality(One)
      BY DEF Bound
    <2>2. /\ row[r].limit \in Nat /\ row[r].usage \in Nat /\ Cardinality(Waiting(R!Name(r))) \in Nat
          /\ Cardinality(One) \in Nat
      BY LimitsAssumption, WaitingIsFinite DEF RTypes, RRow
    <2> QED
      BY <2>1, <2>2
  <1> QED
    BY <1>1, <1>2, <1>3, PTL DEF R!Spec

-----------------------------------------------------------------------------
(* Conversations *)

Formed(r) ==
    /\ r.pc \in {"count", "insert"} => r.session \in Session /\ r.role \in C!Turn
    /\ r.pc = "insert" => r.counted \in Nat

CTypes ==
    /\ turns \in [Session -> Seq(C!Turn)]
    /\ DOMAIN creq = Other /\ \A w \in Other : Formed(creq[w])
    /\ DOMAIN stream = Stream
    /\ \A x \in Stream : stream[x].pc # "idle" => stream[x].session \in Session

(* A worker that has found room in the session, and has not used it yet.     *)
Coming(r, s) == r.pc = "insert" /\ r.session = s /\ r.counted < MAX_TURNS_PER_SESSION
Storing(s) == {w \in Other : Coming(creq[w], s)}
Capped ==
    \A s \in Session :
        Len(turns[s]) + Cardinality(Storing(s)) < MAX_TURNS_PER_SESSION + Cardinality(Other)

(* The workers that store a turn can be counted.                             *)
LEMMA StoringIsFinite ==
    ASSUME NEW S, S \subseteq Other
    PROVE  /\ IsFiniteSet(S) /\ Cardinality(S) \in Nat /\ Cardinality(Other) \in Nat
           /\ Cardinality(S) <= Cardinality(Other)
  BY FiniteAssumption, FS_Subset, FS_CardinalityType

(* Conversations counts with an instance of FiniteSets of its own.           *)
LEMMA ConversationsCardinality == \A S : C!Cardinality(S) = Cardinality(S)
  BY Zenon DEF C!Cardinality, Cardinality

(* The invariants hold when the program starts.                              *)
LEMMA ConversationsInit == C!Init => CTypes /\ Capped
  <1> SUFFICES ASSUME C!Init PROVE CTypes /\ Capped
    OBVIOUS
  <1>1. /\ turns = [s \in Session |-> <<>>]
        /\ creq = [w \in Other |-> C!Nothing] /\ stream = [x \in Stream |-> C!Nothing]
    BY DEF C!Init
  <1>2. CTypes
    BY <1>1 DEF CTypes, Formed, C!Nothing
  <1>3. ASSUME NEW s \in Session
        PROVE  Len(turns[s]) + Cardinality(Storing(s)) < MAX_TURNS_PER_SESSION + Cardinality(Other)
    <2>1. Storing(s) = {}
      BY <1>1 DEF Storing, Coming, C!Nothing
    <2>2. Cardinality(Storing(s)) = 0 /\ Len(turns[s]) = 0 /\ Cardinality(Other) \in Nat
      BY <1>1, <2>1, FS_EmptySet, FiniteAssumption, FS_CardinalityType
    <2> QED
      BY <2>2, TurnsAssumption
  <1> QED
    BY <1>2, <1>3 DEF Capped

(* A worker goes on to something that stores no turn yet.                    *)
LEMMA WorkerKeeps ==
    ASSUME CTypes, Capped, NEW w \in Other, NEW r, Formed(r), creq' = [creq EXCEPT ![w] = r],
           UNCHANGED turns, DOMAIN stream' = Stream,
           \A x \in Stream : stream'[x].pc # "idle" => stream'[x].session \in Session,
           r.pc = "insert" => r.counted = Len(turns[r.session])
    PROVE  CTypes' /\ Capped'
  <1>1. DOMAIN creq' = Other /\ creq'[w] = r /\ \A v \in Other \ {w} : creq'[v] = creq[v]
    BY DEF CTypes
  <1>2. \A v \in Other : Formed(creq'[v])
    BY <1>1 DEF CTypes
  <1>3. CTypes'
    BY <1>1, <1>2 DEF CTypes, Formed
  <1>4. SUFFICES ASSUME NEW s \in Session
                 PROVE  Len(turns[s]) + Cardinality(Storing(s)') < MAX_TURNS_PER_SESSION + Cardinality(Other)
    BY <1>3 DEF Capped
  <1>5. PICK now, next \in SUBSET Other : now = Storing(s) /\ next = Storing(s)'
    BY DEF Storing
  <1>6. Len(turns[s]) \in Nat
    BY DEF CTypes
  <1>7. CASE Coming(r, s)
    <2>1. Len(turns[s]) < MAX_TURNS_PER_SESSION
      BY <1>7 DEF Coming
    <2>2. /\ Cardinality(next) \in Nat /\ Cardinality(Other) \in Nat
          /\ Cardinality(next) <= Cardinality(Other)
      BY StoringIsFinite
    <2>3. Len(turns[s]) + Cardinality(next) < MAX_TURNS_PER_SESSION + Cardinality(Other)
      BY <1>6, <2>1, <2>2, TurnsAssumption
    <2> QED
      BY <1>5, <2>3, Zenon
  <1>8. CASE ~Coming(r, s)
    <2>1. next \subseteq now
      BY <1>1, <1>5, <1>8 DEF Storing, Coming
    <2>2. /\ Cardinality(next) \in Nat /\ Cardinality(now) \in Nat /\ Cardinality(Other) \in Nat
          /\ Cardinality(next) <= Cardinality(now)
      BY <2>1, StoringIsFinite, FS_Subset
    <2>3. Len(turns[s]) + Cardinality(now) < MAX_TURNS_PER_SESSION + Cardinality(Other)
      BY <1>5 DEF Capped
    <2>4. Len(turns[s]) + Cardinality(next) < MAX_TURNS_PER_SESSION + Cardinality(Other)
      BY <1>6, <2>2, <2>3, TurnsAssumption
    <2> QED
      BY <1>5, <2>4, Zenon
  <1> QED
    BY <1>7, <1>8

LEMMA CheckedKeeps ==
    ASSUME CTypes, Capped, NEW w \in Other, NEW u, NEW s, NEW streamed, C!Checked(w, u, s, streamed)
    PROVE  CTypes' /\ Capped'
  <1>1. PICK r : r = [pc |-> "open", user |-> u, session |-> s, streamed |-> streamed]
    OBVIOUS
  <1>2. Formed(r) /\ r.pc # "insert"
    BY <1>1 DEF Formed
  <1>3. creq' = [creq EXCEPT ![w] = r] /\ UNCHANGED <<turns, stream>>
    BY <1>1 DEF C!Checked
  <1> QED
    BY <1>2, <1>3, WorkerKeeps DEF CTypes

LEMMA OpenKeeps ==
    ASSUME CTypes, Capped, NEW w \in Other, C!Open(w)
    PROVE  CTypes' /\ Capped'
  <1>1. PICK s \in Session : creq' = [creq EXCEPT ![w] = [pc |-> "count", session |-> s,
                                        streamed |-> creq[w].streamed, role |-> "user"]]
    BY DEF C!Open
  <1>2. PICK r : r = [pc |-> "count", session |-> s, streamed |-> creq[w].streamed, role |-> "user"]
    OBVIOUS
  <1>3. Formed(r) /\ r.pc # "insert"
    BY <1>2 DEF Formed, C!Turn
  <1>4. creq' = [creq EXCEPT ![w] = r] /\ UNCHANGED <<turns, stream>>
    BY <1>1, <1>2 DEF C!Open
  <1> QED
    BY <1>3, <1>4, WorkerKeeps DEF CTypes

LEMMA UnansweredKeeps ==
    ASSUME CTypes, Capped, NEW w \in Other, C!Unanswered(w)
    PROVE  CTypes' /\ Capped'
  <1>1. creq' = [creq EXCEPT ![w] = C!Nothing] /\ UNCHANGED <<turns, stream>>
    BY DEF C!Unanswered
  <1>2. Formed(C!Nothing) /\ C!Nothing.pc # "insert"
    BY DEF C!Nothing, Formed
  <1> QED
    BY <1>1, <1>2, WorkerKeeps DEF CTypes

LEMMA CountTurnsKeeps ==
    ASSUME CTypes, Capped, NEW w \in Other, C!CountTurns(w)
    PROVE  CTypes' /\ Capped'
  <1>1. creq[w].session \in Session /\ creq[w].role \in C!Turn
    BY DEF CTypes, Formed, C!CountTurns
  <1>2. PICK r : r = [pc |-> "insert", session |-> creq[w].session, streamed |-> creq[w].streamed,
                      role |-> creq[w].role, counted |-> Len(turns[creq[w].session])]
    OBVIOUS
  <1>3. Len(turns[creq[w].session]) \in Nat
    BY <1>1 DEF CTypes
  <1>4. Formed(r) /\ r.counted = Len(turns[r.session])
    BY <1>1, <1>2, <1>3 DEF Formed
  <1>5. creq' = [creq EXCEPT ![w] = r] /\ UNCHANGED <<turns, stream>>
    BY <1>2 DEF C!CountTurns, CTypes
  <1> QED
    BY <1>4, <1>5, WorkerKeeps DEF CTypes

LEMMA StreamEndsKeeps ==
    ASSUME CTypes, Capped, NEW w \in Other, NEW x \in Stream, C!StreamEnds(w, x) \/ C!StreamFails(w, x)
    PROVE  CTypes' /\ Capped'
  <1>1. PICK r : r = [pc |-> "count", session |-> stream[x].session, streamed |-> TRUE,
                      role |-> "assistant"]
    OBVIOUS
  <1>2. stream[x].session \in Session
    BY DEF CTypes, C!StreamEnds, C!StreamFails
  <1>3. Formed(r) /\ r.pc # "insert"
    BY <1>1, <1>2 DEF Formed, C!Turn
  <1>4. /\ creq' = [creq EXCEPT ![w] = r] /\ UNCHANGED turns
        /\ \/ stream' = [stream EXCEPT ![x].pc = "sent"]
           \/ stream' = [stream EXCEPT ![x] = C!Nothing]
    BY <1>1 DEF C!StreamEnds, C!StreamFails, C!Stores
  <1>5. /\ DOMAIN stream' = Stream
        /\ \A y \in Stream : stream'[y].pc # "idle" => stream'[y].session \in Session
    <2>1. CASE stream' = [stream EXCEPT ![x] = C!Nothing]
      BY <2>1 DEF CTypes, C!Nothing
    <2>2. CASE stream' = [stream EXCEPT ![x].pc = "sent"]
      <3>1. /\ DOMAIN stream' = Stream /\ stream'[x] = [stream[x] EXCEPT !.pc = "sent"]
            /\ \A y \in Stream \ {x} : stream'[y] = stream[y]
        BY <2>2 DEF CTypes
      <3>2. stream'[x].session = stream[x].session
        BY <3>1
      <3> QED
        BY <1>2, <3>1, <3>2 DEF CTypes
    <2> QED
      BY <1>4, <2>1, <2>2
  <1> QED
    BY <1>3, <1>4, <1>5, WorkerKeeps

LEMMA StreamBreaksKeeps ==
    ASSUME CTypes, Capped, NEW x \in Stream, C!StreamBreaks(x)
    PROVE  CTypes' /\ Capped'
  <1>1. stream' = [stream EXCEPT ![x] = C!Nothing] /\ UNCHANGED <<turns, creq>>
    BY DEF C!StreamBreaks
  <1>2. /\ DOMAIN stream' = Stream
        /\ \A y \in Stream : stream'[y].pc # "idle" => stream'[y].session \in Session
    BY <1>1 DEF CTypes, C!Nothing
  <1>3. CTypes'
    BY <1>1, <1>2 DEF CTypes, Formed
  <1>4. Capped'
    BY <1>1 DEF Capped, Storing
  <1> QED
    BY <1>3, <1>4

LEMMA EraseKeeps ==
    ASSUME CTypes, Capped, NEW S, C!Erase(S)
    PROVE  CTypes' /\ Capped'
  <1>1. UNCHANGED <<creq, stream>> /\ turns' = [s \in Session |-> IF s \in S THEN <<>> ELSE turns[s]]
    BY DEF C!Erase, C!Emptied
  <1>2. turns' \in [Session -> Seq(C!Turn)] /\ \A s \in Session : Len(turns'[s]) <= Len(turns[s])
    BY <1>1 DEF CTypes
  <1>3. CTypes'
    BY <1>1, <1>2 DEF CTypes, Formed
  <1>4. \A s \in Session : Storing(s)' = Storing(s)
    BY <1>1 DEF Storing
  <1>5. SUFFICES ASSUME NEW s \in Session
                 PROVE  Len(turns'[s]) + Cardinality(Storing(s)) < MAX_TURNS_PER_SESSION + Cardinality(Other)
    BY <1>3, <1>4 DEF Capped
  <1>6. PICK now \in SUBSET Other : now = Storing(s)
    BY DEF Storing
  <1>7. /\ Cardinality(now) \in Nat /\ Cardinality(Other) \in Nat
        /\ Len(turns[s]) \in Nat /\ Len(turns'[s]) \in Nat
    BY <1>2, StoringIsFinite DEF CTypes
  <1>8. Len(turns[s]) + Cardinality(now) < MAX_TURNS_PER_SESSION + Cardinality(Other)
    BY <1>6 DEF Capped
  <1>9. Len(turns'[s]) + Cardinality(now) < MAX_TURNS_PER_SESSION + Cardinality(Other)
    BY <1>2, <1>7, <1>8, TurnsAssumption
  <1> QED
    BY <1>6, <1>9, Zenon

(* Room is made for the turn that is stored when the count found none.       *)
LEMMA AddedLength ==
    ASSUME NEW ts \in Seq(C!Turn), NEW counted \in Nat, NEW t \in C!Turn
    PROVE  /\ C!Added(ts, counted, t) \in Seq(C!Turn)
           /\ counted < MAX_TURNS_PER_SESSION => Len(C!Added(ts, counted, t)) = Len(ts) + 1
           /\ counted >= MAX_TURNS_PER_SESSION =>
                 Len(C!Added(ts, counted, t)) <= Len(ts) \/ Len(C!Added(ts, counted, t)) = 1
  <1> DEFINE trim == IF C!Full(counted) THEN counted - C!Kept ELSE 0
             rest == SubSeq(ts, trim + 1, Len(ts))
  <1>1. C!Kept \in Nat /\ C!Kept < MAX_TURNS_PER_SESSION
    BY TurnsAssumption DEF C!Kept
  <1>2. /\ trim \in Nat
        /\ counted < MAX_TURNS_PER_SESSION => trim = 0
        /\ counted >= MAX_TURNS_PER_SESSION => trim > 0
    BY <1>1, TurnsAssumption DEF C!Full
  <1> HIDE DEF trim
  <1>3. /\ rest \in Seq(C!Turn)
        /\ Len(rest) = IF trim < Len(ts) THEN Len(ts) - trim ELSE 0
    BY <1>2
  <1> HIDE DEF rest
  <1>4. C!Added(ts, counted, t) = Append(rest, t)
    BY DEF C!Added, rest, trim
  <1>5. Append(rest, t) \in Seq(C!Turn) /\ Len(Append(rest, t)) = Len(rest) + 1
    BY <1>3
  <1> QED
    BY <1>2, <1>3, <1>4, <1>5

(* add_turn stores its turn, and drops as many of the oldest as it found     *)
(* too many when it counted.                                                 *)
LEMMA InsertTurnKeeps ==
    ASSUME CTypes, Capped, NEW w \in Other, C!InsertTurn(w)
    PROVE  CTypes' /\ Capped'
  <1>1. PICK at, n, t : at = creq[w].session /\ n = creq[w].counted /\ t = creq[w].role
    OBVIOUS
  <1>2. at \in Session /\ n \in Nat /\ t \in C!Turn /\ creq[w].pc = "insert"
    BY <1>1 DEF CTypes, Formed, C!InsertTurn
  <1>3. PICK new : new = C!Added(turns[at], n, t)
    OBVIOUS
  <1>4. turns' = [turns EXCEPT ![at] = new]
    BY <1>1, <1>3 DEF C!InsertTurn
  <1>5. /\ new \in Seq(C!Turn)
        /\ n < MAX_TURNS_PER_SESSION => Len(new) = Len(turns[at]) + 1
        /\ n >= MAX_TURNS_PER_SESSION => Len(new) <= Len(turns[at]) \/ Len(new) = 1
    BY <1>2, <1>3, AddedLength DEF CTypes
  <1>6. /\ turns' \in [Session -> Seq(C!Turn)] /\ turns'[at] = new
        /\ \A s \in Session \ {at} : turns'[s] = turns[s]
    BY <1>2, <1>4, <1>5 DEF CTypes
  <1>7. PICK r : creq' = [creq EXCEPT ![w] = r] /\ Formed(r) /\ r.pc # "insert"
    <2>1. CASE creq' = [creq EXCEPT ![w] = C!Nothing]
      <3>1. Formed(C!Nothing) /\ C!Nothing.pc # "insert"
        BY DEF C!Nothing, Formed
      <3> QED
        BY <2>1, <3>1
    <2>2. CASE creq' = [creq EXCEPT ![w] = [pc |-> "count", session |-> at, streamed |-> FALSE,
                                            role |-> "assistant"]]
      <3>1. PICK r : r = [pc |-> "count", session |-> at, streamed |-> FALSE, role |-> "assistant"]
        OBVIOUS
      <3>2. Formed(r) /\ r.pc # "insert"
        BY <1>2, <3>1 DEF Formed, C!Turn
      <3> QED
        BY <2>2, <3>1, <3>2
    <2> QED
      BY <1>1, <2>1, <2>2 DEF C!InsertTurn
  <1>8. /\ DOMAIN stream' = Stream
        /\ \A x \in Stream : stream'[x].pc # "idle" => stream'[x].session \in Session
    <2>1. CASE UNCHANGED stream
      BY <2>1 DEF CTypes
    <2>2. ASSUME NEW x \in Stream,
                 stream' = [stream EXCEPT ![x] = [pc |-> "flowing", worker |-> w, session |-> at]]
          PROVE  /\ DOMAIN stream' = Stream
                 /\ \A y \in Stream : stream'[y].pc # "idle" => stream'[y].session \in Session
      <3>1. PICK f : f = [pc |-> "flowing", worker |-> w, session |-> at]
        OBVIOUS
      <3>2. stream' = [stream EXCEPT ![x] = f] /\ f.session \in Session
        BY <1>2, <2>2, <3>1
      <3> QED
        BY <3>2 DEF CTypes
    <2> QED
      BY <1>1, <2>1, <2>2 DEF C!InsertTurn
  <1>9. DOMAIN creq' = Other /\ creq'[w] = r /\ \A v \in Other \ {w} : creq'[v] = creq[v]
    BY <1>7 DEF CTypes
  <1>10. CTypes'
    BY <1>6, <1>7, <1>8, <1>9 DEF CTypes, Formed
  <1>11. SUFFICES ASSUME NEW s \in Session
                  PROVE  Len(turns'[s]) + Cardinality(Storing(s)') < MAX_TURNS_PER_SESSION + Cardinality(Other)
    BY <1>10 DEF Capped
  <1>12. PICK now, next \in SUBSET Other : now = Storing(s) /\ next = Storing(s)'
    BY DEF Storing
  <1>13. next = now \ {w}
    BY <1>7, <1>9, <1>12 DEF Storing, Coming
  <1>14. /\ Cardinality(now) \in Nat /\ Cardinality(next) \in Nat /\ Cardinality(Other) \in Nat
         /\ Cardinality(next) = IF w \in now THEN Cardinality(now) - 1 ELSE Cardinality(now)
    BY <1>13, StoringIsFinite, FS_RemoveElement
  <1>15. Cardinality(next) < Cardinality(Other)
    <2>1. next \subseteq Other \ {w} /\ Other \ {w} \subseteq Other
      BY <1>13
    <2>2. Cardinality(Other \ {w}) = Cardinality(Other) - 1
      BY FiniteAssumption, FS_RemoveElement
    <2>3. Cardinality(next) <= Cardinality(Other \ {w})
      BY <2>1, StoringIsFinite, FS_Subset
    <2> QED
      BY <1>14, <2>2, <2>3
  <1>16. Len(turns[s]) + Cardinality(now) < MAX_TURNS_PER_SESSION + Cardinality(Other)
    BY <1>12 DEF Capped
  <1>17. Len(turns[s]) \in Nat /\ Len(turns'[s]) \in Nat
    BY <1>6 DEF CTypes
  <1>18. s = at /\ n < MAX_TURNS_PER_SESSION => w \in now
    BY <1>1, <1>2, <1>12 DEF Storing, Coming
  <1>19. \/ Len(turns'[s]) <= Len(turns[s])
         \/ Len(turns'[s]) = 1
         \/ Len(turns'[s]) = Len(turns[s]) + 1 /\ w \in now
    BY <1>2, <1>5, <1>6, <1>17, <1>18, TurnsAssumption
  <1>20. Len(turns'[s]) + Cardinality(next) < MAX_TURNS_PER_SESSION + Cardinality(Other)
    <2>1. PICK a, b, c, d, m, k \in Nat :
             /\ a = Len(turns[s]) /\ b = Len(turns'[s]) /\ c = Cardinality(now)
             /\ d = Cardinality(next) /\ m = MAX_TURNS_PER_SESSION /\ k = Cardinality(Other)
      BY <1>14, <1>17, TurnsAssumption
    <2>2. /\ d <= c /\ (w \in now => d = c - 1) /\ d < k /\ a + c < m + k /\ m >= 1
          /\ b <= a \/ b = 1 \/ (b = a + 1 /\ w \in now)
      BY <1>14, <1>15, <1>16, <1>19, <2>1, TurnsAssumption
    <2>3. b + d < m + k
      BY <2>2
    <2> QED
      BY <2>1, <2>3, Zenon
  <1> QED
    BY <1>12, <1>20, Zenon

(* Every step of Conversations keeps the cap.                                *)
LEMMA ConversationsStep ==
    ASSUME CTypes, Capped, [C!Next]_(C!vars)
    PROVE  CTypes' /\ Capped'
  <1>1. CASE \E w \in Other, u \in One :
                \/ \E s \in Session \cup {"new"} : C!Ask(w, u, s) \/ C!AskStreamed(w, u, s)
                \/ \E s \in Session : C!DeleteSession(w, u, s)
                \/ C!EraseUser(w, u)
    BY <1>1, CheckedKeeps, EraseKeeps DEF C!Ask, C!AskStreamed, C!DeleteSession, C!EraseUser
  <1>2. CASE \E w \in Other : \/ C!Open(w) \/ C!Unanswered(w) \/ C!CountTurns(w) \/ C!InsertTurn(w)
                              \/ \E x \in Stream : C!StreamEnds(w, x) \/ C!StreamFails(w, x)
                              \/ \E S \in SUBSET Session : C!Cleanup(w, S)
    BY <1>2, OpenKeeps, UnansweredKeeps, CountTurnsKeeps, InsertTurnKeeps, StreamEndsKeeps, EraseKeeps
    DEF C!Cleanup
  <1>3. CASE \E x \in Stream : C!StreamBreaks(x)
    BY <1>3, StreamBreaksKeeps
  <1>4. CASE UNCHANGED C!vars
    BY <1>4 DEF C!vars, CTypes, Formed, Capped, Storing
  <1> QED
    BY <1>1, <1>2, <1>3, <1>4 DEF C!Next

(* However many workers store turns, a session never holds more than its     *)
(* limit and a turn for each of the other workers.                           *)
THEOREM TurnsStayCapped == C!Spec => []TurnsAreCapped
  <1> DEFINE Inv == CTypes /\ Capped
  <1>1. C!Init => Inv
    BY ConversationsInit
  <1>2. Inv /\ [C!Next]_(C!vars) => Inv'
    BY ConversationsStep
  <1>3. Inv => TurnsAreCapped
    <2> SUFFICES ASSUME Inv, NEW s \in Session
                 PROVE  Len(turns[s]) <= MAX_TURNS_PER_SESSION + Cardinality(Other) - 1
      BY ConversationsCardinality DEF TurnsAreCapped, C!TurnsAreCapped
    <2>1. PICK now \in SUBSET Other : now = Storing(s)
      BY DEF Storing
    <2>2. Len(turns[s]) + Cardinality(now) < MAX_TURNS_PER_SESSION + Cardinality(Other)
      BY <2>1 DEF Capped
    <2>3. Len(turns[s]) \in Nat /\ Cardinality(now) \in Nat /\ Cardinality(Other) \in Nat
      BY StoringIsFinite DEF CTypes
    <2> QED
      BY <2>2, <2>3, TurnsAssumption
  <1> QED
    BY <1>1, <1>2, <1>3, PTL DEF C!Spec

-----------------------------------------------------------------------------
(* RateLimits *)

Young(ages, window) == {i \in DOMAIN ages : ages[i] + 1 < window}

(* The times of one list are the last of another.                            *)
Ends(short, long) ==
    /\ Len(short) <= Len(long)
    /\ \A i \in 1 .. Len(short) : long[Len(long) - Len(short) + i] = short[i]

Logs == [L!Counters -> Seq(Nat)]
LTypes ==
    /\ log \in Logs
    /\ lock \in [Account -> 0 .. ACCOUNT_LOCKOUT_SECONDS]
    /\ wrong \in [Account -> Seq(Nat)]

(* While an account is locked no attempt on it is younger than the lock.  A  *)
(* lock that ends has outlasted them all; what is tried after it either      *)
(* locks at once, or the list of failed logins, not full, holds it.          *)
Failed(a) == log[<<"failed", a>>]
Recent ==
    /\ \A a \in Account : lock[a] > 0 =>
          /\ Len(wrong[a]) <= MAX_FAILED_PER_ACCOUNT
          /\ \A i \in DOMAIN wrong[a] : wrong[a][i] + lock[a] >= ACCOUNT_LOCKOUT_SECONDS
    /\ \A a \in Account : lock[a] = 0 =>
          \/ wrong[a] = <<>>
          \/ Len(Failed(a)) < MAX_FAILED_PER_ACCOUNT /\ Ends(wrong[a], Failed(a))

(* Each instance counts with the same cardinality.                           *)
LEMMA LimitsCardinality == \A S : L!Cardinality(S) = Cardinality(S)
  BY DEF L!Cardinality, Cardinality

(* What is young is finite, and no more than there is.                       *)
LEMMA YoungIsFinite ==
    ASSUME NEW s \in Seq(Nat), NEW w
    PROVE  IsFiniteSet(Young(s, w)) /\ Cardinality(Young(s, w)) \in 0 .. Len(s)
  <1>1. IsFiniteSet(1 .. Len(s)) /\ Cardinality(1 .. Len(s)) = Len(s)
    <2>1. Len(s) \in Nat /\ 1 \in Int
      OBVIOUS
    <2>2. /\ IsFiniteSet(1 .. Len(s))
          /\ Cardinality(1 .. Len(s)) = IF 1 > Len(s) THEN 0 ELSE Len(s) - 1 + 1
      BY <2>1, FS_Interval
    <2> QED
      BY <2>1, <2>2
  <1>2. Young(s, w) \in SUBSET (1 .. Len(s))
    BY DEF Young
  <1> QED
    BY <1>1, <1>2, FS_Subset, FS_CardinalityType

(* Time leaves the young ones, a unit older.                                 *)
LEMMA AgedIs ==
    ASSUME NEW s \in Seq(Nat), NEW w
    PROVE  /\ L!Aged(s, w) \in Seq(Nat)
           /\ Len(L!Aged(s, w)) = Cardinality(Young(s, w))
           /\ \A i \in 1 .. Cardinality(Young(s, w)) :
                 L!Aged(s, w)[i] = s[Len(s) - Cardinality(Young(s, w)) + i] + 1
  <1> DEFINE n == Cardinality(Young(s, w))
  <1>1. n \in 0 .. Len(s)
    BY YoungIsFinite
  <1>2. L!Aged(s, w) = [i \in 1 .. n |-> s[Len(s) - n + i] + 1]
    BY LimitsCardinality DEF L!Aged, Young
  <1> HIDE DEF n
  <1>3. \A i \in 1 .. n : s[Len(s) - n + i] + 1 \in Nat
    BY <1>1
  <1>4. L!Aged(s, w) \in [1 .. n -> Nat]
    BY <1>2, <1>3
  <1> QED
    BY <1>1, <1>2, <1>4 DEF n

(* Two lists of which one ends the other still do after time has passed, if  *)
(* the longer one forgets no sooner.                                         *)
LEMMA AgedEnds ==
    ASSUME NEW s \in Seq(Nat), NEW l \in Seq(Nat), Ends(s, l),
           NEW v \in Nat, NEW w \in Nat, v <= w
    PROVE  Ends(L!Aged(s, v), L!Aged(l, w))
  <1> DEFINE d == Len(l) - Len(s)
             Y == Young(s, v)
             Z == Young(l, w)
             f == [i \in Y |-> d + i]
             m == Cardinality(Y)
             n == Cardinality(Z)
  <1>1. d \in Nat /\ \A i \in 1 .. Len(s) : l[d + i] = s[i]
    BY DEF Ends
  <1>2. Y \subseteq 1 .. Len(s) /\ Z \subseteq 1 .. Len(l)
    BY DEF Young
  <1>3. \A i \in Y : d + i \in Z
    BY <1>1, <1>2 DEF Young
  <1>4. f \in Injection(Y, Z)
    BY <1>1, <1>2, <1>3 DEF Injection, IsInjective
  <1>5. IsFiniteSet(Z) /\ n \in 0 .. Len(l) /\ m \in 0 .. Len(s)
    BY YoungIsFinite
  <1>6. m <= n
    BY <1>4, <1>5, FS_Injection
  <1>7. /\ Len(L!Aged(s, v)) = m /\ Len(L!Aged(l, w)) = n
        /\ \A i \in 1 .. m : L!Aged(s, v)[i] = s[Len(s) - m + i] + 1
        /\ \A i \in 1 .. n : L!Aged(l, w)[i] = l[Len(l) - n + i] + 1
    BY AgedIs
  <1> HIDE DEF m, n, Y, Z, f
  <1>8. ASSUME NEW i \in 1 .. m
        PROVE  L!Aged(l, w)[n - m + i] = L!Aged(s, v)[i]
    <2>1. n - m + i \in 1 .. n /\ Len(s) - m + i \in 1 .. Len(s)
      BY <1>5, <1>6
    <2>2. Len(l) - n + (n - m + i) = d + (Len(s) - m + i)
      BY <1>5
    <2>3. L!Aged(l, w)[n - m + i] = l[d + (Len(s) - m + i)] + 1
      BY <1>7, <2>1, <2>2
    <2> QED
      BY <1>1, <1>7, <2>1, <2>3
  <1> QED
    BY <1>6, <1>7, <1>8 DEF Ends

(* ... and after the same time has been noted in both.                       *)
LEMMA EndsAppend ==
    ASSUME NEW s \in Seq(Nat), NEW l \in Seq(Nat), Ends(s, l), NEW x \in Nat
    PROVE  Ends(Append(s, x), Append(l, x))
  <1> DEFINE m == Len(s)
             n == Len(l)
  <1>1. m \in Nat /\ n \in Nat /\ m <= n
    BY DEF Ends
  <1>2. Len(Append(s, x)) = m + 1 /\ Len(Append(l, x)) = n + 1
    OBVIOUS
  <1>3. ASSUME NEW j \in 1 .. m + 1
        PROVE  Append(l, x)[n - m + j] = Append(s, x)[j]
    <2>1. CASE j = m + 1
      BY <1>1, <2>1
    <2>2. CASE j \in 1 .. m
      <3>1. n - m + j \in 1 .. n
        BY <1>1, <2>2
      <3> QED
        BY <2>2, <3>1 DEF Ends
    <2> QED
      BY <1>1, <2>1, <2>2
  <1> DEFINE sx == Append(s, x)
             lx == Append(l, x)
  <1>4. Len(lx) - Len(sx) = n - m /\ Len(sx) <= Len(lx) /\ 1 .. Len(sx) = 1 .. m + 1
    BY <1>1, <1>2
  <1>5. \A j \in 1 .. m + 1 : lx[n - m + j] = sx[j]
    BY <1>3
  <1> HIDE DEF m, n, sx, lx
  <1>6. Ends(sx, lx)
    BY <1>4, <1>5 DEF Ends
  <1> QED
    BY <1>6 DEF sx, lx

(* A list all of whose times are old is empty a unit later.                  *)
LEMMA AgedOut ==
    ASSUME NEW s \in Seq(Nat), NEW w \in Nat, \A i \in DOMAIN s : s[i] + 1 >= w
    PROVE  L!Aged(s, w) = <<>>
  <1>1. Young(s, w) = {}
    BY DEF Young
  <1>2. Cardinality(Young(s, w)) = 0
    BY <1>1, FS_EmptySet
  <1> QED
    BY <1>2, AgedIs

(* Noting a time touches one counter.                                        *)
LEMMA NotedKeeps ==
    ASSUME NEW l \in Logs, NEW k \in L!Counters
    PROVE  /\ L!Noted(l, k) \in Logs
           /\ L!Noted(l, k)[k] = Append(l[k], 0)
           /\ \A j \in L!Counters : j # k => L!Noted(l, k)[j] = l[j]
  BY DEF Logs, L!Noted

(* The counters by the names they are counted under.                         *)
LEMMA CountersHold ==
    /\ \A i \in One : <<"requests", i>> \in L!Counters /\ <<"logins", i>> \in L!Counters
                      /\ <<"registrations", i>> \in L!Counters
    /\ \A a \in Account : <<"failed", a>> \in L!Counters /\ <<"questions", a>> \in L!Counters
                          /\ <<"uploading", a>> \in L!Counters
    /\ \A t \in {"default"} : <<"queries", t>> \in L!Counters /\ <<"uploads", t>> \in L!Counters
  BY DEF L!Counters

(* A log that differs from the present one in no list of failed logins.      *)
SameFailed(l) == l \in Logs /\ \A a \in Account : l[<<"failed", a>>] = Failed(a)

(* Noting anything but a failed login leaves those lists alone.              *)
LEMMA OthersKeepFailed ==
    ASSUME NEW l, SameFailed(l), NEW k \in L!Counters, k[1] # "failed"
    PROVE  SameFailed(L!Noted(l, k))
  <1>1. \A a : <<"failed", a>>[1] = "failed"
    OBVIOUS
  <1>2. \A a \in Account : <<"failed", a>> \in L!Counters /\ <<"failed", a>> # k
    BY <1>1, CountersHold
  <1> QED
    BY <1>2, NotedKeeps DEF SameFailed

(* A request, and an attempt to log in, are counted elsewhere.               *)
LEMMA CountedKeeps ==
    ASSUME LTypes, NEW i \in One
    PROVE  SameFailed(L!Counted(i)) /\ SameFailed(L!Attempted(i))
  <1>1. SameFailed(log)
    BY DEF SameFailed, LTypes, Failed
  <1>2. SameFailed(L!Counted(i))
    BY <1>1, OthersKeepFailed, CountersHold DEF L!Counted
  <1> QED
    BY <1>2, OthersKeepFailed, CountersHold DEF L!Attempted

(* A step that counts no failed login keeps the invariant.                   *)
LEMMA SameFailedKeeps ==
    ASSUME LTypes, Recent, SameFailed(log'), UNCHANGED <<lock, wrong>>
    PROVE  LTypes' /\ Recent'
  BY DEF LTypes, Recent, SameFailed, Failed

(* No time has been noted yet.                                               *)
LEMMA LimitsInit == L!Init => LTypes /\ Recent
  BY LockoutAssumption, EmptySeq DEF L!Init, LTypes, Logs, Recent

(* Time passes for lists and locks alike.                                    *)
LEMMA TickKeeps ==
    ASSUME LTypes, Recent, L!Tick
    PROVE  LTypes' /\ Recent'
  <1> USE LockoutAssumption
  <1>1. LTypes'
    <2>1. log' \in Logs
      BY AgedIs DEF L!Tick, LTypes, Logs
    <2>2. wrong' \in [Account -> Seq(Nat)]
      BY AgedIs DEF L!Tick, LTypes
    <2>3. lock' \in [Account -> 0 .. ACCOUNT_LOCKOUT_SECONDS]
      BY DEF L!Tick, LTypes
    <2> QED
      BY <2>1, <2>2, <2>3 DEF LTypes
  <1>2. ASSUME NEW a \in Account
        PROVE  /\ lock[a] \in 0 .. ACCOUNT_LOCKOUT_SECONDS
               /\ lock'[a] = IF lock[a] = 0 THEN 0 ELSE lock[a] - 1
               /\ wrong[a] \in Seq(Nat) /\ Failed(a) \in Seq(Nat)
               /\ wrong'[a] = L!Aged(wrong[a], ACCOUNT_LOCKOUT_SECONDS)
               /\ Failed(a)' = L!Aged(Failed(a), FAILED_WINDOW)
    BY CountersHold DEF L!Tick, LTypes, Logs, Failed, L!Window
  <1>3. ASSUME NEW a \in Account, lock'[a] > 0
        PROVE  /\ Len(wrong'[a]) <= MAX_FAILED_PER_ACCOUNT
               /\ \A i \in DOMAIN wrong'[a] : wrong'[a][i] + lock'[a] >= ACCOUNT_LOCKOUT_SECONDS
    <2> DEFINE n == Cardinality(Young(wrong[a], ACCOUNT_LOCKOUT_SECONDS))
    <2>1. lock[a] > 0 /\ lock'[a] = lock[a] - 1
      BY <1>2, <1>3
    <2>2. /\ Len(wrong[a]) <= MAX_FAILED_PER_ACCOUNT
          /\ \A i \in DOMAIN wrong[a] : wrong[a][i] + lock[a] >= ACCOUNT_LOCKOUT_SECONDS
      BY <2>1 DEF Recent
    <2>3. n \in 0 .. Len(wrong[a])
      BY <1>2, YoungIsFinite
    <2>4. /\ wrong'[a] \in Seq(Nat) /\ Len(wrong'[a]) = n
          /\ \A i \in 1 .. n : wrong'[a][i] = wrong[a][Len(wrong[a]) - n + i] + 1
      BY <1>2, AgedIs
    <2> HIDE DEF n
    <2>5. ASSUME NEW i \in 1 .. n
          PROVE  wrong'[a][i] + lock'[a] >= ACCOUNT_LOCKOUT_SECONDS
      <3>1. Len(wrong[a]) - n + i \in DOMAIN wrong[a]
        BY <1>2, <2>3
      <3>2. wrong[a][Len(wrong[a]) - n + i] + lock[a] >= ACCOUNT_LOCKOUT_SECONDS
        BY <2>2, <3>1
      <3>3. wrong[a][Len(wrong[a]) - n + i] \in Nat
        BY <1>2, <3>1
      <3> QED
        BY <1>2, <2>1, <2>4, <3>2, <3>3
    <2> QED
      BY <1>2, <2>2, <2>3, <2>4, <2>5
  <1>4. ASSUME NEW a \in Account, lock'[a] = 0
        PROVE  \/ wrong'[a] = <<>>
               \/ Len(Failed(a)') < MAX_FAILED_PER_ACCOUNT /\ Ends(wrong'[a], Failed(a)')
    <2>1. CASE lock[a] > 0
      <3>1. lock[a] = 1
        BY <1>2, <1>4, <2>1
      <3>2. \A i \in DOMAIN wrong[a] : wrong[a][i] + 1 >= ACCOUNT_LOCKOUT_SECONDS
        BY <2>1, <3>1 DEF Recent
      <3> QED
        BY <1>2, <3>2, AgedOut
    <2>2. CASE lock[a] = 0 /\ wrong[a] = <<>>
      BY <1>2, <2>2, AgedOut
    <2>3. CASE lock[a] = 0 /\ Len(Failed(a)) < MAX_FAILED_PER_ACCOUNT /\ Ends(wrong[a], Failed(a))
      <3>1. Ends(wrong'[a], Failed(a)')
        BY <1>2, <2>3, AgedEnds
      <3>2. Len(Failed(a)') <= Len(Failed(a))
        BY <1>2, AgedIs, YoungIsFinite
      <3>3. Len(Failed(a)') \in Nat /\ Len(Failed(a)) \in Nat
        BY <1>2, AgedIs
      <3> QED
        BY <2>3, <3>1, <3>2, <3>3
    <2> QED
      BY <1>2, <2>1, <2>2, <2>3 DEF Recent
  <1> QED
    BY <1>1, <1>3, <1>4 DEF Recent

(* A wrong password fills the list or finds room in it.                      *)
LEMMA LoginWrongKeeps ==
    ASSUME LTypes, Recent, NEW i \in One, NEW b \in Account, L!LoginWrong(i, b)
    PROVE  LTypes' /\ Recent'
  <1> USE LockoutAssumption
  <1> DEFINE k == <<"failed", b>>
             MM == MAX_FAILED_PER_ACCOUNT
  <1>1. lock[b] = 0
    BY DEF L!LoginWrong, L!Locked, LTypes
  <1>2. SameFailed(L!Attempted(i)) /\ k \in L!Counters
    BY CountedKeeps, CountersHold
  <1>3. log' = L!Noted(L!Attempted(i), k)
    BY DEF L!LoginWrong, L!RecordFailed
  <1>4. /\ log' \in Logs
        /\ Failed(b)' = Append(Failed(b), 0)
        /\ \A a \in Account \ {b} : Failed(a)' = Failed(a)
    <2>1. \A a \in Account \ {b} : <<"failed", a>> \in L!Counters /\ <<"failed", a>> # k
      BY CountersHold
    <2>2. log' \in Logs /\ log'[k] = Append(L!Attempted(i)[k], 0)
      BY <1>2, <1>3, NotedKeeps DEF SameFailed
    <2>3. \A a \in Account \ {b} : log'[<<"failed", a>>] = L!Attempted(i)[<<"failed", a>>]
      BY <1>2, <1>3, <2>1, NotedKeeps DEF SameFailed
    <2> QED
      BY <1>2, <2>2, <2>3 DEF SameFailed, Failed
  <1>5. /\ lock' = [lock EXCEPT ![b] = IF Len(Failed(b)') >= MM THEN ACCOUNT_LOCKOUT_SECONDS ELSE @]
        /\ wrong' = [wrong EXCEPT ![b] = Append(@, 0)]
    BY DEF L!LoginWrong, L!RecordFailed, Failed
  <1>6. LTypes'
    BY <1>4, <1>5 DEF LTypes
  <1>7. /\ Failed(b) \in Seq(Nat) /\ wrong[b] \in Seq(Nat) /\ wrong'[b] = Append(wrong[b], 0)
        /\ lock'[b] = IF Len(Failed(b)) + 1 >= MM THEN ACCOUNT_LOCKOUT_SECONDS ELSE 0
    BY <1>1, <1>2, <1>4, <1>5 DEF LTypes, Logs, Failed
  <1>8. \A a \in Account \ {b} : lock'[a] = lock[a] /\ wrong'[a] = wrong[a] /\ Failed(a)' = Failed(a)
    BY <1>4, <1>5 DEF LTypes
  <1>9. wrong[b] = <<>> \/ (Len(Failed(b)) < MM /\ Ends(wrong[b], Failed(b)))
    BY <1>1 DEF Recent
  <1>10. Len(wrong[b]) + 1 <= MM
    <2>1. Len(Failed(b)) \in Nat /\ Len(wrong[b]) \in Nat
      BY <1>7
    <2>2. CASE wrong[b] = <<>>
      <3>1. Len(wrong[b]) = 0
        BY <2>2
      <3> QED
        BY <3>1
    <2>3. CASE Len(Failed(b)) < MM /\ Ends(wrong[b], Failed(b))
      <3>1. Len(wrong[b]) <= Len(Failed(b))
        BY <2>3 DEF Ends
      <3> QED
        BY <2>1, <2>3, <3>1
    <2> QED
      BY <1>9, <2>2, <2>3
  <1>11. CASE Len(Failed(b)) + 1 >= MM
    <2>1. lock'[b] = ACCOUNT_LOCKOUT_SECONDS
      BY <1>7, <1>11
    <2>2. Len(wrong'[b]) <= MM /\ \A j \in DOMAIN wrong'[b] : wrong'[b][j] \in Nat
      BY <1>7, <1>10
    <2>3. \A j \in DOMAIN wrong'[b] : wrong'[b][j] + lock'[b] >= ACCOUNT_LOCKOUT_SECONDS
      BY <2>1, <2>2
    <2> QED
      BY <1>6, <1>8, <2>1, <2>2, <2>3 DEF Recent
  <1>12. CASE ~(Len(Failed(b)) + 1 >= MM)
    <2>1. lock'[b] = 0 /\ Len(Failed(b)') < MM
      BY <1>4, <1>7, <1>12
    <2>2. Ends(wrong'[b], Failed(b)')
      <3>1. Ends(wrong[b], Failed(b))
        <4>1. CASE wrong[b] = <<>>
          <5>1. Len(wrong[b]) = 0 /\ Len(Failed(b)) \in Nat
            BY <1>7, <4>1
          <5> QED
            BY <5>1 DEF Ends
        <4> QED
          BY <1>9, <4>1
      <3> QED
        BY <1>4, <1>7, <3>1, EndsAppend
    <2> QED
      BY <1>6, <1>8, <2>1, <2>2 DEF Recent
  <1> QED
    BY <1>11, <1>12

(* Every step of RateLimits keeps the invariant.                             *)
LEMMA LimitsStep ==
    ASSUME LTypes, Recent, [L!Next]_(L!vars)
    PROVE  LTypes' /\ Recent'
  <1> USE OthersKeepFailed, CountersHold
  <1>1. CASE L!Tick
    BY <1>1, TickKeeps
  <1>2. CASE \E i \in One, a \in Account : L!LoginWrong(i, a)
    BY <1>2, LoginWrongKeeps
  <1>3. CASE \E i \in One, a \in Account : L!LoginRefused(i, a) \/ L!LoginRight(i, a)
    BY <1>3, CountedKeeps, SameFailedKeeps DEF L!LoginRefused, L!LoginRight
  <1>4. CASE \E i \in One : L!Register(i)
    BY <1>4, CountedKeeps, SameFailedKeeps DEF L!Register, L!Served
  <1>5. CASE \E i \in One, a \in Account, t \in {"default"} : L!Query(i, a, t)
    BY <1>5, CountedKeeps, SameFailedKeeps DEF L!Query, L!Served
  <1>6. CASE \E i \in One, a \in Account : L!UploadAsync(i, a)
    BY <1>6, CountedKeeps, SameFailedKeeps DEF L!UploadAsync, L!Served
  <1>7. CASE \E i \in One, a \in Account, t \in {"default"}, room \in BOOLEAN : L!Upload(i, a, t, room)
    BY <1>7, CountedKeeps, SameFailedKeeps DEF L!Upload, L!Served
  <1>8. CASE UNCHANGED L!vars
    BY <1>8 DEF L!vars, LTypes, Recent, Failed
  <1> QED
    BY <1>1, <1>2, <1>3, <1>4, <1>5, <1>6, <1>7, <1>8 DEF L!Next

(* However attempts are spaced, and whatever logins succeed between them, a  *)
(* process lets an account be tried with no more wrong passwords in the time *)
(* of a lock than fill its list.                                             *)
THEOREM GuessesStayBounded == L!Spec => []GuessesAreBounded
  <1> DEFINE Inv == LTypes /\ Recent
  <1>1. L!Init => Inv
    BY LimitsInit
  <1>2. Inv /\ [L!Next]_(L!vars) => Inv'
    BY LimitsStep
  <1>3. Inv => GuessesAreBounded
    <2> SUFFICES ASSUME Inv, NEW a \in Account PROVE Len(wrong[a]) <= MAX_FAILED_PER_ACCOUNT
      BY DEF GuessesAreBounded, L!GuessesAreBounded
    <2>1. wrong[a] \in Seq(Nat) /\ Failed(a) \in Seq(Nat) /\ lock[a] \in 0 .. ACCOUNT_LOCKOUT_SECONDS
      BY CountersHold DEF LTypes, Logs, Failed
    <2>2. CASE lock[a] > 0
      BY <2>2 DEF Recent
    <2>3. CASE wrong[a] = <<>>
      BY <2>3, LockoutAssumption
    <2>4. CASE lock[a] = 0 /\ wrong[a] # <<>>
      <3>1. Len(Failed(a)) < MAX_FAILED_PER_ACCOUNT /\ Len(wrong[a]) <= Len(Failed(a))
        BY <2>4 DEF Recent, Ends
      <3>2. Len(Failed(a)) \in Nat /\ Len(wrong[a]) \in Nat
        BY <2>1
      <3> QED
        BY <3>1, <3>2, LockoutAssumption
    <2> QED
      BY <2>1, <2>2, <2>3, <2>4
  <1> QED
    BY <1>1, <1>2, <1>3, PTL DEF L!Spec

=============================================================================
