--------------------------- MODULE RestartProofs ---------------------------
(***************************************************************************)
(* Proofs about DocumentIndex with one worker process: no ghosts, and a    *)
(* restart loses nothing.                                                  *)
(*                                                                         *)
(* Both properties are about the moments between two requests, but what    *)
(* makes them true are promises a plan keeps in between.  Sound says what  *)
(* a plan still promises the database, the vector store and the disk: a    *)
(* row goes only after its chunks (Covered) and after the files were       *)
(* written without them (Rewritten), what memory holds and the files do    *)
(* not is still to be saved (DiskSynced), a save that has begun writes     *)
(* what memory holds (Temporaries).  The lemmas are about plans and what   *)
(* they promise, without reference to the steps; at the end each action is *)
(* one of them.                                                            *)
(***************************************************************************)
EXTENDS DocumentsProofs

OneWorker == \A v, w \in Worker : v = w

-----------------------------------------------------------------------------
(* The shape of a plan *)

Removing == {"delete", "drop_old"}
Opening  == {"open_approval", "open_rejection"}
Settling == {"delete", "commit_approval"}
Moving   == {"write_tmp", "move_index", "move_metadata"}
\* What a request does while it holds the write lock.
Held     == {"forget", "delete", "unlink", "commit_approval"} \cup Moving
\* After these steps a save is still to come, or under way.
Saving   == {"ingest", "register", "rebuild_keyword"} \cup Moving

Has(p, effect) == \E i \in DOMAIN p : p[i].do = effect

(* A save is made step after step, of an ingestion after the registration.    *)
SavesInOrder(p) ==
    /\ \A i \in DOMAIN p : p[i].do = "register" => i + 1 \in DOMAIN p /\ p[i + 1].do = "write_tmp"
    /\ \A i \in DOMAIN p : p[i].do = "write_tmp" => i + 1 \in DOMAIN p /\ p[i + 1].do = "move_index"
    /\ \A i \in DOMAIN p : p[i].do = "move_index" => i + 1 \in DOMAIN p /\ p[i + 1].do = "move_metadata"
    /\ \A i \in DOMAIN p : p[i].do = "write_tmp" => i = 1 \/ p[i - 1].do = "register"
    /\ \A i \in DOMAIN p : p[i].do = "move_index" => i = 1 \/ p[i - 1].do = "write_tmp"
    /\ \A i \in DOMAIN p : p[i].do = "move_metadata" => i = 1 \/ p[i - 1].do = "move_index"

(* Chunks are forgotten before anything else is done but to take the lock.    *)
ForgetsFirst(p) ==
    \A i \in DOMAIN p : p[i].do = "forget" => i = 1 \/ (i = 2 /\ p[1].do = "open_rejection")

(* What remains of a request that holds the write lock: it will let it go.    *)
Decides(p) ==
    /\ \A i \in DOMAIN p : p[i].do \in Held
    /\ \E i \in DOMAIN p : p[i].do \in Settling

(* The lock is taken first, and for a decision.                              *)
OpensFirst(p) ==
    \A i \in DOMAIN p : p[i].do \in Opening => i = 1 /\ Decides(Tail(p))

(* What is going to be ingested is not going to be removed.                  *)
IdsAreFresh(p) ==
    \A i, j \in DOMAIN p : p[i].do \in {"ingest", "reingest"} => p[i].id \notin p[j].docs

(* What is registered is a row that exists.                                  *)
MakesRows(p) ==
    \A i \in DOMAIN p : p[i].do \in {"ingest", "register", "set_status"} =>
        p[i].row.status # "none" /\ p[i].id \in DocId

(* A worker that is asked to stop saves and exits.                           *)
StopsOnly(p) == Has(p, "exit") => \A i \in DOMAIN p : p[i].do \in Moving \cup {"exit"}

Shape(p) ==
    SavesInOrder(p) /\ ForgetsFirst(p) /\ OpensFirst(p) /\ IdsAreFresh(p) /\ MakesRows(p) /\ StopsOnly(p)

-----------------------------------------------------------------------------
(* What a plan p promises, of a vector store s, the index files k, the       *)
(* documents D that have a row, the holder l of the write lock, the number n *)
(* of ids issued, c crashes and f failed ingestions, and the files F         *)

Ids(p, D, n) == D \subseteq 1 .. n /\ \A i \in DOMAIN p : p[i].id <= n
Locked(p, l) == l # None => Decides(p)

(* The chunks of what loses its row are not among S, or go before.           *)
Covered(p, S) ==
    \A i \in DOMAIN p : p[i].do \in Removing \cup {"reingest"} =>
        \/ p[i].docs \cap S = {}
        \/ \E j \in 1 .. i - 1 : p[j].do = "forget" /\ p[i].docs \subseteq p[j].docs

(* What loses its row is not among the metadata M on disk, or these are      *)
(* written before.                                                           *)
Rewritten(p, M) ==
    \A i \in DOMAIN p : p[i].do \in Removing =>
        \/ p[i].docs \cap M = {}
        \/ \E j \in 1 .. i - 1 : \/ p[j].do \in {"ingest", "register", "move_metadata"}
                                 \/ p[j].do = "forget" /\ p[i].docs \subseteq p[j].docs

(* A save that has begun writes what memory holds.                           *)
Temporaries(p, s, k) ==
    /\ (p # <<>> /\ p[1].do = "move_index") =>
           k.indexTmp = Vectors(s) /\ k.metadataTmp = Metadata(s)
    /\ (p # <<>> /\ p[1].do = "move_metadata") =>
           k.index = Vectors(s) /\ k.metadataTmp = Metadata(s)

(* Memory holds chunks of documents only, and of the one being registered.   *)
Registering(p) == IF p # <<>> /\ p[1].do = "register" THEN {p[1].id} ELSE {}
Known(p, s, D, c, f) ==
    (c = 0 \/ (c = 1 /\ f = 0)) => Owners(s) \subseteq D \cup Registering(p)

(* So does the disk, while the worker has not died, or is about to end.      *)
Listed(k) == {k.metadata[i] : i \in DOMAIN k.metadata}
Unharmed(p, c, f) == f = 0 /\ (c = 0 \/ (c = 1 /\ Has(p, "exit")))
DiskKnown(p, k, D, c, f) ==
    Unharmed(p, c, f) => Listed(k) \subseteq D /\ Rewritten(p, Listed(k))

(* The files load to what memory holds, or are going to.                     *)
Synced(s, k, c) == s = Load(k) /\ (c = 0 => k.metadata = Metadata(s))
Dirty(p, F) ==
    \/ \E i \in DOMAIN p : p[i].do \in Saving
    \/ p # <<>> /\ p[1].do = "reingest" /\ F[p[1].row.file] # None
DiskSynced(p, s, k, c, f, F) ==
    (f = 0) => (Dirty(p, F) \/ Synced(s, k, c)) /\ (Has(p, "forget") => Synced(s, k, c))

Sound(p, s, k, D, l, n, c, f, F) ==
    /\ Shape(p)
    /\ Ids(p, D, n)
    /\ Locked(p, l)
    /\ Covered(p, Owners(s))
    /\ Temporaries(p, s, k)
    /\ Has(p, "exit") => c # 0
    /\ Known(p, s, D, c, f)
    /\ DiskKnown(p, k, D, c, f)
    /\ DiskSynced(p, s, k, c, f, F)

RInv ==
    /\ TInv
    /\ \A w \in Worker :
          Sound(plan[w], store[w], disk, Documents, writer, issued, crashes, failures, files)

-----------------------------------------------------------------------------
(* The lists of a save *)

(* What a save writes loads to what was saved.                               *)
LEMMA SavedLoads ==
    ASSUME NEW k \in Disk, NEW s \in Seq(Chunk), k.index = Vectors(s), k.metadata = Metadata(s)
    PROVE  Load(k) = s
<1>1. /\ Len(s) \in Nat /\ DOMAIN s = 1 .. Len(s)
      /\ \A i \in 1 .. Len(s) : s[i] \in Chunk
  BY LenProperties
<1>2. PICK v \in Seq(DocId), m \in Seq(DocId) : v = Vectors(s) /\ m = Metadata(s)
  BY VectorsIs
<1>3. v = [i \in 1 .. Len(s) |-> s[i][1]] /\ m = [i \in 1 .. Len(s) |-> s[i][2]]
  BY <1>1, <1>2 DEF Vectors, Metadata
<1>4. Len(v) = Len(s) /\ Len(m) = Len(s) /\ DOMAIN v = 1 .. Len(s)
  BY <1>1, <1>2, <1>3
<1>5. Load(k) = [i \in 1 .. Len(s) |-> <<v[i], m[i]>>]
  BY <1>2, <1>4 DEF Load
<1>6. \A i \in 1 .. Len(s) : <<v[i], m[i]>> = s[i]
  BY <1>1, <1>3 DEF Chunk
<1>7. Load(k) = [i \in 1 .. Len(s) |-> s[i]]
  BY <1>5, <1>6
<1> QED BY <1>1, <1>7

(* The metadata of a store, saved, list its owners.                           *)
LEMMA MetadataAreOwners ==
    ASSUME NEW k \in Disk, NEW s \in Seq(Chunk), k.metadata = Metadata(s)
    PROVE  Listed(k) = Owners(s)
BY DEF Listed, Metadata, Owners

(* What loads from the files is owned by what their metadata list.            *)
LEMMA LoadedAreListed ==
    ASSUME NEW k \in Disk
    PROVE  Owners(Load(k)) \subseteq Listed(k)
<1>1. /\ k.index \in Seq(DocId) /\ k.metadata \in Seq(DocId)
      /\ DOMAIN k.index = 1 .. Len(k.index) /\ DOMAIN k.metadata = 1 .. Len(k.metadata)
  BY LenProperties DEF Disk
<1>2. CASE Len(k.index) = Len(k.metadata)
  <2>1. PICK t : t = Load(k)
    OBVIOUS
  <2>2. t = [i \in DOMAIN k.metadata |-> <<k.index[i], k.metadata[i]>>]
    BY <1>1, <1>2, <2>1 DEF Load
  <2>3. DOMAIN t = DOMAIN k.metadata /\ \A i \in DOMAIN t : t[i][2] = k.metadata[i]
    BY <2>2
  <2> QED BY <2>1, <2>3 DEF Owners, Listed
<1>3. CASE Len(k.index) # Len(k.metadata)
  BY <1>3 DEF Load, Owners
<1> QED BY <1>2, <1>3

(* A list is not None.                                                       *)
LEMMA ListsAreNotNone ==
    ASSUME NEW s \in Seq(Chunk)
    PROVE  Vectors(s) # None /\ Metadata(s) # None
<1>1. DocId \subseteq Nat
  BY MaxDocsAssumption DEF DocId
<1>2. Seq(DocId) \subseteq Seq(Nat)
  BY <1>1, SeqMonotonic
<1> QED BY <1>2, VectorsIs, NoneAssumption

-----------------------------------------------------------------------------
(* The rest of a plan *)

(* A plan by its positions: its first step, and the rest one place later.    *)
LEMMA TailIs ==
    ASSUME NEW p \in Plan, p # <<>>
    PROVE  /\ Tail(p) \in Plan
           /\ DOMAIN p = 1 .. Len(p) /\ Len(p) \in Nat /\ 1 \in DOMAIN p
           /\ DOMAIN Tail(p) = 1 .. Len(p) - 1
           /\ \A i \in DOMAIN Tail(p) : i \in Nat /\ i >= 1 /\ i + 1 \in DOMAIN p /\ Tail(p)[i] = p[i + 1]
           /\ \A i \in DOMAIN p : i \in Nat /\ i >= 1
                                  /\ (i # 1 => i - 1 \in DOMAIN Tail(p) /\ Tail(p)[i - 1] = p[i])
           /\ Tail(p) # <<>> => 1 \in DOMAIN Tail(p) /\ Tail(p)[1] = p[2] /\ 2 \in DOMAIN p
<1>1. p \in Seq(GoodStep) /\ Tail(p) \in Plan
  BY PlanTail DEF Plan
<1>2. Len(p) \in Nat /\ DOMAIN p = 1 .. Len(p) /\ Len(p) # 0
  BY <1>1, LenProperties, EmptySeq
<1>3. PICK t \in Seq(GoodStep) : t = Tail(p)
  BY <1>1, HeadTailProperties
<1>4. Len(t) = Len(p) - 1 /\ \A i \in 1 .. Len(t) : t[i] = p[i + 1]
  BY <1>1, <1>3, HeadTailProperties
<1>5. DOMAIN t = 1 .. Len(p) - 1
  BY <1>4, LenProperties
<1>6. \A i \in DOMAIN p : i # 1 => i - 1 \in DOMAIN t /\ t[i - 1] = p[i]
  <2> SUFFICES ASSUME NEW i \in DOMAIN p, i # 1 PROVE i - 1 \in DOMAIN t /\ t[i - 1] = p[i]
    OBVIOUS
  <2>1. i - 1 \in 1 .. Len(t) /\ i \in Nat
    BY <1>2, <1>4
  <2>2. t[i - 1] = p[(i - 1) + 1] /\ (i - 1) + 1 = i
    BY <1>4, <2>1
  <2> QED BY <1>4, <1>5, <2>1, <2>2
<1>7. t # <<>> => 1 \in DOMAIN t
  BY <1>2, <1>4, <1>5, EmptySeq
<1> HIDE DEF Plan
<1>8. \A i \in DOMAIN t : i \in Nat /\ i >= 1 /\ i + 1 \in DOMAIN p /\ t[i] = p[i + 1]
  BY <1>2, <1>4, <1>5
<1>9. 1 \in DOMAIN t => t[1] = p[2] /\ 2 \in DOMAIN p
  BY <1>8
<1> QED BY <1>1, <1>2, <1>3, <1>5, <1>6, <1>7, <1>8, <1>9

(* The rest of a plan is in shape, and less is in it.                        *)
LEMMA ShapeTail ==
    ASSUME NEW p \in Plan, p # <<>>, Shape(p)
    PROVE  /\ Shape(Tail(p))
           /\ ~Has(Tail(p), "open_approval") /\ ~Has(Tail(p), "open_rejection")
           /\ p[1].do # "open_rejection" => ~Has(Tail(p), "forget")
           /\ \A e \in Effect : Has(Tail(p), e) => Has(p, e)
           /\ p[1].do \notin Moving \cup {"exit"} => ~Has(Tail(p), "exit")
<1>1. PICK t \in Plan : t = Tail(p)
  BY TailIs
<1>2. /\ DOMAIN p = 1 .. Len(p) /\ Len(p) \in Nat /\ 1 \in DOMAIN p
      /\ DOMAIN t = 1 .. Len(p) - 1
      /\ \A i \in DOMAIN t : i \in Nat /\ i >= 1 /\ i + 1 \in DOMAIN p /\ t[i] = p[i + 1]
  BY <1>1, TailIs
<1>3. \A i \in DOMAIN t : t[i].do \notin Opening
  <2> SUFFICES ASSUME NEW i \in DOMAIN t PROVE t[i].do \notin Opening
    OBVIOUS
  <2>1. i + 1 \in DOMAIN p /\ t[i] = p[i + 1] /\ i + 1 # 1
    BY <1>2
  <2> QED BY <2>1 DEF Shape, OpensFirst
<1>4. SavesInOrder(t)
  <2>1. ASSUME NEW i \in DOMAIN t, NEW e, i + 2 \in DOMAIN p, p[i + 2].do = e
        PROVE  i + 1 \in DOMAIN t /\ t[i + 1].do = e
    <3>1. i + 1 \in DOMAIN t /\ i \in Nat
      BY <1>2, <2>1
    <3>2. t[i + 1] = p[(i + 1) + 1] /\ (i + 1) + 1 = i + 2
      BY <1>2, <3>1
    <3> QED BY <2>1, <3>1, <3>2
  <2>2. ASSUME NEW i \in DOMAIN t, NEW e, p[(i + 1) - 1].do = e, i # 1
        PROVE  t[i - 1].do = e
    <3>1. i - 1 \in DOMAIN t /\ i \in Nat
      BY <1>2, <2>2
    <3>2. t[i - 1] = p[(i - 1) + 1] /\ (i - 1) + 1 = (i + 1) - 1
      BY <1>2, <3>1
    <3> QED BY <2>2, <3>2
  <2>3. \A i \in DOMAIN t : i + 1 \in DOMAIN p /\ t[i] = p[i + 1] /\ i + 1 # 1 /\ (i + 1) + 1 = i + 2
    BY <1>2
  <2>4. \A i \in DOMAIN t : t[i].do = "register" => i + 1 \in DOMAIN t /\ t[i + 1].do = "write_tmp"
    BY <2>1, <2>3 DEF Shape, SavesInOrder
  <2>5. \A i \in DOMAIN t : t[i].do = "write_tmp" => i + 1 \in DOMAIN t /\ t[i + 1].do = "move_index"
    BY <2>1, <2>3 DEF Shape, SavesInOrder
  <2>6. \A i \in DOMAIN t : t[i].do = "move_index" => i + 1 \in DOMAIN t /\ t[i + 1].do = "move_metadata"
    BY <2>1, <2>3 DEF Shape, SavesInOrder
  <2>7. \A i \in DOMAIN t : t[i].do = "write_tmp" => i = 1 \/ t[i - 1].do = "register"
    BY <2>2, <2>3 DEF Shape, SavesInOrder
  <2>8. \A i \in DOMAIN t : t[i].do = "move_index" => i = 1 \/ t[i - 1].do = "write_tmp"
    BY <2>2, <2>3 DEF Shape, SavesInOrder
  <2>9. \A i \in DOMAIN t : t[i].do = "move_metadata" => i = 1 \/ t[i - 1].do = "move_index"
    BY <2>2, <2>3 DEF Shape, SavesInOrder
  <2> QED BY <2>4, <2>5, <2>6, <2>7, <2>8, <2>9 DEF SavesInOrder
<1>5. \A i \in DOMAIN t : t[i].do = "forget" => i = 1 /\ p[1].do = "open_rejection"
  <2> SUFFICES ASSUME NEW i \in DOMAIN t, t[i].do = "forget"
               PROVE  i = 1 /\ p[1].do = "open_rejection"
    OBVIOUS
  <2>1. i \in Nat /\ i >= 1 /\ i + 1 \in DOMAIN p /\ p[i + 1].do = "forget"
    BY <1>2
  <2>2. i + 1 = 1 \/ (i + 1 = 2 /\ p[1].do = "open_rejection")
    BY <2>1 DEF Shape, ForgetsFirst
  <2> QED BY <2>1, <2>2
<1>6. IdsAreFresh(t)
  <2> SUFFICES ASSUME NEW i \in DOMAIN t, NEW j \in DOMAIN t, t[i].do \in {"ingest", "reingest"}
               PROVE  t[i].id \notin t[j].docs
    BY DEF IdsAreFresh
  <2>1. i + 1 \in DOMAIN p /\ j + 1 \in DOMAIN p /\ t[i] = p[i + 1] /\ t[j] = p[j + 1]
    BY <1>2
  <2> QED BY <2>1 DEF Shape, IdsAreFresh
<1>7. MakesRows(t)
  BY <1>2 DEF Shape, MakesRows
<1>8. ForgetsFirst(t) /\ OpensFirst(t)
  BY <1>3, <1>5 DEF ForgetsFirst, OpensFirst
<1>9. \A e \in Effect : Has(t, e) => Has(p, e)
  BY <1>2 DEF Has
<1>10. Has(t, "exit") => p[1].do \in Moving \cup {"exit"} /\ StopsOnly(t)
  <2> SUFFICES ASSUME Has(t, "exit") PROVE p[1].do \in Moving \cup {"exit"} /\ StopsOnly(t)
    OBVIOUS
  <2>1. \A i \in DOMAIN p : p[i].do \in Moving \cup {"exit"}
    BY <1>9 DEF Shape, StopsOnly, Effect
  <2> QED BY <1>2, <2>1 DEF StopsOnly
<1>11. Shape(t)
  BY <1>4, <1>6, <1>7, <1>8, <1>10 DEF Shape, StopsOnly
<1> QED BY <1>1, <1>3, <1>5, <1>9, <1>10, <1>11 DEF Has, Opening

(* What the rest of a plan that holds the lock does, unless it let it go.     *)
LEMMA DecidesTail ==
    ASSUME NEW p \in Plan, p # <<>>, Decides(p), p[1].do \notin Settling
    PROVE  Decides(Tail(p))
<1>1. PICK t \in Plan : t = Tail(p)
  BY TailIs
<1>2. /\ \A i \in DOMAIN t : i + 1 \in DOMAIN p /\ t[i] = p[i + 1]
      /\ \A i \in DOMAIN p : i # 1 => i - 1 \in DOMAIN t /\ t[i - 1] = p[i]
  BY <1>1, TailIs
<1>3. \A i \in DOMAIN t : t[i].do \in Held
  BY <1>2 DEF Decides
<1>4. PICK i \in DOMAIN p : p[i].do \in Settling
  BY DEF Decides
<1>5. i # 1
  BY <1>4
<1>6. \E j \in DOMAIN t : t[j].do \in Settling
  BY <1>2, <1>4, <1>5
<1> QED BY <1>1, <1>3, <1>6 DEF Decides

(* What the rest of a plan still covers: its first step had no chunks left    *)
(* to lose, or forgot them.                                                  *)
LEMMA CoveredTail ==
    ASSUME NEW p \in Plan, p # <<>>, NEW S, Covered(p, S)
    PROVE  /\ p[1].do \in Removing \cup {"reingest"} => p[1].docs \cap S = {}
           /\ p[1].do # "forget" => Covered(Tail(p), S)
           /\ Covered(Tail(p), S \ p[1].docs)
<1>1. PICK t \in Plan : t = Tail(p)
  BY TailIs
<1>2. /\ 1 \in DOMAIN p /\ DOMAIN t = 1 .. Len(p) - 1 /\ Len(p) \in Nat /\ DOMAIN p = 1 .. Len(p)
      /\ \A i \in DOMAIN t : i \in Nat /\ i >= 1 /\ i + 1 \in DOMAIN p /\ t[i] = p[i + 1]
  BY <1>1, TailIs
<1>3. ASSUME NEW i \in DOMAIN t, t[i].do \in Removing \cup {"reingest"}
      PROVE  \/ t[i].docs \cap S = {}
             \/ p[1].do = "forget" /\ t[i].docs \subseteq p[1].docs
             \/ \E j \in 1 .. i - 1 : t[j].do = "forget" /\ t[i].docs \subseteq t[j].docs
  <2>1. i \in Nat /\ i + 1 \in DOMAIN p /\ t[i] = p[i + 1]
    BY <1>2
  <2>2. CASE \E j \in 1 .. (i + 1) - 1 : p[j].do = "forget" /\ p[i + 1].docs \subseteq p[j].docs
    <3>1. PICK j \in 1 .. i : p[j].do = "forget" /\ p[i + 1].docs \subseteq p[j].docs
      BY <2>1, <2>2
    <3>2. CASE j = 1
      BY <2>1, <3>1, <3>2
    <3>3. CASE j # 1
      <4>1. j - 1 \in 1 .. i - 1 /\ j - 1 \in DOMAIN t /\ (j - 1) + 1 = j
        BY <1>2, <2>1, <3>3
      <4>2. t[j - 1] = p[j]
        BY <1>2, <4>1
      <4> QED BY <2>1, <3>1, <4>1, <4>2
    <3> QED BY <3>2, <3>3
  <2>3. CASE p[i + 1].docs \cap S = {}
    BY <2>1, <2>3
  <2> QED BY <1>3, <2>1, <2>2, <2>3 DEF Covered
<1>4. p[1].do \in Removing \cup {"reingest"} => p[1].docs \cap S = {}
  BY <1>2 DEF Covered
<1> QED BY <1>1, <1>3, <1>4 DEF Covered

(* So with what it still rewrites.                                           *)
LEMMA RewrittenTail ==
    ASSUME NEW p \in Plan, p # <<>>, NEW M, Rewritten(p, M)
    PROVE  /\ p[1].do \in Removing => p[1].docs \cap M = {}
           /\ p[1].do \notin {"forget", "ingest", "register", "move_metadata"} => Rewritten(Tail(p), M)
<1>1. PICK t \in Plan : t = Tail(p)
  BY TailIs
<1>2. /\ 1 \in DOMAIN p /\ DOMAIN t = 1 .. Len(p) - 1 /\ Len(p) \in Nat /\ DOMAIN p = 1 .. Len(p)
      /\ \A i \in DOMAIN t : i \in Nat /\ i >= 1 /\ i + 1 \in DOMAIN p /\ t[i] = p[i + 1]
  BY <1>1, TailIs
<1> DEFINE writes(q, j, i) == \/ q[j].do \in {"ingest", "register", "move_metadata"}
                              \/ q[j].do = "forget" /\ q[i].docs \subseteq q[j].docs
<1>3. ASSUME NEW i \in DOMAIN t, t[i].do \in Removing,
             p[1].do \notin {"forget", "ingest", "register", "move_metadata"}
      PROVE  \/ t[i].docs \cap M = {}
             \/ \E j \in 1 .. i - 1 : writes(t, j, i)
  <2>1. i \in Nat /\ i + 1 \in DOMAIN p /\ t[i] = p[i + 1]
    BY <1>2
  <2>2. CASE \E j \in 1 .. (i + 1) - 1 : writes(p, j, i + 1)
    <3>1. PICK j \in 1 .. i : writes(p, j, i + 1)
      BY <2>1, <2>2
    <3>2. j # 1
      BY <1>3, <3>1
    <3>3. j - 1 \in 1 .. i - 1 /\ j - 1 \in DOMAIN t /\ (j - 1) + 1 = j
      BY <1>2, <2>1, <3>2
    <3>4. t[j - 1] = p[j]
      BY <1>2, <3>3
    <3> QED BY <2>1, <3>1, <3>3, <3>4
  <2>3. CASE p[i + 1].docs \cap M = {}
    BY <2>1, <2>3
  <2> QED BY <1>3, <2>1, <2>2, <2>3 DEF Rewritten
<1>4. p[1].do \in Removing => p[1].docs \cap M = {}
  BY <1>2 DEF Rewritten
<1> QED BY <1>1, <1>3, <1>4 DEF Rewritten

-----------------------------------------------------------------------------
(* Plans with steps put before them *)

\* q is t after k steps more.
EndsIn(q, k, t) ==
    /\ \A i \in 1 .. k : i \in DOMAIN q
    /\ \A i \in DOMAIN t : i \in Nat /\ i >= 1 /\ i + k \in DOMAIN q /\ q[i + k] = t[i]
    /\ \A i \in DOMAIN q : i \in Nat /\ i >= 1
                           /\ (i \in 1 .. k \/ (i - k \in DOMAIN t /\ q[i] = t[i - k]))

(* A concatenation ends in its second part.                                  *)
LEMMA ConcatEndsIn ==
    ASSUME NEW a \in Plan, NEW t \in Plan
    PROVE  /\ a \o t \in Plan /\ EndsIn(a \o t, Len(a), t) /\ Len(a) \in Nat
           /\ \A i \in 1 .. Len(a) : (a \o t)[i] = a[i]
<1>1. a \in Seq(GoodStep) /\ t \in Seq(GoodStep)
  BY DEF Plan
<1>2. PICK q \in Plan : q = a \o t
  BY PlanConcat
<1>3. /\ Len(q) = Len(a) + Len(t)
      /\ \A i \in 1 .. Len(a) + Len(t) : q[i] = IF i <= Len(a) THEN a[i] ELSE t[i - Len(a)]
  BY <1>1, <1>2, ConcatProperties
<1>4. /\ Len(a) \in Nat /\ Len(t) \in Nat /\ DOMAIN t = 1 .. Len(t)
      /\ DOMAIN q = 1 .. Len(a) + Len(t)
  BY <1>1, <1>2, <1>3, LenProperties DEF Plan
<1>5. \A i \in 1 .. Len(a) : i \in DOMAIN q /\ q[i] = a[i]
  BY <1>3, <1>4
<1>6. ASSUME NEW i \in DOMAIN t
      PROVE  i \in Nat /\ i >= 1 /\ i + Len(a) \in DOMAIN q /\ q[i + Len(a)] = t[i]
  <2>1. /\ i + Len(a) \in 1 .. Len(a) + Len(t) /\ ~(i + Len(a) <= Len(a))
        /\ (i + Len(a)) - Len(a) = i /\ i \in Nat /\ i >= 1
    BY <1>4
  <2> QED BY <1>3, <1>4, <2>1
<1>7. ASSUME NEW i \in DOMAIN q
      PROVE  /\ i \in Nat /\ i >= 1
             /\ i \in 1 .. Len(a) \/ (i - Len(a) \in DOMAIN t /\ q[i] = t[i - Len(a)])
  <2>1. i \in Nat /\ i >= 1 /\ (i \in 1 .. Len(a) \/ i - Len(a) \in DOMAIN t)
    BY <1>4
  <2>2. i \notin 1 .. Len(a) => ~(i <= Len(a))
    BY <1>4, <2>1
  <2> QED BY <1>3, <1>4, <2>1, <2>2
<1> QED BY <1>2, <1>4, <1>5, <1>6, <1>7 DEF EndsIn

(* A save before a plan.                                                     *)
LEMMA SaveThen ==
    ASSUME NEW b \in BOOLEAN, NEW t \in Plan
    PROVE  \E q \in Plan :
              /\ q = Save(b) \o t /\ EndsIn(q, 3, t)
              /\ q[1].do = "write_tmp" /\ q[2].do = "move_index" /\ q[3].do = "move_metadata"
              /\ \A i \in 1 .. 3 : q[i].docs = {} /\ q[i].id = 0
<1>1. PICK a \in Plan :
         /\ a = Save(b) /\ Len(a) = 3
         /\ a[1].do = "write_tmp" /\ a[2].do = "move_index" /\ a[3].do = "move_metadata"
         /\ \A i \in 1 .. 3 : a[i].docs = {} /\ a[i].id = 0
  BY SaveIs
<1>2. PICK q \in Plan : q = a \o t
  BY PlanConcat
<1>3. EndsIn(q, Len(a), t) /\ \A i \in 1 .. Len(a) : q[i] = a[i]
  BY <1>2, ConcatEndsIn
<1>4. EndsIn(q, 3, t) /\ \A i \in 1 .. 3 : q[i] = a[i]
  BY <1>1, <1>3
<1>5. q = Save(b) \o t
  BY <1>1, <1>2
<1>6. /\ q[1].do = "write_tmp" /\ q[2].do = "move_index" /\ q[3].do = "move_metadata"
      /\ \A i \in 1 .. 3 : q[i].docs = {} /\ q[i].id = 0
  BY <1>1, <1>4
<1> QED BY <1>4, <1>5, <1>6, Zenon

(* One step before a plan.                                                   *)
LEMMA OneThen ==
    ASSUME NEW x \in GoodStep, x.do # "move_index", NEW t \in Plan
    PROVE  \E q \in Plan : q = <<x>> \o t /\ EndsIn(q, 1, t) /\ q[1] = x
<1>1. PICK a \in Plan : a = <<x>> /\ Len(a) = 1 /\ a[1] = x
  BY PlanOne
<1>2. PICK q \in Plan : q = a \o t
  BY PlanConcat
<1>3. EndsIn(q, Len(a), t) /\ \A i \in 1 .. Len(a) : q[i] = a[i]
  BY <1>2, ConcatEndsIn
<1>4. EndsIn(q, 1, t) /\ \A i \in 1 .. 1 : q[i] = a[i]
  BY <1>1, <1>3
<1>5. q = <<x>> \o t
  BY <1>1, <1>2, Zenon
<1>6. q[1] = x
  BY <1>1, <1>4
<1> QED BY <1>4, <1>5, <1>6, Zenon

(* Steps that keep the order of saves may be put before a plan that does not  *)
(* begin inside one.                                                         *)
LEMMA SavesAfter ==
    ASSUME NEW t \in Plan, SavesInOrder(t), t # <<>> => t[1].do \notin Moving,
           NEW q \in Plan, NEW k \in Nat, EndsIn(q, k, t),
           \A i \in 1 .. k :
              /\ q[i].do = "register" => i < k /\ q[i + 1].do = "write_tmp"
              /\ q[i].do = "write_tmp" => i < k /\ q[i + 1].do = "move_index"
              /\ q[i].do = "move_index" => i < k /\ q[i + 1].do = "move_metadata"
              /\ q[i].do = "write_tmp" => i = 1 \/ q[i - 1].do = "register"
              /\ q[i].do = "move_index" => i = 1 \/ q[i - 1].do = "write_tmp"
              /\ q[i].do = "move_metadata" => i = 1 \/ q[i - 1].do = "move_index"
    PROVE  SavesInOrder(q)
<1>1. \A i \in 1 .. k : i < k => i + 1 \in DOMAIN q
  BY DEF EndsIn
<1>2. ASSUME NEW i \in DOMAIN q, i \notin 1 .. k
      PROVE  i \in Nat /\ i - k \in DOMAIN t /\ q[i] = t[i - k]
  BY <1>2 DEF EndsIn
<1>3. ASSUME NEW i \in DOMAIN q, i \notin 1 .. k, (i - k) + 1 \in DOMAIN t
      PROVE  i + 1 \in DOMAIN q /\ q[i + 1] = t[(i - k) + 1]
  <2>1. ((i - k) + 1) + k = i + 1
    BY <1>2, <1>3
  <2> QED BY <1>3, <2>1 DEF EndsIn
<1>4. ASSUME NEW i \in DOMAIN q, i \notin 1 .. k, q[i].do \in Moving
      PROVE  i - k # 1 /\ q[i - 1] = t[(i - k) - 1]
  <2>1. i - k # 1
    <3>1. t # <<>>
      BY <1>2, <1>4
    <3> QED BY <1>2, <1>4, <3>1
  <2>2. i - 1 \in DOMAIN q /\ i - 1 \notin 1 .. k
    <3>1. (i - k) \in Nat /\ i - k >= 1 /\ DOMAIN q = 1 .. Len(q) /\ Len(q) \in Nat
      BY <1>2, <1>4, LenProperties DEF EndsIn, Plan
    <3> QED BY <1>2, <1>4, <2>1, <3>1
  <2>3. q[i - 1] = t[(i - 1) - k] /\ (i - 1) - k = (i - k) - 1
    BY <1>2, <1>4, <2>2
  <2> QED BY <2>1, <2>3
<1>5. ASSUME NEW i \in DOMAIN q
      PROVE  /\ q[i].do = "register" => i + 1 \in DOMAIN q /\ q[i + 1].do = "write_tmp"
             /\ q[i].do = "write_tmp" => i + 1 \in DOMAIN q /\ q[i + 1].do = "move_index"
             /\ q[i].do = "move_index" => i + 1 \in DOMAIN q /\ q[i + 1].do = "move_metadata"
  BY <1>1, <1>2, <1>3, <1>5 DEF SavesInOrder
<1>6. ASSUME NEW i \in DOMAIN q
      PROVE  /\ q[i].do = "write_tmp" => i = 1 \/ q[i - 1].do = "register"
             /\ q[i].do = "move_index" => i = 1 \/ q[i - 1].do = "write_tmp"
             /\ q[i].do = "move_metadata" => i = 1 \/ q[i - 1].do = "move_index"
  BY <1>2, <1>4, <1>6 DEF SavesInOrder, Moving
<1> QED BY <1>5, <1>6 DEF SavesInOrder

(* Neither opens nor forgets.                                                *)
Plain(p) == \A i \in DOMAIN p : p[i].do \notin Opening \cup {"forget"}

(* Such steps as follow a step that was made keep the shape of a plan.        *)
LEMMA ShapeAfter ==
    ASSUME NEW t \in Plan, Shape(t), Plain(t), ~Has(t, "exit"),
           NEW q \in Plan, NEW k \in Nat, EndsIn(q, k, t), SavesInOrder(q),
           \A i \in 1 .. k :
              /\ q[i].do \notin Opening \cup {"forget", "ingest", "reingest", "exit"} /\ q[i].docs = {}
              /\ q[i].do \in {"register", "set_status"} =>
                    q[i].row.status # "none" /\ q[i].id \in DocId
    PROVE  Shape(q) /\ Plain(q) /\ ~Has(q, "exit")
<1>1. ASSUME NEW i \in DOMAIN q
      PROVE  \/ i \in 1 .. k
             \/ i - k \in DOMAIN t /\ q[i] = t[i - k]
  BY <1>1 DEF EndsIn
<1>2. Plain(q)
  BY <1>1 DEF Plain
<1>3. ForgetsFirst(q) /\ OpensFirst(q)
  BY <1>2 DEF Plain, ForgetsFirst, OpensFirst
<1>4. IdsAreFresh(q)
  BY <1>1 DEF Shape, IdsAreFresh
<1>5. MakesRows(q)
  BY <1>1 DEF Shape, MakesRows
<1>6. ~Has(q, "exit")
  BY <1>1 DEF Has
<1> QED BY <1>2, <1>3, <1>4, <1>5, <1>6 DEF Shape, StopsOnly

(* What is put before a plan without losing a row leaves covered what was.   *)
LEMMA CoveredAfter ==
    ASSUME NEW t \in Plan, NEW q \in Plan, NEW k \in Nat, EndsIn(q, k, t), NEW S, Covered(t, S),
           \A i \in 1 .. k : q[i].do \in Removing \cup {"reingest"} => q[i].docs \cap S = {}
    PROVE  Covered(q, S)
<1> SUFFICES ASSUME NEW i \in DOMAIN q, q[i].do \in Removing \cup {"reingest"}
             PROVE  \/ q[i].docs \cap S = {}
                    \/ \E j \in 1 .. i - 1 : q[j].do = "forget" /\ q[i].docs \subseteq q[j].docs
  BY DEF Covered
<1>1. i \in Nat /\ (i \in 1 .. k \/ (i - k \in DOMAIN t /\ q[i] = t[i - k]))
  BY DEF EndsIn
<1>2. CASE i \in 1 .. k
  BY <1>2
<1>3. CASE i - k \in DOMAIN t /\ q[i] = t[i - k]
  <2>1. CASE q[i].docs \cap S = {}
    BY <2>1
  <2>2. CASE q[i].docs \cap S # {}
    <3>1. PICK j \in 1 .. (i - k) - 1 : t[j].do = "forget" /\ t[i - k].docs \subseteq t[j].docs
      BY <1>3, <2>2 DEF Covered
    <3>2. j + k \in 1 .. i - 1 /\ j \in DOMAIN t
      <4>1. DOMAIN t = 1 .. Len(t) /\ Len(t) \in Nat
        BY LenProperties DEF Plan
      <4> QED BY <1>1, <1>3, <3>1, <4>1
    <3>3. q[j + k] = t[j]
      BY <3>2 DEF EndsIn
    <3> QED BY <1>3, <3>1, <3>2, <3>3
  <2> QED BY <2>1, <2>2
<1> QED BY <1>1, <1>2, <1>3

(* So with the metadata on disk.                                             *)
LEMMA RewrittenAfter ==
    ASSUME NEW t \in Plan, NEW q \in Plan, NEW k \in Nat, EndsIn(q, k, t), NEW M, Rewritten(t, M),
           \A i \in 1 .. k : q[i].do \notin Removing
    PROVE  Rewritten(q, M)
<1> DEFINE writes(p, j, i) == \/ p[j].do \in {"ingest", "register", "move_metadata"}
                              \/ p[j].do = "forget" /\ p[i].docs \subseteq p[j].docs
<1> SUFFICES ASSUME NEW i \in DOMAIN q, q[i].do \in Removing
             PROVE  \/ q[i].docs \cap M = {}
                    \/ \E j \in 1 .. i - 1 : writes(q, j, i)
  BY DEF Rewritten
<1>1. i \in Nat /\ i - k \in DOMAIN t /\ q[i] = t[i - k]
  BY DEF EndsIn
<1>2. CASE q[i].docs \cap M = {}
  BY <1>2
<1>3. CASE q[i].docs \cap M # {}
  <2>1. PICK j \in 1 .. (i - k) - 1 : writes(t, j, i - k)
    BY <1>1, <1>3 DEF Rewritten
  <2>2. j + k \in 1 .. i - 1 /\ j \in DOMAIN t
    <3>1. DOMAIN t = 1 .. Len(t) /\ Len(t) \in Nat
      BY LenProperties DEF Plan
    <3> QED BY <1>1, <2>1, <3>1
  <2>3. q[j + k] = t[j]
    BY <2>2 DEF EndsIn
  <2> QED BY <1>1, <2>1, <2>2, <2>3
<1> QED BY <1>2, <1>3

(* After an ingestion, a registration or a save, whatever is on disk now.     *)
LEMMA RewrittenBefore ==
    ASSUME NEW q \in Plan, NEW j \in DOMAIN q, q[j].do \in {"ingest", "register", "move_metadata"},
           \A i \in 1 .. j : q[i].do \notin Removing
    PROVE  \A M : Rewritten(q, M)
<1>1. DOMAIN q = 1 .. Len(q) /\ Len(q) \in Nat
  BY LenProperties DEF Plan
<1>2. ASSUME NEW i \in DOMAIN q, q[i].do \in Removing
      PROVE  j \in 1 .. i - 1
  <2>1. i \notin 1 .. j /\ i \in Nat /\ j \in Nat /\ i >= 1 /\ j >= 1
    BY <1>1, <1>2
  <2> QED BY <2>1
<1> QED BY <1>2 DEF Rewritten

(* What a plan covers, it rewrites.                                          *)
LEMMA CoveredRewrites ==
    ASSUME NEW p, NEW S, Covered(p, S)
    PROVE  Rewritten(p, S)
BY DEF Covered, Rewritten

(* What a plan covers, it covers with the chunks of one document more that    *)
(* none of its steps is about.                                               *)
LEMMA CoveredMore ==
    ASSUME NEW p, NEW S, Covered(p, S), NEW d, \A i \in DOMAIN p : d \notin p[i].docs
    PROVE  Covered(p, S \cup {d})
BY DEF Covered

-----------------------------------------------------------------------------
(* What a step of each kind leaves of the promises *)

(* What every step but the first of a plan promised.                         *)
LEMMA TailPromises ==
    ASSUME NEW p \in Plan, p # <<>>, NEW s, NEW k, NEW D, NEW l, NEW n, NEW c, NEW f, NEW F,
           Sound(p, s, k, D, l, n, c, f, F)
    PROVE  /\ Shape(Tail(p)) /\ Ids(Tail(p), D, n)
           /\ p[1].do \notin Opening => Plain(Tail(p))
           /\ p[1].do \notin Moving \cup {"exit"} => ~Has(Tail(p), "exit")
           /\ p[1].do \notin Held => l = None
           /\ (l # None /\ p[1].do \notin Settling) => Decides(Tail(p))
           /\ p[1].do # "forget" => Covered(Tail(p), Owners(s))
           /\ Covered(Tail(p), Owners(s) \ p[1].docs)
           /\ (p[1].do \notin {"register", "write_tmp", "move_index"} /\ Tail(p) # <<>>) =>
                 Tail(p)[1].do \notin Moving
           /\ Has(Tail(p), "exit") => Has(p, "exit")
           /\ Has(Tail(p), "forget") => Has(p, "forget")
           /\ (/\ p[1].do \notin Saving
               /\ p[1].do = "reingest" => F[p[1].row.file] = None
               /\ Dirty(p, F)) =>
                 \E i \in DOMAIN Tail(p) : Tail(p)[i].do \in Saving
<1>1. PICK t \in Plan : t = Tail(p)
  BY TailIs
<1>2. /\ \A i \in DOMAIN t : i \in Nat /\ i >= 1 /\ i + 1 \in DOMAIN p /\ t[i] = p[i + 1]
      /\ \A i \in DOMAIN p : i # 1 => i - 1 \in DOMAIN t /\ t[i - 1] = p[i]
      /\ t # <<>> => 1 \in DOMAIN t /\ t[1] = p[2] /\ 2 \in DOMAIN p
      /\ 1 \in DOMAIN p
  BY <1>1, TailIs
<1>3. /\ Shape(p) /\ Ids(p, D, n) /\ Locked(p, l) /\ Covered(p, Owners(s))
  BY DEF Sound
<1>4. Shape(t) /\ Ids(t, D, n) /\ (p[1].do \notin Moving \cup {"exit"} => ~Has(t, "exit"))
  BY <1>1, <1>2, <1>3, ShapeTail DEF Ids
<1>5. p[1].do \notin Opening => Plain(t)
  BY <1>1, <1>3, ShapeTail DEF Plain, Opening, Has
<1>6. /\ p[1].do \notin Held => l = None
      /\ (l # None /\ p[1].do \notin Settling) => Decides(t)
  <2>1. p[1].do \notin Held => l = None
    BY <1>2, <1>3 DEF Locked, Decides
  <2>2. (l # None /\ p[1].do \notin Settling) => Decides(t)
    BY <1>1, <1>3, DecidesTail DEF Locked
  <2> QED BY <2>1, <2>2
<1>7. (p[1].do # "forget" => Covered(t, Owners(s))) /\ Covered(t, Owners(s) \ p[1].docs)
  BY <1>1, <1>3, CoveredTail
<1>8. (p[1].do \notin {"register", "write_tmp", "move_index"} /\ t # <<>>) => t[1].do \notin Moving
  <2> SUFFICES ASSUME p[1].do \notin {"register", "write_tmp", "move_index"}, t # <<>>
               PROVE  t[1].do \notin Moving
    OBVIOUS
  <2>1. /\ p[2].do = "write_tmp" => p[2 - 1].do = "register"
        /\ p[2].do = "move_index" => p[2 - 1].do = "write_tmp"
        /\ p[2].do = "move_metadata" => p[2 - 1].do = "move_index"
    BY <1>2, <1>3 DEF Shape, SavesInOrder
  <2> QED BY <1>2, <2>1 DEF Moving
<1>9. /\ Has(t, "exit") => Has(p, "exit")
      /\ Has(t, "forget") => Has(p, "forget")
  BY <1>2 DEF Has
<1>10. (/\ p[1].do \notin Saving
        /\ p[1].do = "reingest" => F[p[1].row.file] = None
        /\ Dirty(p, F)) =>
          \E i \in DOMAIN t : t[i].do \in Saving
  BY <1>2 DEF Dirty
<1> QED BY <1>1, <1>4, <1>5, <1>6, <1>7, <1>8, <1>9, <1>10

(* Steps that touch no index and no promise: a file goes or is not there, a   *)
(* row is updated, or goes after its chunks; the lock is taken or let go.     *)
LEMMA PlainStep ==
    ASSUME NEW p \in Plan, p # <<>>, NEW s, NEW k, NEW D, NEW l, NEW n, NEW c, NEW f, NEW F,
           Sound(p, s, k, D, l, n, c, f, F),
           p[1].do \in {"unlink", "set_status", "drop_old", "commit_approval", "reingest"} \cup Opening,
           p[1].do = "reingest" => F[p[1].row.file] = None,
           NEW E, E = IF p[1].do = "drop_old" THEN D \ p[1].docs ELSE D,
           NEW m, m # None => Decides(Tail(p)), NEW G
    PROVE  Sound(Tail(p), s, k, E, m, n, c, f, G)
<1>1. PICK t \in Plan : t = Tail(p)
  BY TailIs
<1>2. /\ p[1].do \notin Saving /\ p[1].do \notin {"register", "write_tmp", "move_index"}
      /\ p[1].do \notin {"forget", "ingest", "move_metadata"}
      /\ p[1].do = "drop_old" => p[1].do \in Removing
  BY DEF Opening, Saving, Moving, Removing
<1>3. /\ Shape(t) /\ Ids(t, D, n) /\ Covered(t, Owners(s))
      /\ t # <<>> => t[1].do \notin Moving
      /\ Has(t, "exit") => Has(p, "exit")
      /\ Has(t, "forget") => Has(p, "forget")
      /\ Dirty(p, F) => Dirty(t, G)
  BY <1>1, <1>2, TailPromises DEF Dirty
<1>4. /\ Covered(p, Owners(s)) /\ Known(p, s, D, c, f) /\ DiskKnown(p, k, D, c, f)
      /\ DiskSynced(p, s, k, c, f, F) /\ (Has(p, "exit") => c # 0)
  BY DEF Sound
<1>5. Ids(t, E, n)
  BY <1>3 DEF Ids
<1>6. Temporaries(t, s, k)
  BY <1>3 DEF Temporaries, Moving
<1>7. Known(t, s, E, c, f)
  <2>1. p[1].do = "drop_old" => p[1].docs \cap Owners(s) = {}
    BY <1>2, <1>4, CoveredTail
  <2>2. Registering(p) = {}
    BY <1>2 DEF Registering
  <2> QED BY <1>4, <2>1, <2>2 DEF Known
<1>8. DiskKnown(t, k, E, c, f)
  <2> SUFFICES ASSUME Unharmed(t, c, f) PROVE Listed(k) \subseteq E /\ Rewritten(t, Listed(k))
    BY DEF DiskKnown
  <2>1. Listed(k) \subseteq D /\ Rewritten(p, Listed(k))
    BY <1>3, <1>4 DEF Unharmed, DiskKnown
  <2>2. p[1].do = "drop_old" => p[1].docs \cap Listed(k) = {}
    BY <1>2, <2>1, RewrittenTail
  <2>3. Rewritten(t, Listed(k))
    BY <1>1, <1>2, <2>1, RewrittenTail
  <2> QED BY <2>1, <2>2, <2>3
<1>9. DiskSynced(t, s, k, c, f, G)
  BY <1>3, <1>4 DEF DiskSynced
<1>10. Locked(t, m)
  BY <1>1 DEF Locked
<1> QED BY <1>1, <1>3, <1>4, <1>5, <1>6, <1>7, <1>8, <1>9, <1>10 DEF Sound

(* Rows go after their chunks; their files are still to go.                   *)
LEMMA DeleteStep ==
    ASSUME NEW p \in Plan, p # <<>>, NEW s, NEW k, NEW D, NEW n \in Nat, NEW c, NEW f, NEW F,
           Sound(p, s, k, D, None, n, c, f, F),
           p[1].do = "delete",
           NEW q \in Plan, EndsIn(q, 1, Tail(p)),
           q[1].do = "unlink", q[1].docs = {}, q[1].id = 0
    PROVE  Sound(q, s, k, D \ p[1].docs, None, n, c, f, F)
<1>1. PICK t \in Plan : t = Tail(p)
  BY TailIs
<1>2. /\ p[1].do \notin Saving /\ p[1].do \notin {"register", "write_tmp", "move_index"}
      /\ p[1].do \notin {"forget", "reingest", "ingest", "move_metadata"}
      /\ p[1].do \notin Opening /\ p[1].do \notin Moving \cup {"exit"}
      /\ p[1].do \in Removing
  BY DEF Opening, Saving, Moving, Removing
<1>3. /\ Shape(t) /\ Plain(t) /\ ~Has(t, "exit") /\ Ids(t, D, n) /\ Covered(t, Owners(s))
      /\ t # <<>> => t[1].do \notin Moving
      /\ Dirty(p, F) => \E i \in DOMAIN t : t[i].do \in Saving
  BY <1>1, <1>2, TailPromises
<1>4. /\ Covered(p, Owners(s)) /\ Known(p, s, D, c, f) /\ DiskKnown(p, k, D, c, f)
      /\ DiskSynced(p, s, k, c, f, F)
  BY DEF Sound
<1>5. /\ EndsIn(q, 1, t) /\ 1 \in DOMAIN q
      /\ \A i \in 1 .. 1 : q[i].do = "unlink" /\ q[i].docs = {} /\ q[i].id = 0
  BY <1>1 DEF EndsIn
<1>6. SavesInOrder(q)
  BY <1>3, <1>5, SavesAfter DEF Shape
<1>7. Shape(q) /\ Plain(q) /\ ~Has(q, "exit")
  BY <1>3, <1>5, <1>6, ShapeAfter DEF Opening
<1>8. Ids(q, D \ p[1].docs, n)
  <2>1. \A i \in DOMAIN q : i \in 1 .. 1 \/ (i - 1 \in DOMAIN t /\ q[i] = t[i - 1])
    BY <1>5 DEF EndsIn
  <2>2. \A i \in DOMAIN q : q[i].id <= n
    BY <1>3, <1>5, <2>1 DEF Ids
  <2> QED BY <1>3, <2>2 DEF Ids
<1>9. Covered(q, Owners(s))
  BY <1>3, <1>5, CoveredAfter DEF Removing
<1>10. Temporaries(q, s, k)
  BY DEF Temporaries
<1>11. Known(q, s, D \ p[1].docs, c, f)
  <2>1. p[1].docs \cap Owners(s) = {}
    BY <1>2, <1>4, CoveredTail
  <2> QED BY <1>2, <1>4, <2>1 DEF Known, Registering
<1>12. DiskKnown(q, k, D \ p[1].docs, c, f)
  <2> SUFFICES ASSUME Unharmed(q, c, f)
               PROVE  Listed(k) \subseteq D \ p[1].docs /\ Rewritten(q, Listed(k))
    BY DEF DiskKnown
  <2>1. Listed(k) \subseteq D /\ Rewritten(p, Listed(k))
    BY <1>4, <1>7 DEF Unharmed, DiskKnown
  <2>2. p[1].docs \cap Listed(k) = {}
    BY <1>2, <2>1, RewrittenTail
  <2>3. Rewritten(t, Listed(k))
    BY <1>1, <1>2, <2>1, RewrittenTail
  <2>4. Rewritten(q, Listed(k))
    BY <1>5, <2>3, RewrittenAfter DEF Removing
  <2> QED BY <2>1, <2>2, <2>4
<1>13. DiskSynced(q, s, k, c, f, F)
  <2>1. ~Has(q, "forget")
    BY <1>7 DEF Plain, Has
  <2>2. Dirty(p, F) => Dirty(q, F)
    BY <1>3, <1>5 DEF Dirty, EndsIn
  <2> QED BY <1>4, <2>1, <2>2 DEF DiskSynced
<1> QED BY <1>7, <1>8, <1>9, <1>10, <1>11, <1>12, <1>13 DEF Sound, Locked

(* Nothing was there to forget.                                              *)
LEMMA ForgetNothingStep ==
    ASSUME NEW p \in Plan, p # <<>>, NEW s \in Seq(Chunk), NEW k \in Disk, NEW D, NEW l, NEW n,
           NEW c, NEW f, NEW F,
           Sound(p, s, k, D, l, n, c, f, F),
           p[1].do = "forget", p[1].docs \cap Owners(s) = {}
    PROVE  Sound(Tail(p), s, k, D, l, n, c, f, F)
<1>1. PICK t \in Plan : t = Tail(p)
  BY TailIs
<1>2. /\ p[1].do \notin Saving /\ p[1].do \notin Opening /\ p[1].do \notin Settling
      /\ p[1].do \notin {"register", "write_tmp", "move_index"} /\ p[1].do # "reingest"
      /\ p[1].do \notin Moving \cup {"exit"}
  BY DEF Opening, Saving, Moving, Settling
<1>3. /\ Shape(t) /\ Plain(t) /\ ~Has(t, "exit") /\ Ids(t, D, n) /\ Covered(t, Owners(s) \ p[1].docs)
      /\ t # <<>> => t[1].do \notin Moving
      /\ Dirty(p, F) => \E i \in DOMAIN t : t[i].do \in Saving
      /\ l # None => Decides(t)
  <2>1. l # None => Decides(t)
    BY <1>1, <1>2, DecidesTail DEF Sound, Locked
  <2> QED BY <1>1, <1>2, <2>1, TailPromises
<1>4. /\ Known(p, s, D, c, f) /\ DiskKnown(p, k, D, c, f) /\ DiskSynced(p, s, k, c, f, F)
  BY DEF Sound
<1>5. Covered(t, Owners(s))
  <2>1. Owners(s) \ p[1].docs = Owners(s)
    OBVIOUS
  <2> QED BY <1>3, <2>1
<1>6. Temporaries(t, s, k)
  BY <1>3 DEF Temporaries, Moving
<1>7. Known(t, s, D, c, f)
  BY <1>2, <1>4 DEF Known, Registering
<1>8. DiskKnown(t, k, D, c, f)
  <2> SUFFICES ASSUME Unharmed(t, c, f) PROVE Listed(k) \subseteq D /\ Rewritten(t, Listed(k))
    BY DEF DiskKnown
  <2>1. c = 0 /\ f = 0
    BY <1>3 DEF Unharmed
  <2>2. Listed(k) \subseteq D
    BY <1>4, <2>1 DEF Unharmed, DiskKnown
  <2>3. k.metadata = Metadata(s)
    <3>1. Has(p, "forget")
      BY TailIs DEF Has
    <3> QED BY <1>4, <2>1, <3>1 DEF DiskSynced, Synced
  <2>4. Listed(k) = Owners(s)
    BY <2>3, MetadataAreOwners
  <2> QED BY <1>5, <2>2, <2>4, CoveredRewrites
<1>9. DiskSynced(t, s, k, c, f, F)
  <2>1. ~Has(t, "forget")
    BY <1>3 DEF Plain, Has
  <2> QED BY <1>3, <1>4, <2>1 DEF DiskSynced, Dirty
<1> QED BY <1>1, <1>3, <1>5, <1>6, <1>7, <1>8, <1>9 DEF Sound, Locked

(* A save is put before the rest: chunks were forgotten, or the keyword index *)
(* was rebuilt.                                                              *)
LEMMA SaveBegins ==
    ASSUME NEW p \in Plan, p # <<>>, NEW s, NEW k, NEW D, NEW l, NEW n \in Nat, NEW c, NEW f, NEW F,
           Sound(p, s, k, D, l, n, c, f, F),
           p[1].do \in {"forget", "rebuild_keyword"},
           NEW r, Owners(r) \subseteq Owners(s), Covered(Tail(p), Owners(r)),
           NEW q \in Plan, EndsIn(q, 3, Tail(p)),
           q[1].do = "write_tmp", q[2].do = "move_index", q[3].do = "move_metadata",
           \A i \in 1 .. 3 : q[i].docs = {} /\ q[i].id = 0
    PROVE  Sound(q, r, k, D, l, n, c, f, F)
<1>1. PICK t \in Plan : t = Tail(p)
  BY TailIs
<1>2. /\ p[1].do \notin {"register", "write_tmp", "move_index"} /\ p[1].do \notin Opening
      /\ p[1].do \notin Moving \cup {"exit"} /\ p[1].do \notin Settling /\ p[1].do # "register"
  BY DEF Opening, Moving, Settling
<1>3. /\ Shape(t) /\ Plain(t) /\ ~Has(t, "exit") /\ Ids(t, D, n)
      /\ t # <<>> => t[1].do \notin Moving
  BY <1>1, <1>2, TailPromises
<1>4. Known(p, s, D, c, f) /\ DiskKnown(p, k, D, c, f)
  BY DEF Sound
<1>5. /\ \A i \in 1 .. 3 : i = 1 \/ i = 2 \/ i = 3
      /\ \A i \in 1 .. 3 : i \in DOMAIN q
      /\ \A i \in DOMAIN q : i \in 1 .. 3 \/ (i - 3 \in DOMAIN t /\ q[i] = t[i - 3])
      /\ EndsIn(q, 3, t)
  BY <1>1 DEF EndsIn
<1>6. \A i \in 1 .. 3 : q[i].do \in Moving
  BY <1>5 DEF Moving
<1>7. SavesInOrder(q)
  <2>1. \A i \in 1 .. 3 :
           /\ q[i].do = "register" => i < 3 /\ q[i + 1].do = "write_tmp"
           /\ q[i].do = "write_tmp" => i < 3 /\ q[i + 1].do = "move_index"
           /\ q[i].do = "move_index" => i < 3 /\ q[i + 1].do = "move_metadata"
           /\ q[i].do = "write_tmp" => i = 1 \/ q[i - 1].do = "register"
           /\ q[i].do = "move_index" => i = 1 \/ q[i - 1].do = "write_tmp"
           /\ q[i].do = "move_metadata" => i = 1 \/ q[i - 1].do = "move_index"
    <3> SUFFICES ASSUME NEW i \in 1 .. 3
                 PROVE
           /\ q[i].do = "register" => i < 3 /\ q[i + 1].do = "write_tmp"
           /\ q[i].do = "write_tmp" => i < 3 /\ q[i + 1].do = "move_index"
           /\ q[i].do = "move_index" => i < 3 /\ q[i + 1].do = "move_metadata"
           /\ q[i].do = "write_tmp" => i = 1 \/ q[i - 1].do = "register"
           /\ q[i].do = "move_index" => i = 1 \/ q[i - 1].do = "write_tmp"
           /\ q[i].do = "move_metadata" => i = 1 \/ q[i - 1].do = "move_index"
      OBVIOUS
    <3>1. i = 1 \/ i = 2 \/ i = 3
      BY <1>5
    <3> QED BY <3>1
  <2> QED BY <1>3, <1>5, <2>1, SavesAfter DEF Shape
<1>8. Shape(q) /\ Plain(q) /\ ~Has(q, "exit")
  BY <1>3, <1>5, <1>6, <1>7, ShapeAfter DEF Opening, Moving
<1>9. Ids(q, D, n)
  BY <1>3, <1>5 DEF Ids
<1>10. Locked(q, l)
  <2> SUFFICES ASSUME l # None PROVE Decides(q)
    BY DEF Locked
  <2>1. Decides(t)
    BY <1>1, <1>2, DecidesTail DEF Sound, Locked
  <2>2. \A i \in DOMAIN q : q[i].do \in Held
    BY <1>5, <1>6, <2>1 DEF Decides, Held
  <2>3. PICK i \in DOMAIN t : t[i].do \in Settling
    BY <2>1 DEF Decides
  <2>4. i + 3 \in DOMAIN q /\ q[i + 3] = t[i]
    BY <1>5 DEF EndsIn
  <2> QED BY <2>2, <2>3, <2>4 DEF Decides
<1>11. Covered(q, Owners(r))
  BY <1>1, <1>5, <1>6, CoveredAfter DEF Removing, Moving
<1>12. Temporaries(q, r, k)
  BY DEF Temporaries
<1>13. Known(q, r, D, c, f)
  BY <1>2, <1>4 DEF Known, Registering
<1>14. DiskKnown(q, k, D, c, f)
  <2>1. Rewritten(q, Listed(k))
    BY <1>5, <1>6, RewrittenBefore DEF Removing, Moving
  <2> QED BY <1>4, <1>8, <2>1 DEF DiskKnown, Unharmed
<1>15. DiskSynced(q, r, k, c, f, F)
  <2>1. ~Has(q, "forget") /\ Dirty(q, F)
    BY <1>5, <1>6, <1>8 DEF Plain, Has, Dirty, Saving
  <2> QED BY <2>1 DEF DiskSynced
<1> QED BY <1>8, <1>9, <1>10, <1>11, <1>12, <1>13, <1>14, <1>15 DEF Sound

(* A save writes what memory holds, and moves the vectors into place.         *)
LEMMA SavingStep ==
    ASSUME NEW p \in Plan, p # <<>>, NEW s, NEW k, NEW D, NEW l, NEW n, NEW c, NEW f, NEW F,
           Sound(p, s, k, D, l, n, c, f, F),
           p[1].do \in {"write_tmp", "move_index"},
           NEW m, m.metadata = k.metadata,
           p[1].do = "write_tmp" => m.indexTmp = Vectors(s) /\ m.metadataTmp = Metadata(s),
           p[1].do = "move_index" => m.index = k.indexTmp /\ m.metadataTmp = k.metadataTmp
    PROVE  Sound(Tail(p), s, m, D, l, n, c, f, F)
<1>1. PICK t \in Plan : t = Tail(p)
  BY TailIs
<1>2. /\ p[1].do \notin Opening /\ p[1].do \notin Removing /\ p[1].do \notin Settling
      /\ p[1].do \notin {"forget", "ingest", "register", "move_metadata"}
  BY DEF Opening, Removing, Settling
<1>3. /\ Shape(t) /\ Plain(t) /\ Ids(t, D, n) /\ Covered(t, Owners(s))
      /\ Has(t, "exit") => Has(p, "exit")
  BY <1>1, <1>2, TailPromises
<1>4. /\ Shape(p) /\ Known(p, s, D, c, f) /\ DiskKnown(p, k, D, c, f) /\ Temporaries(p, s, k)
      /\ (Has(p, "exit") => c # 0)
  BY DEF Sound
<1>5. /\ t # <<>> /\ 1 \in DOMAIN t
      /\ p[1].do = "write_tmp" => t[1].do = "move_index"
      /\ p[1].do = "move_index" => t[1].do = "move_metadata"
  <2>1. /\ 1 \in DOMAIN p
        /\ p[1].do = "write_tmp" => 1 + 1 \in DOMAIN p /\ p[1 + 1].do = "move_index"
        /\ p[1].do = "move_index" => 1 + 1 \in DOMAIN p /\ p[1 + 1].do = "move_metadata"
    BY <1>4, TailIs DEF Shape, SavesInOrder
  <2>2. 2 \in DOMAIN p /\ (2 - 1 \in DOMAIN t /\ t[2 - 1] = p[2])
    BY <1>1, <2>1, TailIs
  <2>3. 1 \in DOMAIN t /\ t[1] = p[2]
    BY <2>2
  <2>4. t # <<>>
    BY <2>3
  <2> QED BY <2>1, <2>3, <2>4
<1>6. Locked(t, l)
  BY <1>1, <1>2, DecidesTail DEF Sound, Locked
<1>7. Temporaries(t, s, m)
  BY <1>4, <1>5 DEF Temporaries
<1>8. Known(t, s, D, c, f)
  BY <1>4, <1>5 DEF Known, Registering
<1>9. DiskKnown(t, m, D, c, f)
  <2> SUFFICES ASSUME Unharmed(t, c, f) PROVE Listed(m) \subseteq D /\ Rewritten(t, Listed(m))
    BY DEF DiskKnown
  <2>1. Listed(m) = Listed(k)
    BY DEF Listed
  <2>2. Listed(k) \subseteq D /\ Rewritten(p, Listed(k))
    BY <1>3, <1>4 DEF Unharmed, DiskKnown
  <2>3. Rewritten(t, Listed(k))
    BY <1>1, <1>2, <2>2, RewrittenTail
  <2> QED BY <2>1, <2>2, <2>3
<1>10. DiskSynced(t, s, m, c, f, F)
  BY <1>3, <1>5 DEF DiskSynced, Plain, Has, Dirty, Saving, Moving
<1> QED BY <1>1, <1>3, <1>4, <1>6, <1>7, <1>8, <1>9, <1>10 DEF Sound

(* A save is done: the files load to what memory holds.                       *)
LEMMA SavedStep ==
    ASSUME NEW p \in Plan, p # <<>>, NEW s \in Seq(Chunk), NEW k \in Disk, NEW D, NEW l, NEW n,
           NEW c, NEW f, NEW F,
           Sound(p, s, k, D, l, n, c, f, F),
           p[1].do = "move_metadata",
           NEW m \in Disk, m.index = k.index, m.metadata = k.metadataTmp
    PROVE  Sound(Tail(p), s, m, D, l, n, c, f, F)
<1>1. PICK t \in Plan : t = Tail(p)
  BY TailIs
<1>2. /\ p[1].do \notin Opening /\ p[1].do \notin Settling /\ p[1].do # "forget"
      /\ p[1].do \notin {"register", "write_tmp", "move_index"}
  BY DEF Opening, Settling
<1>3. /\ Shape(t) /\ Plain(t) /\ Ids(t, D, n) /\ Covered(t, Owners(s))
      /\ t # <<>> => t[1].do \notin Moving
      /\ Has(t, "exit") => Has(p, "exit")
  BY <1>1, <1>2, TailPromises
<1>4. Known(p, s, D, c, f) /\ Temporaries(p, s, k) /\ (Has(p, "exit") => c # 0)
  BY DEF Sound
<1>5. m.index = Vectors(s) /\ m.metadata = Metadata(s)
  BY <1>4 DEF Temporaries
<1>6. Synced(s, m, c)
  BY <1>5, SavedLoads DEF Synced
<1>7. Listed(m) = Owners(s)
  BY <1>5, MetadataAreOwners
<1>8. Locked(t, l)
  BY <1>1, <1>2, DecidesTail DEF Sound, Locked
<1>9. Temporaries(t, s, m)
  BY <1>3 DEF Temporaries, Moving
<1>10. Known(t, s, D, c, f)
  BY <1>2, <1>4 DEF Known, Registering
<1>11. DiskKnown(t, m, D, c, f)
  <2> SUFFICES ASSUME Unharmed(t, c, f) PROVE Listed(m) \subseteq D /\ Rewritten(t, Listed(m))
    BY DEF DiskKnown
  <2>1. Owners(s) \subseteq D
    BY <1>2, <1>4 DEF Unharmed, Known, Registering
  <2> QED BY <1>3, <1>7, <2>1, CoveredRewrites
<1>12. DiskSynced(t, s, m, c, f, F)
  BY <1>6 DEF DiskSynced
<1> QED BY <1>1, <1>3, <1>4, <1>8, <1>9, <1>10, <1>11, <1>12 DEF Sound

(* Nothing is left to do, or to promise.                                      *)
LEMMA NothingIsPromised ==
    /\ Shape(<<>>)
    /\ \A e : ~Has(<<>>, e)
    /\ \A S : Covered(<<>>, S) /\ Rewritten(<<>>, S)
    /\ \A D, n : D \subseteq 1 .. n => Ids(<<>>, D, n)
    /\ Registering(<<>>) = {}
    /\ ~Decides(<<>>)
    /\ \A F : ~Dirty(<<>>, F)
    /\ \A s, k : Temporaries(<<>>, s, k)
<1>1. PICK p \in Plan : p = <<>>
  BY PlanNone
<1>2. \A i : i \notin DOMAIN p
  BY <1>1
<1>3. Shape(p)
  BY <1>2 DEF Shape, SavesInOrder, ForgetsFirst, OpensFirst, IdsAreFresh, MakesRows, StopsOnly, Has
<1>4. \A e : ~Has(p, e)
  BY <1>2 DEF Has
<1>5. \A S : Covered(p, S) /\ Rewritten(p, S)
  BY <1>2 DEF Covered, Rewritten
<1>6. \A D, n : D \subseteq 1 .. n => Ids(p, D, n)
  BY <1>2 DEF Ids
<1>7. Registering(p) = {} /\ ~Decides(p) /\ (\A F : ~Dirty(p, F)) /\ \A s, k : Temporaries(p, s, k)
  BY <1>1, <1>2 DEF Registering, Decides, Dirty, Temporaries
<1> QED BY <1>1, <1>3, <1>4, <1>5, <1>6, <1>7

(* A document is ingested: its row, and a save, come next.                    *)
LEMMA IngestStep ==
    ASSUME NEW p \in Plan, p # <<>>, NEW s, NEW k, NEW D, NEW l, NEW n \in Nat, NEW c, NEW f, NEW F,
           Sound(p, s, k, D, l, n, c, f, F),
           p[1].do = "ingest",
           NEW r, Owners(r) = Owners(s) \cup {p[1].id},
           NEW q \in Plan, EndsIn(q, 4, Tail(p)),
           q[1].do = "register", q[1].id = p[1].id, q[1].row = p[1].row,
           q[2].do = "write_tmp", q[3].do = "move_index", q[4].do = "move_metadata",
           \A i \in 1 .. 4 : q[i].docs = {}, \A i \in 2 .. 4 : q[i].id = 0,
           NEW G
    PROVE  Sound(q, r, k, D, l, n, c, f, G)
<1>1. PICK t \in Plan : t = Tail(p)
  BY TailIs
<1>2. /\ p[1].do \notin {"register", "write_tmp", "move_index"} /\ p[1].do \notin Opening
      /\ p[1].do \notin Moving \cup {"exit"} /\ p[1].do \notin Held /\ p[1].do # "forget"
      /\ p[1].do # "register"
  BY DEF Opening, Moving, Held
<1>3. /\ Shape(t) /\ Plain(t) /\ ~Has(t, "exit") /\ Ids(t, D, n) /\ Covered(t, Owners(s))
      /\ t # <<>> => t[1].do \notin Moving
  BY <1>1, <1>2, TailPromises
<1>16. l = None
  BY <1>2, TailIs DEF Sound, Locked, Decides
<1>4. Shape(p) /\ Ids(p, D, n) /\ Known(p, s, D, c, f) /\ DiskKnown(p, k, D, c, f)
  BY DEF Sound
<1>5. /\ \A i \in 1 .. 4 : i = 1 \/ i = 2 \/ i = 3 \/ i = 4
      /\ \A i \in 1 .. 4 : i \in DOMAIN q
      /\ \A i \in DOMAIN q : i \in 1 .. 4 \/ (i - 4 \in DOMAIN t /\ q[i] = t[i - 4])
      /\ EndsIn(q, 4, t)
  BY <1>1 DEF EndsIn
<1>6. \A i \in 1 .. 4 : q[i].do \in Moving \cup {"register"}
  BY <1>5 DEF Moving
<1>7. p[1].id \in DocId /\ p[1].row.status # "none" /\ p[1].id <= n
  BY <1>4, TailIs DEF Shape, MakesRows, Ids
<1>8. SavesInOrder(q)
  <2>1. \A i \in 1 .. 4 :
           /\ q[i].do = "register" => i < 4 /\ q[i + 1].do = "write_tmp"
           /\ q[i].do = "write_tmp" => i < 4 /\ q[i + 1].do = "move_index"
           /\ q[i].do = "move_index" => i < 4 /\ q[i + 1].do = "move_metadata"
           /\ q[i].do = "write_tmp" => i = 1 \/ q[i - 1].do = "register"
           /\ q[i].do = "move_index" => i = 1 \/ q[i - 1].do = "write_tmp"
           /\ q[i].do = "move_metadata" => i = 1 \/ q[i - 1].do = "move_index"
    <3> SUFFICES ASSUME NEW i \in 1 .. 4
                 PROVE
           /\ q[i].do = "register" => i < 4 /\ q[i + 1].do = "write_tmp"
           /\ q[i].do = "write_tmp" => i < 4 /\ q[i + 1].do = "move_index"
           /\ q[i].do = "move_index" => i < 4 /\ q[i + 1].do = "move_metadata"
           /\ q[i].do = "write_tmp" => i = 1 \/ q[i - 1].do = "register"
           /\ q[i].do = "move_index" => i = 1 \/ q[i - 1].do = "write_tmp"
           /\ q[i].do = "move_metadata" => i = 1 \/ q[i - 1].do = "move_index"
      OBVIOUS
    <3>1. i = 1 \/ i = 2 \/ i = 3 \/ i = 4
      BY <1>5
    <3> QED BY <3>1
  <2> QED BY <1>3, <1>5, <2>1, SavesAfter DEF Shape
<1>9. Shape(q) /\ Plain(q) /\ ~Has(q, "exit")
  <2>1. \A i \in 1 .. 4 :
           /\ q[i].do \notin Opening \cup {"forget", "ingest", "reingest", "exit"} /\ q[i].docs = {}
           /\ q[i].do \in {"register", "set_status"} => i = 1
    BY <1>5 DEF Opening
  <2> QED BY <1>3, <1>5, <1>7, <1>8, <2>1, ShapeAfter
<1>10. Ids(q, D, n)
  <2>1. \A i \in 1 .. 4 : q[i].id <= n
    BY <1>5, <1>7
  <2> QED BY <1>3, <1>5, <2>1 DEF Ids
<1>11. Covered(q, Owners(r))
  <2>1. \A i \in DOMAIN t : p[1].id \notin t[i].docs
    BY <1>1, <1>4, TailIs DEF Shape, IdsAreFresh
  <2>2. PICK d, S : d = p[1].id /\ S = Owners(s)
    OBVIOUS
  <2>3. Covered(t, S \cup {d})
    BY <1>3, <2>1, <2>2, CoveredMore
  <2>4. Covered(t, Owners(r))
    BY <2>2, <2>3
  <2> QED BY <1>5, <1>6, <2>4, CoveredAfter DEF Removing, Moving
<1>12. Temporaries(q, r, k)
  BY DEF Temporaries
<1>13. Known(q, r, D, c, f)
  <2>1. Registering(p) = {} /\ Registering(q) = {p[1].id}
    BY <1>2, <1>5 DEF Registering
  <2> QED BY <1>4, <2>1 DEF Known
<1>14. DiskKnown(q, k, D, c, f)
  <2>1. Rewritten(q, Listed(k))
    BY <1>5, RewrittenBefore DEF Removing
  <2> QED BY <1>4, <1>9, <2>1 DEF DiskKnown, Unharmed
<1>15. DiskSynced(q, r, k, c, f, G)
  <2>1. ~Has(q, "forget") /\ Dirty(q, G)
    BY <1>5, <1>9 DEF Plain, Has, Dirty, Saving
  <2> QED BY <2>1 DEF DiskSynced
<1> QED BY <1>9, <1>10, <1>11, <1>12, <1>13, <1>14, <1>15, <1>16 DEF Sound, Locked

(* An ingestion fails: only what a death may have left is still at stake.     *)
LEMMA IngestFailsStep ==
    ASSUME NEW p \in Plan, p # <<>>, NEW s, NEW k, NEW D, NEW l, NEW n, NEW c, NEW f \in Nat, NEW F,
           Sound(p, s, k, D, l, n, c, f, F),
           p[1].do = "ingest",
           NEW q \in Plan, q = Tail(p) \/ q = <<>>, NEW G
    PROVE  Sound(q, s, k, D, l, n, c, f + 1, G)
<1>1. PICK t \in Plan : t = Tail(p)
  BY TailIs
<1>2. /\ p[1].do \notin {"register", "write_tmp", "move_index"}
      /\ p[1].do \notin Moving \cup {"exit"} /\ p[1].do \notin Held /\ p[1].do # "forget"
  BY DEF Moving, Held
<1>3. /\ Shape(t) /\ ~Has(t, "exit") /\ Ids(t, D, n) /\ Covered(t, Owners(s))
      /\ t # <<>> => t[1].do \notin Moving
  BY <1>1, <1>2, TailPromises
<1>10. l = None
  BY <1>2, TailIs DEF Sound, Locked, Decides
<1>4. Known(p, s, D, c, f)
  BY DEF Sound
<1>5. f + 1 # 0
  OBVIOUS
<1>6. Shape(q) /\ ~Has(q, "exit") /\ Ids(q, D, n) /\ Covered(q, Owners(s))
  BY <1>1, <1>3, NothingIsPromised DEF Ids
<1>7. Temporaries(q, s, k)
  BY <1>1, <1>3 DEF Temporaries, Moving
<1>8. Known(q, s, D, c, f + 1)
  BY <1>4, <1>5 DEF Known, Registering
<1>9. DiskKnown(q, k, D, c, f + 1) /\ DiskSynced(q, s, k, c, f + 1, G)
  BY <1>5 DEF DiskKnown, DiskSynced, Unharmed
<1> QED BY <1>6, <1>7, <1>8, <1>9, <1>10 DEF Sound, Locked

(* A row is made; the save that follows is on its way.                        *)
LEMMA RegisterStep ==
    ASSUME NEW p \in Plan, p # <<>>, NEW s, NEW k, NEW D, NEW n \in Nat, NEW c, NEW f, NEW F,
           Sound(p, s, k, D, None, n, c, f, F),
           p[1].do = "register"
    PROVE  Sound(Tail(p), s, k, D \cup {p[1].id}, None, n, c, f, F)
<1>1. PICK t \in Plan : t = Tail(p)
  BY TailIs
<1>2. p[1].do \notin Opening /\ p[1].do \notin Moving \cup {"exit"} /\ p[1].do # "forget"
  BY DEF Opening, Moving
<1>3. Shape(t) /\ Plain(t) /\ ~Has(t, "exit") /\ Ids(t, D, n) /\ Covered(t, Owners(s))
  BY <1>1, <1>2, TailPromises
<1>4. Shape(p) /\ Ids(p, D, n) /\ Known(p, s, D, c, f) /\ DiskKnown(p, k, D, c, f)
  BY DEF Sound
<1>5. 1 \in DOMAIN t /\ t[1].do = "write_tmp"
  <2>1. 1 \in DOMAIN p /\ 1 + 1 \in DOMAIN p /\ p[1 + 1].do = "write_tmp"
    BY <1>4, TailIs DEF Shape, SavesInOrder
  <2>2. 2 \in DOMAIN p /\ (2 - 1 \in DOMAIN t /\ t[2 - 1] = p[2])
    BY <1>1, <2>1, TailIs
  <2> QED BY <2>1, <2>2
<1>6. /\ 2 \in DOMAIN t /\ t[2].do = "move_index"
      /\ 3 \in DOMAIN t /\ t[3].do = "move_metadata"
  <2>1. 1 + 1 \in DOMAIN t /\ t[1 + 1].do = "move_index"
    BY <1>3, <1>5 DEF Shape, SavesInOrder
  <2>2. 2 \in DOMAIN t /\ t[2].do = "move_index"
    BY <2>1
  <2>3. 2 + 1 \in DOMAIN t /\ t[2 + 1].do = "move_metadata"
    BY <1>3, <2>2 DEF Shape, SavesInOrder
  <2> QED BY <2>2, <2>3
<1>7. Ids(t, D \cup {p[1].id}, n)
  <2>1. p[1].id \in DocId /\ p[1].id <= n
    BY <1>4, TailIs DEF Shape, MakesRows, Ids
  <2>2. p[1].id \in 1 .. n
    BY <2>1, MaxDocsAssumption DEF DocId
  <2> QED BY <1>3, <2>2 DEF Ids
<1>8. Temporaries(t, s, k)
  BY <1>5 DEF Temporaries
<1>9. Known(t, s, D \cup {p[1].id}, c, f)
  BY <1>4 DEF Known, Registering
<1>10. DiskKnown(t, k, D \cup {p[1].id}, c, f)
  <2>1. \A i \in 1 .. 3 : t[i].do \notin Removing
    <3>1. \A i \in 1 .. 3 : i = 1 \/ i = 2 \/ i = 3
      OBVIOUS
    <3> QED BY <1>5, <1>6, <3>1 DEF Removing
  <2>2. Rewritten(t, Listed(k))
    BY <1>6, <2>1, RewrittenBefore
  <2> QED BY <1>3, <1>4, <2>2 DEF DiskKnown, Unharmed
<1>11. DiskSynced(t, s, k, c, f, F)
  BY <1>3, <1>5 DEF DiskSynced, Plain, Has, Dirty, Saving, Moving
<1> QED BY <1>1, <1>3, <1>7, <1>8, <1>9, <1>10, <1>11 DEF Sound, Locked

(* A document of a reindex is read: ingest it, then drop its old row.         *)
LEMMA ReingestStep ==
    ASSUME NEW p \in Plan, p # <<>>, NEW s, NEW k, NEW D, NEW l, NEW n \in Nat, NEW c, NEW f, NEW F,
           Sound(p, s, k, D, l, n, c, f, F),
           p[1].do = "reingest", p[1].id \in DocId,
           NEW q \in Plan, EndsIn(q, 2, Tail(p)),
           q[1].do = "ingest", q[1].id = p[1].id, q[1].row.status # "none", q[1].docs = {},
           q[2].do = "drop_old", q[2].docs = p[1].docs, q[2].id = 0
    PROVE  Sound(q, s, k, D, l, n, c, f, F)
<1>1. PICK t \in Plan : t = Tail(p)
  BY TailIs
<1>2. /\ p[1].do \notin {"register", "write_tmp", "move_index"} /\ p[1].do \notin Opening
      /\ p[1].do \notin Moving \cup {"exit"} /\ p[1].do \notin Held /\ p[1].do # "forget"
      /\ p[1].do # "register"
  BY DEF Opening, Moving, Held
<1>3. /\ Shape(t) /\ Plain(t) /\ ~Has(t, "exit") /\ Ids(t, D, n) /\ Covered(t, Owners(s))
      /\ t # <<>> => t[1].do \notin Moving
  BY <1>1, <1>2, TailPromises
<1>4. Shape(p) /\ Ids(p, D, n) /\ Covered(p, Owners(s)) /\ Known(p, s, D, c, f) /\ DiskKnown(p, k, D, c, f)
  BY DEF Sound
<1>5. /\ \A i \in 1 .. 2 : i = 1 \/ i = 2
      /\ \A i \in 1 .. 2 : i \in DOMAIN q
      /\ \A i \in DOMAIN q : i \in 1 .. 2 \/ (i - 2 \in DOMAIN t /\ q[i] = t[i - 2])
      /\ EndsIn(q, 2, t)
  BY <1>1 DEF EndsIn
<1>6. l = None
  BY <1>2, TailIs DEF Sound, Locked, Decides
<1>7. SavesInOrder(q)
  <2>1. \A i \in 1 .. 2 :
           q[i].do \notin {"register", "write_tmp", "move_index", "move_metadata"}
    BY <1>5
  <2> QED BY <1>3, <1>5, <2>1, SavesAfter DEF Shape
<1>8. Plain(q) /\ ~Has(q, "exit")
  BY <1>3, <1>5 DEF Plain, Has, Opening
<1>9. IdsAreFresh(q)
  <2> SUFFICES ASSUME NEW i \in DOMAIN q, NEW j \in DOMAIN q, q[i].do \in {"ingest", "reingest"}
               PROVE  q[i].id \notin q[j].docs
    BY DEF IdsAreFresh
  <2>1. \/ q[i].id = p[1].id
        \/ i - 2 \in DOMAIN t /\ q[i] = t[i - 2]
    BY <1>5
  <2>2. \/ q[j].docs = {} \/ q[j].docs = p[1].docs
        \/ j - 2 \in DOMAIN t /\ q[j] = t[j - 2]
    BY <1>5
  <2>3. \A a \in DOMAIN t : a + 1 \in DOMAIN p /\ t[a] = p[a + 1] /\ 1 \in DOMAIN p
    BY <1>1, TailIs
  <2>4. \A a, b \in DOMAIN p : p[a].do \in {"ingest", "reingest"} => p[a].id \notin p[b].docs
    BY <1>4 DEF Shape, IdsAreFresh
  <2>5. \E a \in DOMAIN p : p[a].do \in {"ingest", "reingest"} /\ q[i].id = p[a].id
    BY <2>1, <2>3, TailIs
  <2>6. q[j].docs = {} \/ \E b \in DOMAIN p : q[j].docs = p[b].docs
    BY <2>2, <2>3, TailIs
  <2> QED BY <2>4, <2>5, <2>6
<1>10. MakesRows(q)
  BY <1>3, <1>5 DEF MakesRows, Shape
<1>11. Shape(q)
  BY <1>7, <1>8, <1>9, <1>10 DEF Shape, Plain, ForgetsFirst, OpensFirst, StopsOnly
<1>12. Ids(q, D, n)
  <2>1. p[1].id <= n
    BY <1>4, TailIs DEF Ids
  <2>2. \A i \in 1 .. 2 : q[i].id <= n
    BY <1>5, <2>1
  <2> QED BY <1>3, <1>5, <2>2 DEF Ids
<1>13. Covered(q, Owners(s))
  <2>1. p[1].docs \cap Owners(s) = {}
    BY <1>4, CoveredTail
  <2>2. \A i \in 1 .. 2 : q[i].docs \cap Owners(s) = {}
    BY <1>5, <2>1
  <2> QED BY <1>3, <1>5, <2>2, CoveredAfter
<1>14. Temporaries(q, s, k)
  BY DEF Temporaries
<1>15. Known(q, s, D, c, f)
  BY <1>2, <1>4 DEF Known, Registering
<1>16. DiskKnown(q, k, D, c, f)
  <2>1. Rewritten(q, Listed(k))
    <3>1. 1 \in DOMAIN q /\ \A i \in 1 .. 1 : q[i].do \notin Removing
      BY <1>5 DEF Removing
    <3> QED BY <3>1, RewrittenBefore
  <2> QED BY <1>4, <1>8, <2>1 DEF DiskKnown, Unharmed
<1>17. DiskSynced(q, s, k, c, f, F)
  <2>1. ~Has(q, "forget") /\ Dirty(q, F)
    BY <1>5, <1>8 DEF Plain, Has, Dirty, Saving
  <2> QED BY <2>1 DEF DiskSynced
<1> QED BY <1>6, <1>8, <1>11, <1>12, <1>13, <1>14, <1>15, <1>16, <1>17 DEF Sound, Locked

(* The request that holds the lock runs into it: it had not saved, nor has    *)
(* it to.                                                                    *)
LEMMA LockedStep ==
    ASSUME NEW p \in Plan, p # <<>>, NEW s, NEW k, NEW D, NEW l, NEW n, NEW c, NEW f, NEW F,
           Sound(p, s, k, D, l, n, c, f, F), l # None,
           p[1].do \in Opening \cup {"delete", "register", "set_status", "drop_old"}
    PROVE  p[1].do = "delete" /\ Sound(<<>>, s, k, D, None, n, c, f, F)
<1>1. /\ Shape(p) /\ Ids(p, D, n) /\ Decides(p) /\ Known(p, s, D, c, f) /\ DiskKnown(p, k, D, c, f)
      /\ DiskSynced(p, s, k, c, f, F)
  BY DEF Sound, Locked
<1>2. p[1].do = "delete"
  BY <1>1, TailIs DEF Decides, Held, Opening, Moving
<1>3. ~Dirty(p, F)
  <2>1. \A i \in DOMAIN p : p[i].do \notin {"ingest", "register", "rebuild_keyword"}
    BY <1>1 DEF Decides, Held, Moving
  <2>2. \A i \in DOMAIN p : i \in Nat /\ i >= 1 /\ (i # 1 => i - 1 \in DOMAIN p)
    BY TailIs
  <2>3. \A i \in DOMAIN p : p[i].do # "write_tmp"
    <3> SUFFICES ASSUME NEW i \in DOMAIN p, p[i].do = "write_tmp" PROVE FALSE
      OBVIOUS
    <3>1. i # 1 /\ i - 1 \in DOMAIN p
      BY <1>2, <2>2
    <3>2. p[i - 1].do = "register"
      BY <1>1, <3>1 DEF Shape, SavesInOrder
    <3> QED BY <2>1, <3>1, <3>2
  <2>4. \A i \in DOMAIN p : p[i].do # "move_index"
    BY <1>1, <1>2, <2>2, <2>3 DEF Shape, SavesInOrder
  <2>5. \A i \in DOMAIN p : p[i].do # "move_metadata"
    BY <1>1, <1>2, <2>2, <2>4 DEF Shape, SavesInOrder
  <2> QED BY <1>2, <2>1, <2>3, <2>4, <2>5 DEF Dirty, Saving, Moving
<1>4. Known(<<>>, s, D, c, f)
  BY <1>1, <1>2, NothingIsPromised DEF Known, Registering
<1>5. DiskKnown(<<>>, k, D, c, f)
  BY <1>1, NothingIsPromised DEF DiskKnown, Unharmed
<1>6. DiskSynced(<<>>, s, k, c, f, F)
  BY <1>1, <1>3, NothingIsPromised DEF DiskSynced
<1>7. Ids(<<>>, D, n)
  BY <1>1, NothingIsPromised DEF Ids
<1> QED BY <1>2, <1>4, <1>5, <1>6, <1>7, NothingIsPromised DEF Sound, Locked

(* A worker starts, having exited or died.                                   *)
LEMMA StartStep ==
    ASSUME NEW p \in Plan, NEW s, NEW k \in Disk, NEW D, NEW l, NEW n, NEW c \in Nat, NEW f, NEW F,
           Sound(p, s, k, D, l, n, c, f, F),
           NEW e \in Nat, e = c + 1 \/ (e = c /\ Has(p, "exit"))
    PROVE  Sound(<<>>, Load(k), k, D, None, n, e, f, F)
<1>1. /\ Ids(p, D, n) /\ DiskKnown(p, k, D, c, f) /\ (Has(p, "exit") => c # 0)
  BY DEF Sound
<1>2. e # 0
  BY <1>1
<1>3. Known(<<>>, Load(k), D, e, f)
  <2> SUFFICES ASSUME e = 1, f = 0 PROVE Owners(Load(k)) \subseteq D
    BY <1>2 DEF Known
  <2>1. Unharmed(p, c, f)
    BY <1>1 DEF Unharmed
  <2>2. Listed(k) \subseteq D
    BY <1>1, <2>1 DEF DiskKnown
  <2> QED BY <2>2, LoadedAreListed
<1>4. DiskKnown(<<>>, k, D, e, f)
  BY <1>2, NothingIsPromised DEF DiskKnown, Unharmed
<1>5. DiskSynced(<<>>, Load(k), k, e, f, F)
  BY <1>2 DEF DiskSynced, Synced
<1>6. Ids(<<>>, D, n)
  BY <1>1, NothingIsPromised DEF Ids
<1> QED BY <1>3, <1>4, <1>5, <1>6, NothingIsPromised DEF Sound, Locked

-----------------------------------------------------------------------------
(* The plans of requests *)

\* What loses its row, or is read again, was forgotten before.
ForgetsAll(q) ==
    \A i \in DOMAIN q : q[i].do \in Removing \cup {"reingest"} =>
        \E j \in 1 .. i - 1 : q[j].do = "forget" /\ q[i].docs \subseteq q[j].docs

(* A request that touches nothing but its plan, and forgets what it removes.  *)
LEMMA RequestStep ==
    ASSUME NEW s, NEW k, NEW D, NEW l, NEW n \in Nat, NEW c, NEW f, NEW F,
           Sound(<<>>, s, k, D, l, n, c, f, F),
           NEW m \in Nat, n <= m,
           NEW q \in Plan, Shape(q), ForgetsAll(q), ~Has(q, "exit"),
           \A i \in DOMAIN q : q[i].do \notin Saving \ {"ingest"} /\ q[i].id <= m
    PROVE  Sound(q, s, k, D, l, m, c, f, F)
<1>1. /\ l = None /\ Known(<<>>, s, D, c, f) /\ DiskKnown(<<>>, k, D, c, f)
      /\ DiskSynced(<<>>, s, k, c, f, F) /\ D \subseteq 1 .. n
  BY NothingIsPromised DEF Sound, Locked, Ids
<1>2. \A i \in DOMAIN q : i \in Nat /\ i >= 1
  BY LenProperties DEF Plan
<1>3. q # <<>> => 1 \in DOMAIN q
  BY TailIs
<1>4. Covered(q, Owners(s)) /\ Rewritten(q, Listed(k))
  BY DEF ForgetsAll, Covered, Rewritten
<1>5. Temporaries(q, s, k) /\ Registering(q) = {}
  BY <1>3 DEF Temporaries, Registering, Saving, Moving
<1>6. Known(q, s, D, c, f)
  BY <1>1, NothingIsPromised DEF Known
<1>7. DiskKnown(q, k, D, c, f)
  BY <1>1, <1>4 DEF DiskKnown, Unharmed
<1>8. DiskSynced(q, s, k, c, f, F)
  BY <1>1, NothingIsPromised DEF DiskSynced
<1>9. Ids(q, D, m)
  <2>1. 1 .. n \subseteq 1 .. m
    OBVIOUS
  <2> QED BY <1>1, <2>1 DEF Ids
<1> QED BY <1>1, <1>4, <1>5, <1>6, <1>7, <1>8, <1>9 DEF Sound, Locked

(* Two steps: chunks, then rows; or the lock, then the decision.              *)
LEMMA RemovalPlan ==
    ASSUME NEW a \in GoodStep, NEW b \in GoodStep,
           a.do = "forget", b.do \in Removing, b.docs \subseteq a.docs, a.id = 0, b.id = 0
    PROVE  \E q \in Plan :
              /\ q = <<a, b>> /\ Len(q) = 2 /\ q[1] = a /\ q[2] = b
              /\ Shape(q) /\ ForgetsAll(q) /\ ~Has(q, "exit") /\ (b.do = "delete" => Decides(q))
              /\ \A i \in DOMAIN q : q[i].do \notin Saving /\ q[i].id = 0
<1>1. PICK q \in Plan : q = <<a, b>>
  BY PlanTwo DEF Removing
<1>2. Len(q) = 2 /\ DOMAIN q = 1 .. 2 /\ q[1] = a /\ q[2] = b
  BY <1>1
<1>3. \A i \in DOMAIN q : i = 1 \/ i = 2
  BY <1>2
<1>4. \A i \in DOMAIN q : /\ q[i].do \in {"forget"} \cup Removing /\ q[i].id = 0
                          /\ q[i].do = "forget" => i = 1
                          /\ q[i].do \in Removing => i = 2
  BY <1>2, <1>3 DEF Removing
<1>5. Shape(q)
  BY <1>4 DEF Shape, SavesInOrder, ForgetsFirst, OpensFirst, IdsAreFresh, MakesRows, StopsOnly, Has,
     Removing, Opening
<1>6. ForgetsAll(q)
  <2> SUFFICES ASSUME NEW i \in DOMAIN q, q[i].do \in Removing \cup {"reingest"}
               PROVE  \E j \in 1 .. i - 1 : q[j].do = "forget" /\ q[i].docs \subseteq q[j].docs
    BY DEF ForgetsAll
  <2>1. i = 2 /\ 1 \in 1 .. i - 1
    BY <1>4 DEF Removing
  <2> QED BY <1>2, <2>1
<1>7. ~Has(q, "exit") /\ \A i \in DOMAIN q : q[i].do \notin Saving /\ q[i].id = 0
  BY <1>4 DEF Has, Removing, Saving, Moving
<1>8. b.do = "delete" => Decides(q)
  BY <1>2, <1>3 DEF Decides, Held, Settling
<1> QED BY <1>1, <1>2, <1>5, <1>6, <1>7, <1>8, Zenon

(* The lock is taken for a decision: an approval, or a removal.               *)
LEMMA DecisionPlan ==
    ASSUME NEW a \in GoodStep, a.do \in Opening, a.id = 0,
           NEW t \in Plan, Decides(t), ForgetsAll(t),
           \A i \in DOMAIN t : /\ t[i].do \in {"forget"} \cup Settling /\ t[i].id = 0
                               /\ t[i].do = "forget" => i = 1 /\ a.do = "open_rejection"
    PROVE  \E q \in Plan :
              /\ q = <<a>> \o t
              /\ Shape(q) /\ ForgetsAll(q) /\ ~Has(q, "exit")
              /\ \A i \in DOMAIN q : q[i].do \notin Saving /\ q[i].id = 0
<1>1. PICK q \in Plan : q = <<a>> \o t /\ EndsIn(q, 1, t) /\ q[1] = a
  BY OneThen DEF Opening
<1>2. /\ 1 \in DOMAIN q
      /\ \A i \in DOMAIN t : i \in Nat /\ i >= 1 /\ i + 1 \in DOMAIN q /\ q[i + 1] = t[i]
      /\ \A i \in DOMAIN q : i \in Nat /\ i >= 1 /\ (i = 1 \/ (i - 1 \in DOMAIN t /\ q[i] = t[i - 1]))
  <2>1. \A i : i \in 1 .. 1 <=> i = 1
    OBVIOUS
  <2> QED BY <1>1, <2>1 DEF EndsIn
<1>3. q # <<>>
  BY <1>2
<1>4. PICK r \in Plan : r = Tail(q)
  BY <1>3, TailIs
<1>5. /\ \A i \in DOMAIN r : i \in Nat /\ i >= 1 /\ i + 1 \in DOMAIN q /\ r[i] = q[i + 1]
      /\ \A i \in DOMAIN q : i # 1 => i - 1 \in DOMAIN r /\ r[i - 1] = q[i]
  BY <1>3, <1>4, TailIs
<1>6. Decides(r)
  <2>1. \A i \in DOMAIN r : r[i].do \in Held
    <3> SUFFICES ASSUME NEW i \in DOMAIN r PROVE r[i].do \in Held
      OBVIOUS
    <3>1. i + 1 # 1 /\ i + 1 \in DOMAIN q /\ r[i] = q[i + 1]
      BY <1>5
    <3>2. (i + 1) - 1 \in DOMAIN t /\ q[i + 1] = t[(i + 1) - 1]
      BY <1>2, <3>1
    <3> QED BY <3>1, <3>2 DEF Decides
  <2>2. PICK i \in DOMAIN t : t[i].do \in Settling
    BY DEF Decides
  <2>3. i + 1 \in DOMAIN q /\ i + 1 # 1 /\ q[i + 1] = t[i]
    BY <1>2
  <2>4. (i + 1) - 1 \in DOMAIN r /\ r[(i + 1) - 1] = t[i]
    BY <1>5, <2>3
  <2> QED BY <2>1, <2>2, <2>4 DEF Decides
<1>7. \A i \in DOMAIN q :
         /\ q[i].id = 0
         /\ i = 1 => q[i].do = a.do
         /\ i # 1 => /\ q[i].do \in {"forget"} \cup Settling
                     /\ q[i].do = "forget" => i = 2 /\ a.do = "open_rejection"
  <2> SUFFICES ASSUME NEW i \in DOMAIN q, i # 1
               PROVE  /\ q[i].id = 0 /\ q[i].do \in {"forget"} \cup Settling
                      /\ q[i].do = "forget" => i = 2 /\ a.do = "open_rejection"
    BY <1>1
  <2>1. i - 1 \in DOMAIN t /\ q[i] = t[i - 1] /\ i \in Nat
    BY <1>2
  <2> QED BY <2>1
<1>8. \A i \in DOMAIN q : q[i].do \notin Saving \cup {"exit", "reingest", "set_status", "drop_old"}
  BY <1>7 DEF Saving, Moving, Opening, Settling
<1>9. OpensFirst(q)
  BY <1>4, <1>6, <1>7 DEF OpensFirst, Settling, Opening
<1>10. ForgetsFirst(q)
  BY <1>1, <1>7 DEF ForgetsFirst, Opening
<1>11. Shape(q)
  BY <1>8, <1>9, <1>10 DEF Shape, SavesInOrder, IdsAreFresh, MakesRows, StopsOnly, Has, Saving, Moving
<1>12. ForgetsAll(q)
  <2> SUFFICES ASSUME NEW i \in DOMAIN q, q[i].do \in Removing \cup {"reingest"}
               PROVE  \E j \in 1 .. i - 1 : q[j].do = "forget" /\ q[i].docs \subseteq q[j].docs
    BY DEF ForgetsAll
  <2>1. i # 1
    BY <1>7 DEF Removing, Opening
  <2>2. i - 1 \in DOMAIN t /\ q[i] = t[i - 1] /\ i \in Nat
    BY <1>2, <2>1
  <2>3. PICK j \in 1 .. (i - 1) - 1 : t[j].do = "forget" /\ t[i - 1].docs \subseteq t[j].docs
    BY <2>2 DEF ForgetsAll
  <2>4. DOMAIN t = 1 .. Len(t) /\ Len(t) \in Nat
    BY LenProperties DEF Plan
  <2>5. j \in DOMAIN t /\ j + 1 \in 1 .. i - 1
    BY <2>2, <2>3, <2>4
  <2>6. q[j + 1] = t[j]
    BY <1>2, <2>5
  <2> QED BY <2>2, <2>3, <2>5, <2>6
<1>13. ~Has(q, "exit") /\ \A i \in DOMAIN q : q[i].do \notin Saving /\ q[i].id = 0
  BY <1>7, <1>8 DEF Has
<1> QED BY <1>1, <1>11, <1>12, <1>13, Zenon

\* What an upload does to the document it replaces, and to the one of id m it makes.
Clears(a, m) ==
    /\ ForgetsAll(a)
    /\ \A i \in DOMAIN a : /\ a[i].do \in {"forget", "delete"} /\ a[i].id = 0 /\ m \notin a[i].docs
                           /\ a[i].do = "forget" => i = 1
Ingests(b, m) ==
    \A i \in DOMAIN b : /\ b[i].do \in {"ingest", "set_status"} /\ b[i].docs = {} /\ b[i].id = m
                        /\ b[i].row.status # "none"
\* A request that ingests no id above m.
Receivable(q, m) ==
    /\ Shape(q) /\ ForgetsAll(q) /\ ~Has(q, "exit")
    /\ \A i \in DOMAIN q : q[i].do \notin Saving \ {"ingest"} /\ q[i].id <= m

(* An upload: perhaps a removal, then the ingestion under an id that is new.  *)
LEMMA UploadPlan ==
    ASSUME NEW m \in DocId, NEW a \in Plan, NEW b \in Plan, Clears(a, m), Ingests(b, m)
    PROVE  a \o b \in Plan /\ Receivable(a \o b, m)
<1>1. /\ ForgetsAll(a)
      /\ \A i \in DOMAIN a : /\ a[i].do \in {"forget", "delete"} /\ a[i].id = 0 /\ m \notin a[i].docs
                             /\ a[i].do = "forget" => i = 1
  BY DEF Clears
<1>3. \A i \in DOMAIN b : /\ b[i].do \in {"ingest", "set_status"} /\ b[i].docs = {} /\ b[i].id = m
                          /\ b[i].row.status # "none"
  BY DEF Ingests
<1>4. PICK q \in Plan : q = a \o b
  BY PlanConcat
<1>5. PICK k \in Nat : k = Len(a)
  BY ConcatEndsIn
<1>6. EndsIn(q, k, b) /\ DOMAIN a = 1 .. k /\ \A i \in 1 .. k : q[i] = a[i]
  BY <1>4, <1>5, ConcatEndsIn, LenProperties DEF Plan
<1>7. \A i \in DOMAIN q : i \in Nat /\ i >= 1 /\ (i \in 1 .. k \/ (i - k \in DOMAIN b /\ q[i] = b[i - k]))
  BY <1>6 DEF EndsIn
<1>8. m \in Nat
  BY MaxDocsAssumption DEF DocId
<1>9. ASSUME NEW i \in DOMAIN q
      PROVE  /\ q[i].do \in {"forget", "delete", "ingest", "set_status"} /\ m \notin q[i].docs
             /\ q[i].id <= m
             /\ q[i].do = "forget" => i = 1
             /\ q[i].do \in {"ingest", "set_status"} => q[i].id = m /\ q[i].row.status # "none"
  <2>1. CASE i \in 1 .. k
    <3>1. i \in DOMAIN a /\ q[i] = a[i]
      BY <1>6, <2>1
    <3>2. a[i].do \in {"forget", "delete"} /\ a[i].id = 0 /\ m \notin a[i].docs
          /\ (a[i].do = "forget" => i = 1)
      BY <1>1, <3>1
    <3> QED BY <1>8, <3>1, <3>2
  <2>2. CASE i - k \in DOMAIN b /\ q[i] = b[i - k]
    BY <1>3, <1>8, <2>2
  <2> QED BY <1>7, <2>1, <2>2
<1>10. IdsAreFresh(q) /\ MakesRows(q) /\ ForgetsFirst(q)
  BY <1>9 DEF IdsAreFresh, MakesRows, ForgetsFirst
<1>11. SavesInOrder(q) /\ OpensFirst(q) /\ ~Has(q, "exit")
  BY <1>9 DEF SavesInOrder, OpensFirst, Opening, Has
<1>12. Shape(q)
  BY <1>10, <1>11 DEF Shape, StopsOnly
<1>13. ForgetsAll(q)
  <2> SUFFICES ASSUME NEW i \in DOMAIN q, q[i].do \in Removing \cup {"reingest"}
               PROVE  \E j \in 1 .. i - 1 : q[j].do = "forget" /\ q[i].docs \subseteq q[j].docs
    BY DEF ForgetsAll
  <2>1. i \in 1 .. k
    BY <1>3, <1>7 DEF Removing
  <2>2. PICK j \in 1 .. i - 1 : a[j].do = "forget" /\ a[i].docs \subseteq a[j].docs
    BY <1>1, <1>6, <2>1 DEF ForgetsAll
  <2>3. j \in 1 .. k
    BY <1>5, <2>1
  <2> QED BY <1>6, <2>1, <2>2, <2>3
<1>14. \A i \in DOMAIN q : q[i].do \notin Saving \ {"ingest"} /\ q[i].id <= m
  BY <1>9 DEF Saving, Moving
<1> QED BY <1>4, <1>11, <1>12, <1>13, <1>14 DEF Receivable

(* A worker that is asked to stop saves once more.                            *)
LEMMA ShutdownStep ==
    ASSUME NEW s, NEW k, NEW D, NEW l, NEW n \in Nat, NEW c \in Nat, NEW f, NEW F,
           Sound(<<>>, s, k, D, l, n, c, f, F),
           NEW t \in Plan, DOMAIN t = {1}, t[1].do = "exit", t[1].id = 0, t[1].docs = {},
           NEW q \in Plan, EndsIn(q, 3, t),
           q[1].do = "write_tmp", q[2].do = "move_index", q[3].do = "move_metadata",
           \A i \in 1 .. 3 : q[i].docs = {} /\ q[i].id = 0
    PROVE  Sound(q, s, k, D, l, n, c + 1, f, F)
<1>1. /\ l = None /\ Known(<<>>, s, D, c, f) /\ DiskKnown(<<>>, k, D, c, f) /\ D \subseteq 1 .. n
  BY NothingIsPromised DEF Sound, Locked, Ids
<1>2. c + 1 # 0 /\ (c + 1 = 1 => c = 0)
  OBVIOUS
<1>3. /\ \A i \in 1 .. 3 : i = 1 \/ i = 2 \/ i = 3
      /\ \A i \in 1 .. 3 : i \in DOMAIN q
      /\ \A i \in DOMAIN q : i \in 1 .. 3 \/ (i - 3 \in DOMAIN t /\ q[i] = t[i - 3])
  BY DEF EndsIn
<1>4. \A i \in 1 .. 3 : q[i].do \in Moving
  BY <1>3 DEF Moving
<1>5. \A i \in DOMAIN q : q[i].do \in Moving \cup {"exit"} /\ q[i].id = 0 /\ q[i].docs = {}
  BY <1>3, <1>4
<1>6. SavesInOrder(q)
  <2>1. SavesInOrder(t) /\ (t # <<>> => t[1].do \notin Moving)
    BY DEF SavesInOrder, Moving
  <2>2. \A i \in 1 .. 3 :
           /\ q[i].do = "register" => i < 3 /\ q[i + 1].do = "write_tmp"
           /\ q[i].do = "write_tmp" => i < 3 /\ q[i + 1].do = "move_index"
           /\ q[i].do = "move_index" => i < 3 /\ q[i + 1].do = "move_metadata"
           /\ q[i].do = "write_tmp" => i = 1 \/ q[i - 1].do = "register"
           /\ q[i].do = "move_index" => i = 1 \/ q[i - 1].do = "write_tmp"
           /\ q[i].do = "move_metadata" => i = 1 \/ q[i - 1].do = "move_index"
    <3> SUFFICES ASSUME NEW i \in 1 .. 3
                 PROVE
           /\ q[i].do = "register" => i < 3 /\ q[i + 1].do = "write_tmp"
           /\ q[i].do = "write_tmp" => i < 3 /\ q[i + 1].do = "move_index"
           /\ q[i].do = "move_index" => i < 3 /\ q[i + 1].do = "move_metadata"
           /\ q[i].do = "write_tmp" => i = 1 \/ q[i - 1].do = "register"
           /\ q[i].do = "move_index" => i = 1 \/ q[i - 1].do = "write_tmp"
           /\ q[i].do = "move_metadata" => i = 1 \/ q[i - 1].do = "move_index"
      OBVIOUS
    <3>1. i = 1 \/ i = 2 \/ i = 3
      BY <1>3
    <3> QED BY <3>1
  <2> QED BY <2>1, <2>2, SavesAfter
<1>7. Shape(q)
  BY <1>5, <1>6 DEF Shape, ForgetsFirst, OpensFirst, IdsAreFresh, MakesRows, StopsOnly, Moving, Opening
<1>8. Ids(q, D, n)
  BY <1>1, <1>5 DEF Ids
<1>9. Covered(q, Owners(s)) /\ Rewritten(q, Listed(k))
  BY <1>5 DEF Covered, Rewritten
<1>10. Temporaries(q, s, k)
  BY DEF Temporaries
<1>11. Known(q, s, D, c + 1, f)
  BY <1>1, <1>2, NothingIsPromised DEF Known
<1>12. DiskKnown(q, k, D, c + 1, f)
  BY <1>1, <1>2, <1>9 DEF DiskKnown, Unharmed
<1>13. DiskSynced(q, s, k, c + 1, f, F)
  <2>1. ~Has(q, "forget") /\ Dirty(q, F)
    BY <1>3, <1>4, <1>5 DEF Has, Moving, Dirty, Saving
  <2> QED BY <2>1 DEF DiskSynced
<1> QED BY <1>1, <1>2, <1>7, <1>8, <1>9, <1>10, <1>11, <1>12, <1>13 DEF Sound, Locked

(* A reindex: the old chunks have left memory, and the first file to read     *)
(* again is there or the keyword index is rebuilt, so that a save comes.      *)
LEMMA ReindexStep ==
    ASSUME NEW s, NEW k, NEW D, NEW l, NEW n \in Nat, NEW c, NEW f, NEW F,
           Sound(<<>>, s, k, D, l, n, c, f, F),
           NEW m \in Nat, n <= m,
           NEW r, Owners(r) \subseteq Owners(s),
           NEW q \in Plan, Dirty(q, F),
           \A i \in DOMAIN q :
              /\ q[i].do \in {"reingest", "rebuild_keyword"} /\ q[i].id <= m
              /\ q[i].docs \cap Owners(r) = {} /\ q[i].docs \subseteq D
              /\ q[i].do = "reingest" => q[i].id \notin D
    PROVE  Sound(q, r, k, D, l, m, c, f, F)
<1>1. /\ l = None /\ Known(<<>>, s, D, c, f) /\ DiskKnown(<<>>, k, D, c, f) /\ D \subseteq 1 .. n
  BY NothingIsPromised DEF Sound, Locked, Ids
<1>2. \A i \in DOMAIN q : q[i].do \in {"reingest", "rebuild_keyword"}
  OBVIOUS
<1>3. Shape(q)
  BY <1>2 DEF Shape, SavesInOrder, ForgetsFirst, OpensFirst, IdsAreFresh, MakesRows, StopsOnly, Has, Opening
<1>4. Covered(q, Owners(r)) /\ Rewritten(q, Listed(k))
  BY <1>2 DEF Covered, Rewritten, Removing
<1>5. ~Has(q, "forget") /\ ~Has(q, "exit")
  BY <1>2 DEF Has
<1>6. Temporaries(q, r, k) /\ Registering(q) = {}
  <2>1. q # <<>> => q[1].do \in {"reingest", "rebuild_keyword"}
    BY <1>2, TailIs
  <2> QED BY <2>1 DEF Temporaries, Registering
<1>7. Ids(q, D, m)
  <2>1. 1 .. n \subseteq 1 .. m
    OBVIOUS
  <2> QED BY <1>1, <2>1 DEF Ids
<1>8. Known(q, r, D, c, f)
  BY <1>1, NothingIsPromised DEF Known
<1>9. DiskKnown(q, k, D, c, f)
  BY <1>1, <1>4, <1>5 DEF DiskKnown, Unharmed
<1>10. DiskSynced(q, r, k, c, f, F)
  BY <1>5 DEF DiskSynced
<1> QED BY <1>1, <1>3, <1>4, <1>5, <1>6, <1>7, <1>8, <1>9, <1>10 DEF Sound, Locked

-----------------------------------------------------------------------------
(* Every step of the one worker *)

(* What the one worker is about to do, and the promises it is under.          *)
LEMMA Serving ==
    ASSUME RInv, NEW w \in Worker, NEW e, Doing(w, e)
    PROVE  \E p \in Plan :
              /\ p = plan[w] /\ p # <<>> /\ p[1] = Next1(w) /\ p[1] \in GoodStep /\ p[1].do = e
              /\ Tail(p) = Rest(w) /\ Rest(w) \in Plan
              /\ Sound(p, store[w], disk, Documents, writer, issued, crashes, failures, files)
<1>1. PICK p \in Plan : p = plan[w]
  BY DEF RInv, TInv
<1>2. p # <<>> /\ Next1(w).do = e
  BY <1>1 DEF Doing, Idle
<1>3. p[1] = Next1(w) /\ p[1] \in GoodStep /\ Tail(p) = Rest(w) /\ Rest(w) \in Plan
  BY <1>1, <1>2, PlanTail DEF Next1, Rest
<1>4. Sound(p, store[w], disk, Documents, writer, issued, crashes, failures, files)
  BY <1>1 DEF RInv
<1> QED BY <1>1, <1>2, <1>3, <1>4

(* There is no other worker whose promises a step could break.                *)
LEMMA RInvFrom ==
    ASSUME OneWorker, TInv', NEW w \in Worker,
           Sound(plan'[w], store'[w], disk', Documents', writer', issued', crashes', failures', files')
    PROVE  RInv'
<1>1. \A v \in Worker : v = w
  BY DEF OneWorker
<1> QED BY <1>1 DEF RInv

(* Steps that do not write table documents change no row.                     *)
LEMMA SameRows ==
    ASSUME UNCHANGED rows
    PROVE  Documents' = Documents
BY DEF Documents, Exists

(* Of what type the variables are.                                           *)
LEMMA Typed ==
    ASSUME RInv, NEW w \in Worker
    PROVE  /\ store \in [Worker -> Seq(Chunk)] /\ store[w] \in Seq(Chunk) /\ disk \in Disk
           /\ plan \in [Worker -> Plan] /\ plan[w] \in Plan
           /\ rows \in [DocId -> Row] /\ files \in [File -> Content \cup {None}]
           /\ writer \in Worker \cup {None}
           /\ issued \in Nat /\ issued <= MaxDocs /\ crashes \in Nat /\ failures \in Nat
BY MaxDocsAssumption DEF RInv, TInv, TypeOK

(* _remove_document_chunks, on the indexes.                                  *)
LEMMA ForgetSound ==
    ASSUME OneWorker, RInv, TInv', NEW w \in Worker, ForgetChunks(w)
    PROVE  RInv'
<1>1. PICK p \in Plan :
         /\ p = plan[w] /\ p # <<>> /\ p[1] = Next1(w) /\ p[1] \in GoodStep /\ p[1].do = "forget"
         /\ Tail(p) = Rest(w) /\ Rest(w) \in Plan
         /\ Sound(p, store[w], disk, Documents, writer, issued, crashes, failures, files)
  BY Serving DEF ForgetChunks
<1>2. PICK t \in Plan, s \in Seq(Chunk) : t = Rest(w) /\ s = store[w]
  BY <1>1, Typed
<1>3. PICK kept \in Seq(Chunk) : kept = Without(s, p[1].docs)
  BY WithoutIs
<1>4. Owners(kept) = Owners(s) \ p[1].docs
  BY <1>3, OwnersWithout
<1>5. /\ Documents' = Documents
      /\ UNCHANGED <<files, disk, writer, issued, crashes, failures>>
  BY SameRows DEF ForgetChunks
<1>6. IF Len(kept) < Len(s)
      THEN store' = [store EXCEPT ![w] = kept] /\ plan' = [plan EXCEPT ![w] = Save(FALSE) \o t]
      ELSE plan' = [plan EXCEPT ![w] = t] /\ store' = store
  BY <1>1, <1>2, <1>3 DEF ForgetChunks, Continue
<1>7. CASE Len(kept) < Len(s)
  <2>1. PICK q \in Plan :
           /\ q = Save(FALSE) \o t /\ EndsIn(q, 3, t)
           /\ q[1].do = "write_tmp" /\ q[2].do = "move_index" /\ q[3].do = "move_metadata"
           /\ \A i \in 1 .. 3 : q[i].docs = {} /\ q[i].id = 0
    BY SaveThen
  <2>2. Covered(t, Owners(kept))
    BY <1>1, <1>2, <1>4, TailPromises
  <2>3. Sound(q, kept, disk, Documents, writer, issued, crashes, failures, files)
    BY <1>1, <1>2, <1>4, <2>1, <2>2, Typed, SaveBegins
  <2>4. plan'[w] = q /\ store'[w] = kept
    BY <1>6, <1>7, <2>1, Typed
  <2> QED BY <1>5, <2>3, <2>4, RInvFrom
<1>8. CASE ~(Len(kept) < Len(s))
  <2>1. Len(kept) = Len(s)
    <3>1. Len(kept) \in 0 .. Len(s) /\ Len(s) \in Nat
      BY <1>3, WithoutIs, LenProperties
    <3> QED BY <1>8, <3>1
  <2>2. Kept(s, p[1].docs) = DOMAIN s
    BY <1>3, <2>1, WithoutIs
  <2>3. p[1].docs \cap Owners(s) = {}
    BY <2>2 DEF Kept, Owners
  <2>4. Sound(t, s, disk, Documents, writer, issued, crashes, failures, files)
    <3>1. Sound(p, s, disk, Documents, writer, issued, crashes, failures, files) /\ disk \in Disk
      BY <1>1, <1>2, Typed
    <3>2. Sound(Tail(p), s, disk, Documents, writer, issued, crashes, failures, files)
      BY <1>1, <2>3, <3>1, ForgetNothingStep
    <3> QED BY <1>1, <1>2, <3>2
  <2>5. plan'[w] = t /\ store'[w] = s
    BY <1>2, <1>6, <1>8, Typed
  <2> QED BY <1>5, <2>4, <2>5, RInvFrom
<1> QED BY <1>7, <1>8

(* FAISSIndex.save; nobody takes the .tmp files away from a single worker.    *)
LEMMA SaveSound ==
    ASSUME OneWorker, RInv, TInv', NEW w \in Worker,
           WriteTmp(w) \/ MoveIndex(w) \/ MoveMetadata(w) \/ SaveFails(w)
    PROVE  RInv'
<1>1. PICK e \in {"write_tmp", "move_index", "move_metadata"} : Doing(w, e)
  BY DEF WriteTmp, MoveIndex, MoveMetadata, SaveFails
<1>2. PICK p \in Plan :
         /\ p = plan[w] /\ p # <<>> /\ p[1] = Next1(w) /\ p[1] \in GoodStep /\ p[1].do = e
         /\ Tail(p) = Rest(w) /\ Rest(w) \in Plan
         /\ Sound(p, store[w], disk, Documents, writer, issued, crashes, failures, files)
  BY <1>1, Serving
<1>3. PICK t \in Plan, s \in Seq(Chunk), k \in Disk : t = Rest(w) /\ s = store[w] /\ k = disk
  BY <1>2, Typed
<1>4. ~SaveFails(w)
  <2>1. Vectors(s) # None /\ Metadata(s) # None
    BY ListsAreNotNone
  <2>2. Temporaries(p, s, k)
    BY <1>2, <1>3 DEF Sound
  <2> QED BY <1>2, <1>3, <2>1, <2>2 DEF SaveFails, Doing, Temporaries
<1>5. /\ Documents' = Documents /\ store'[w] = s
      /\ UNCHANGED <<files, writer, issued, crashes, failures>>
      /\ plan'[w] = t
  BY <1>3, <1>4, SameRows, Typed DEF WriteTmp, MoveIndex, MoveMetadata, Continue
<1>6. PICK m \in Disk : m = disk'
  BY DEF TInv, TypeOK
<1>7. Sound(p, s, k, Documents, writer, issued, crashes, failures, files)
  BY <1>2, <1>3
<1>8. Sound(Tail(p), s, m, Documents, writer, issued, crashes, failures, files)
  <2>1. CASE WriteTmp(w)
    <3>1. m = [k EXCEPT !.indexTmp = Vectors(s), !.metadataTmp = Metadata(s)] /\ p[1].do = "write_tmp"
      BY <1>2, <1>3, <1>6, <2>1 DEF WriteTmp, Doing
    <3>2. m.metadata = k.metadata /\ m.indexTmp = Vectors(s) /\ m.metadataTmp = Metadata(s)
      BY <3>1 DEF Disk
    <3> QED BY <1>2, <1>7, <3>1, <3>2, SavingStep
  <2>2. CASE MoveIndex(w)
    <3>1. m = [k EXCEPT !.index = k.indexTmp, !.indexTmp = None] /\ p[1].do = "move_index"
      BY <1>2, <1>3, <1>6, <2>2 DEF MoveIndex, Doing
    <3>2. m.metadata = k.metadata /\ m.index = k.indexTmp /\ m.metadataTmp = k.metadataTmp
      BY <3>1 DEF Disk
    <3> QED BY <1>2, <1>7, <3>1, <3>2, SavingStep
  <2>3. CASE MoveMetadata(w)
    <3>1. m = [k EXCEPT !.metadata = k.metadataTmp, !.metadataTmp = None] /\ p[1].do = "move_metadata"
      BY <1>2, <1>3, <1>6, <2>3 DEF MoveMetadata, Doing
    <3>2. m.index = k.index /\ m.metadata = k.metadataTmp
      BY <3>1 DEF Disk
    <3> QED BY <1>2, <1>7, <3>1, <3>2, SavedStep
  <2> QED BY <1>4, <2>1, <2>2, <2>3
<1>9. Sound(t, s, m, Documents, writer, issued, crashes, failures, files)
  BY <1>2, <1>3, <1>8
<1> QED BY <1>5, <1>6, <1>9, RInvFrom

(* The steps that write table documents.                                      *)
LEMMA RowSound ==
    ASSUME OneWorker, RInv, TInv', NEW w \in Worker,
           DeleteRows(w) \/ Register(w) \/ SetStatus(w) \/ DropOldRow(w) \/ CommitApproval(w)
    PROVE  RInv'
<1>1. PICK e \in {"delete", "register", "set_status", "drop_old", "commit_approval"} :
         /\ Doing(w, e)
         /\ DeleteRows(w) => e = "delete"
         /\ Register(w) => e = "register"
         /\ SetStatus(w) => e = "set_status"
         /\ DropOldRow(w) => e = "drop_old"
         /\ CommitApproval(w) => e = "commit_approval"
  BY DEF DeleteRows, Register, SetStatus, DropOldRow, CommitApproval, Doing
<1>2. PICK p \in Plan :
         /\ p = plan[w] /\ p # <<>> /\ p[1] = Next1(w) /\ p[1] \in GoodStep /\ p[1].do = e
         /\ Tail(p) = Rest(w) /\ Rest(w) \in Plan
         /\ Sound(p, store[w], disk, Documents, writer, issued, crashes, failures, files)
  BY <1>1, Serving
<1>3. PICK t \in Plan : t = Tail(p) /\ t = Rest(w)
  BY <1>2
<1>4. UNCHANGED <<files, disk, store, issued, crashes, failures>>
  BY DEF DeleteRows, Register, SetStatus, DropOldRow, CommitApproval
<1>5. ~CommitApproval(w) => writer = None /\ writer' = None
  BY DEF DeleteRows, Register, SetStatus, DropOldRow
<1>6. /\ plan \in [Worker -> Plan] /\ rows \in [DocId -> Row] /\ issued \in Nat
      /\ rows' \in [DocId -> Row]
  BY Typed DEF TInv, TypeOK
<1>7. CASE DeleteRows(w)
  <2>1. Documents' = Documents \ p[1].docs
    <3>1. rows' = [d \in DocId |-> IF d \in p[1].docs THEN NoRow ELSE rows[d]]
      BY <1>2, <1>7 DEF DeleteRows
    <3> QED BY <3>1, NoRowIs DEF Documents, Exists
  <2>2. PICK x \in GoodStep :
           /\ x = [Do("unlink") EXCEPT !.files =
                      p[1].files \cup {rows[d].file : d \in p[1].docs \cap Documents}]
           /\ x.do = "unlink" /\ x.docs = {} /\ x.id = 0
    <3> DEFINE named == {rows[d].file : d \in p[1].docs \cap Documents}
    <3>1. named \subseteq File
      BY DEF RInv, TInv, Documents, Exists, GoodRow
    <3>2. PICK y \in Step : y = Do("unlink") /\ y.do = "unlink" /\ y.row = NoRow /\ y.docs = {} /\ y.id = 0
      BY DoIs DEF Effect
    <3>3. PICK F \in SUBSET File : F = p[1].files \cup named
      BY <1>2, <3>1 DEF GoodStep, Step
    <3>4. PICK z \in Step : z = [y EXCEPT !.files = F]
      BY DEF Step
    <3>5. z.do = "unlink" /\ z.row = y.row /\ z.docs = {} /\ z.id = 0
      BY <3>2, <3>4 DEF Step
    <3>6. PICK r : r = NoRow
      OBVIOUS
    <3>7. z.row = r /\ GoodRow(r)
      BY <3>2, <3>5, <3>6, NoRowIs
    <3>8. z \in GoodStep
      BY <3>5, <3>7 DEF GoodStep
    <3> QED BY <3>2, <3>3, <3>4, <3>5, <3>8
  <2>3. PICK q \in Plan : q = <<x>> \o t /\ EndsIn(q, 1, t) /\ q[1] = x
    BY <2>2, OneThen
  <2>4. plan' = [plan EXCEPT ![w] = q]
    BY <1>2, <1>3, <1>7, <2>2, <2>3 DEF DeleteRows, Continue
  <2>5. plan'[w] = q
    BY <1>6, <2>4
  <2>6. Sound(p, store[w], disk, Documents, None, issued, crashes, failures, files) /\ EndsIn(q, 1, Tail(p))
    BY <1>2, <1>3, <1>5, <1>7, <2>3 DEF DeleteRows
  <2>7. Sound(q, store[w], disk, Documents \ p[1].docs, None, issued, crashes, failures, files)
    BY <1>1, <1>2, <1>6, <1>7, <2>2, <2>3, <2>6, DeleteStep
  <2>8. writer' = None
    BY <1>7 DEF DeleteRows
  <2> QED BY <1>4, <2>1, <2>5, <2>7, <2>8, RInvFrom
<1>8. CASE ~DeleteRows(w)
  <2>1. plan'[w] = t
    BY <1>3, <1>6, <1>8 DEF Register, SetStatus, DropOldRow, CommitApproval, Continue
  <2>2. CASE Register(w)
    <3>1. p[1].do = "register" /\ rows' = [rows EXCEPT ![p[1].id] = p[1].row]
      BY <1>1, <1>2, <2>2 DEF Register
    <3>2. p[1].row.status # "none" /\ p[1].id \in DocId
      BY <1>2, <3>1, TailIs DEF Sound, Shape, MakesRows
    <3>3. PICK d \in DocId, x \in Row : d = p[1].id /\ x = p[1].row
      BY <1>2, <3>2 DEF GoodStep, Step
    <3>4. rows' = [rows EXCEPT ![d] = x] /\ x.status # "none"
      BY <3>1, <3>2, <3>3
    <3>5. Documents' = Documents \cup {d}
      BY <1>6, <3>4 DEF Documents, Exists
    <3>6. writer = None /\ writer' = None
      BY <2>2 DEF Register
    <3>7. Sound(p, store[w], disk, Documents, None, issued, crashes, failures, files)
      BY <1>2, <3>6
    <3>8. Sound(Tail(p), store[w], disk, Documents \cup {p[1].id}, None, issued, crashes, failures, files)
      BY <1>2, <1>6, <3>1, <3>7, RegisterStep
    <3>9. Sound(t, store[w], disk, Documents', None, issued, crashes, failures, files)
      BY <1>3, <3>3, <3>5, <3>8
    <3> QED BY <1>4, <2>1, <3>6, <3>9, RInvFrom
  <2>3. CASE SetStatus(w) \/ DropOldRow(w) \/ CommitApproval(w)
    <3>1. p[1].do \in {"unlink", "set_status", "drop_old", "commit_approval", "reingest"} \cup Opening
          /\ p[1].do # "reingest"
      BY <1>1, <1>2, <2>3
    <3>2. Documents' = IF p[1].do = "drop_old" THEN Documents \ p[1].docs ELSE Documents
      <4>1. CASE DropOldRow(w)
        <5>1. rows' = [d \in DocId |-> IF d \in p[1].docs THEN NoRow ELSE rows[d]] /\ p[1].do = "drop_old"
          BY <1>1, <1>2, <4>1 DEF DropOldRow
        <5>2. Documents' = Documents \ p[1].docs
          BY <5>1, NoRowIs DEF Documents, Exists
        <5> QED BY <5>1, <5>2
      <4>2. CASE SetStatus(w)
        <5>1. /\ p[1].do = "set_status"
              /\ rows' = IF Exists(p[1].id) THEN [rows EXCEPT ![p[1].id] = p[1].row] ELSE rows
          BY <1>1, <1>2, <4>2 DEF SetStatus
        <5>2. p[1].row.status # "none" /\ p[1].id \in DocId
          BY <1>2, <5>1, TailIs DEF Sound, Shape, MakesRows
        <5>3. PICK d \in DocId, x \in Row : d = p[1].id /\ x = p[1].row
          BY <1>2, <5>2 DEF GoodStep, Step
        <5>4. rows' = (IF Exists(d) THEN [rows EXCEPT ![d] = x] ELSE rows) /\ x.status # "none"
          BY <5>1, <5>2, <5>3
        <5>5. Documents' = Documents
          BY <1>6, <5>4 DEF Documents, Exists
        <5> QED BY <5>1, <5>5
      <4>3. CASE CommitApproval(w)
        <5>1. PICK C : /\ C \subseteq Documents
                       /\ rows' = [d \in DocId |->
                              IF d \in C THEN [rows[d] EXCEPT !.status = "approved", !.signed = TRUE]
                                         ELSE rows[d]]
          BY <4>3 DEF CommitApproval
        <5>2. \A d \in DocId : Exists(d)' <=> Exists(d)
          <6> SUFFICES ASSUME NEW d \in DocId PROVE Exists(d)' <=> Exists(d)
            OBVIOUS
          <6>1. CASE d \notin C
            BY <5>1, <6>1 DEF Exists
          <6>2. CASE d \in C
            <7>1. PICK x \in Row : x = rows[d]
              BY <1>6
            <7>2. PICK y : y = [x EXCEPT !.status = "approved", !.signed = TRUE]
              OBVIOUS
            <7>3. y.status = "approved"
              BY <7>2 DEF Row
            <7>4. rows'[d] = y /\ Exists(d)
              BY <5>1, <6>2, <7>1, <7>2 DEF Documents
            <7> QED BY <7>3, <7>4 DEF Exists
          <6> QED BY <6>1, <6>2
        <5>3. Documents' = Documents
          BY <5>2 DEF Documents
        <5>4. p[1].do # "drop_old"
          BY <1>1, <1>2, <4>3
        <5> QED BY <5>3, <5>4
      <4> QED BY <2>3, <4>1, <4>2, <4>3
    <3>3. writer' = None
      BY <1>5, <2>3 DEF CommitApproval
    <3>4. Sound(Tail(p), store[w], disk, Documents', None, issued, crashes, failures, files)
      BY <1>2, <3>1, <3>2, PlainStep
    <3> QED BY <1>3, <1>4, <2>1, <3>3, <3>4, RInvFrom
  <2> QED BY <1>8, <2>2, <2>3
<1> QED BY <1>7, <1>8

(* A file goes, or an ingestion writes one, with its chunks or in vain.       *)
LEMMA FileSound ==
    ASSUME OneWorker, RInv, TInv', NEW w \in Worker, Unlink(w) \/ IngestChunks(w) \/ IngestFails(w)
    PROVE  RInv'
<1>1. PICK e \in {"unlink", "ingest"} :
         Doing(w, e) /\ (Unlink(w) => e = "unlink") /\ (IngestChunks(w) \/ IngestFails(w) => e = "ingest")
  BY DEF Unlink, IngestChunks, IngestFails, Doing
<1>2. PICK p \in Plan :
         /\ p = plan[w] /\ p # <<>> /\ p[1] = Next1(w) /\ p[1] \in GoodStep /\ p[1].do = e
         /\ Tail(p) = Rest(w) /\ Rest(w) \in Plan
         /\ Sound(p, store[w], disk, Documents, writer, issued, crashes, failures, files)
  BY <1>1, Serving
<1>3. PICK t \in Plan : t = Tail(p) /\ t = Rest(w)
  BY <1>2
<1>4. /\ plan \in [Worker -> Plan] /\ store \in [Worker -> Seq(Chunk)] /\ store[w] \in Seq(Chunk)
      /\ issued \in Nat /\ failures \in Nat
  BY Typed
<1>5. Documents' = Documents /\ UNCHANGED <<disk, writer, issued, crashes>>
  BY SameRows DEF Unlink, IngestChunks, IngestFails
<1>6. CASE Unlink(w)
  <2>1. plan'[w] = t /\ store' = store /\ failures' = failures /\ p[1].do = "unlink"
    BY <1>1, <1>2, <1>3, <1>4, <1>6 DEF Unlink, Continue
  <2>2. writer # None => Decides(Tail(p))
    BY <1>2, <2>1, DecidesTail DEF Sound, Locked, Settling
  <2>3. Sound(Tail(p), store[w], disk, Documents, writer, issued, crashes, failures, files')
    BY <1>2, <2>1, <2>2, PlainStep
  <2> QED BY <1>3, <1>5, <2>1, <2>3, RInvFrom
<1>7. CASE IngestChunks(w)
  <2>1. p[1].do = "ingest"
    BY <1>1, <1>2, <1>7
  <2>2. PICK d \in DocId, x \in Row :
           d = p[1].id /\ x = p[1].row /\ x.file \in File /\ GoodRow(x)
    BY <1>2, <2>1 DEF GoodStep, Step
  <2>3. PICK y \in GoodStep : /\ y = OfDoc("register", x, d)
                              /\ y.do = "register" /\ y.row = x /\ y.id = d /\ y.docs = {}
    BY <2>2, OfDocIs DEF Effect
  <2>4. PICK a \in Plan : a = <<y>> /\ Len(a) = 1 /\ a[1] = y
    BY <2>3, PlanOne
  <2>5. PICK b \in Plan :
           /\ b = Save(TRUE) /\ Len(b) = 3
           /\ b[1].do = "write_tmp" /\ b[2].do = "move_index" /\ b[3].do = "move_metadata"
           /\ \A i \in 1 .. 3 : b[i].docs = {} /\ b[i].id = 0
    BY SaveIs
  <2>6. PICK g \in Plan : /\ g = a \o b /\ Len(g) = 4 /\ g[1] = y
                          /\ g[2] = b[1] /\ g[3] = b[2] /\ g[4] = b[3]
    <3>1. PICK g \in Plan : g = a \o b
      BY PlanConcat
    <3>2. a \in Seq(GoodStep) /\ b \in Seq(GoodStep)
      BY DEF Plan
    <3>3. /\ Len(g) = Len(a) + Len(b)
          /\ \A i \in 1 .. Len(a) + Len(b) : g[i] = IF i <= Len(a) THEN a[i] ELSE b[i - Len(a)]
      BY <3>1, <3>2, ConcatProperties
    <3>4. Len(a) = 1 /\ Len(b) = 3
      BY <2>4, <2>5
    <3>5. Len(g) = 4 /\ \A i \in 1 .. 4 : (i <= 1 => g[i] = a[i]) /\ (~(i <= 1) => g[i] = b[i - 1])
      BY <3>3, <3>4
    <3>6. g[1] = a[1] /\ g[2] = b[2 - 1] /\ g[3] = b[3 - 1] /\ g[4] = b[4 - 1]
      BY <3>5
    <3>7. 2 - 1 = 1 /\ 3 - 1 = 2 /\ 4 - 1 = 3
      OBVIOUS
    <3> QED BY <2>4, <3>1, <3>5, <3>6, <3>7
  <2>7. PICK q \in Plan : q = g \o t
    BY PlanConcat
  <2>8. EndsIn(q, 4, t) /\ \A i \in 1 .. 4 : q[i] = g[i]
    <3>1. EndsIn(q, Len(g), t) /\ \A i \in 1 .. Len(g) : q[i] = g[i]
      BY <2>7, ConcatEndsIn
    <3> QED BY <2>6, <3>1
  <2>9. /\ q[1].do = "register" /\ q[1].id = p[1].id /\ q[1].row = p[1].row
        /\ q[2].do = "write_tmp" /\ q[3].do = "move_index" /\ q[4].do = "move_metadata"
        /\ \A i \in 1 .. 4 : q[i].docs = {}
        /\ \A i \in 2 .. 4 : q[i].id = 0
    <3>1. \A i \in 1 .. 4 : i = 1 \/ i = 2 \/ i = 3 \/ i = 4
      OBVIOUS
    <3>2. q[1] = y /\ q[2] = b[1] /\ q[3] = b[2] /\ q[4] = b[3]
      BY <2>6, <2>8
    <3>3. \A i \in 2 .. 4 : i = 2 \/ i = 3 \/ i = 4
      OBVIOUS
    <3>4. /\ b[1].docs = {} /\ b[2].docs = {} /\ b[3].docs = {}
          /\ b[1].id = 0 /\ b[2].id = 0 /\ b[3].id = 0
      <4>1. 1 \in 1 .. 3 /\ 2 \in 1 .. 3 /\ 3 \in 1 .. 3
        OBVIOUS
      <4> QED BY <2>5, <4>1, Zenon
    <3>5. \A i \in 1 .. 4 : q[i].docs = {}
      BY <2>3, <3>1, <3>2, <3>4
    <3>6. \A i \in 2 .. 4 : q[i].id = 0
      BY <3>2, <3>3, <3>4
    <3> QED BY <2>2, <2>3, <2>5, <3>2, <3>5, <3>6
  <2>10. plan' = [plan EXCEPT ![w] = q]
    BY <1>2, <1>3, <1>7, <2>2, <2>3, <2>4, <2>5, <2>6, <2>7 DEF IngestChunks, Continue
  <2>11. PICK r \in Seq(Chunk) : /\ r = Append(store[w], <<d, d>>)
                                 /\ Owners(r) = Owners(store[w]) \cup {p[1].id}
    BY <1>4, <2>2, OwnersAppend
  <2>12. store' = [store EXCEPT ![w] = r]
    BY <1>2, <1>7, <2>2, <2>11 DEF IngestChunks
  <2>13. plan'[w] = q /\ store'[w] = r /\ failures' = failures
    BY <1>4, <1>7, <2>10, <2>12 DEF IngestChunks
  <2>14. EndsIn(q, 4, Tail(p))
    BY <1>3, <2>8
  <2>15. Sound(q, r, disk, Documents, writer, issued, crashes, failures, files')
    BY <1>2, <1>4, <2>1, <2>9, <2>11, <2>14, IngestStep
  <2> QED BY <1>5, <2>13, <2>15, RInvFrom
<1>8. CASE IngestFails(w)
  <2>1. p[1].do = "ingest"
    BY <1>1, <1>2, <1>8
  <2>2. PICK q \in Plan : q = AfterFailure(t)
    BY AfterFailureIs
  <2>3. q = t \/ q = <<>>
    BY <2>2 DEF AfterFailure
  <2>4. plan'[w] = q /\ store' = store /\ failures' = failures + 1
    BY <1>3, <1>4, <1>8, <2>2 DEF IngestFails, Continue
  <2>5. Sound(q, store[w], disk, Documents, writer, issued, crashes, failures + 1, files')
    BY <1>2, <1>3, <1>4, <2>1, <2>3, IngestFailsStep
  <2> QED BY <1>5, <2>4, <2>5, RInvFrom
<1> QED BY <1>6, <1>7, <1>8

(* One document of a reindex.                                                *)
LEMMA ReingestSound ==
    ASSUME OneWorker, RInv, TInv', NEW w \in Worker, Reingest(w)
    PROVE  RInv'
<1>1. PICK p \in Plan :
         /\ p = plan[w] /\ p # <<>> /\ p[1] = Next1(w) /\ p[1] \in GoodStep /\ p[1].do = "reingest"
         /\ Tail(p) = Rest(w) /\ Rest(w) \in Plan
         /\ Sound(p, store[w], disk, Documents, writer, issued, crashes, failures, files)
  BY Serving DEF Reingest
<1>2. PICK t \in Plan : t = Tail(p) /\ t = Rest(w)
  BY <1>1
<1>3. /\ plan \in [Worker -> Plan] /\ issued \in Nat /\ files \in [File -> Content \cup {None}]
  BY Typed
<1>4. /\ Documents' = Documents
      /\ UNCHANGED <<files, disk, store, writer, issued, crashes, failures>>
  BY SameRows DEF Reingest
<1>5. PICK d \in DocId, x \in Row, f \in File, D \in SUBSET DocId :
        d = p[1].id /\ x = p[1].row /\ f = x.file /\ D = p[1].docs
  BY <1>1 DEF GoodStep, Step
<1>6. PICK c \in Content \cup {None} : c = files[f]
  BY <1>3
<1>7. Continue(w, (IF c = None THEN <<>>
                   ELSE << OfDoc("ingest", [x EXCEPT !.content = c, !.status = "approved",
                                                     !.signed = FALSE], d),
                           DoFor("drop_old", D) >>) \o t)
  BY <1>1, <1>2, <1>5, <1>6 DEF Reingest
<1>8. CASE c = None
  <2>1. plan'[w] = t
    <3>1. PICK none \in Plan : none = <<>>
      BY PlanNone
    <3>2. none \o t = t
      BY <3>1, ConcatEmptySeq DEF Plan
    <3> QED BY <1>3, <1>7, <1>8, <3>1, <3>2 DEF Continue
  <2>2. writer # None => Decides(Tail(p))
    BY <1>1, TailIs DEF Sound, Locked, Decides, Held, Moving
  <2>3. files[p[1].row.file] = None
    BY <1>5, <1>6, <1>8
  <2>4. Sound(Tail(p), store[w], disk, Documents, writer, issued, crashes, failures, files)
    BY <1>1, <2>2, <2>3, PlainStep
  <2> QED BY <1>2, <1>4, <2>1, <2>4, RInvFrom
<1>9. CASE c # None
  <2>1. PICK y \in Row : y = [x EXCEPT !.content = c, !.status = "approved", !.signed = FALSE]
    BY DEF Row
  <2>2. y.file \in File /\ y.status = "approved"
    BY <1>5, <2>1 DEF Row
  <2>3. PICK a \in GoodStep :
           a = OfDoc("ingest", y, d) /\ a.do = "ingest" /\ a.row = y /\ a.id = d /\ a.docs = {}
    BY <2>2, OfDocIs DEF Effect, GoodRow
  <2>4. PICK b \in GoodStep :
           b = DoFor("drop_old", D) /\ b.do = "drop_old" /\ b.docs = D /\ b.id = 0
    BY DoForIs DEF Effect
  <2>5. PICK g \in Plan : g = <<a, b>> /\ Len(g) = 2 /\ g[1] = a /\ g[2] = b
    BY <2>3, <2>4, PlanTwo
  <2>6. PICK q \in Plan : q = g \o t
    BY PlanConcat
  <2>7. EndsIn(q, 2, t) /\ q[1] = a /\ q[2] = b
    <3>1. EndsIn(q, Len(g), t) /\ \A i \in 1 .. Len(g) : q[i] = g[i]
      BY <2>6, ConcatEndsIn
    <3> QED BY <2>5, <3>1
  <2>8. plan'[w] = q
    BY <1>3, <1>7, <1>9, <2>1, <2>3, <2>4, <2>5, <2>6 DEF Continue
  <2>9. /\ q[1].do = "ingest" /\ q[1].id = p[1].id /\ q[1].row.status # "none" /\ q[1].docs = {}
        /\ q[2].do = "drop_old" /\ q[2].docs = p[1].docs /\ q[2].id = 0
        /\ EndsIn(q, 2, Tail(p)) /\ p[1].id \in DocId
    BY <1>2, <1>5, <2>2, <2>3, <2>4, <2>7
  <2>10. Sound(q, store[w], disk, Documents, writer, issued, crashes, failures, files)
    BY <1>1, <1>3, <2>9, ReingestStep
  <2> QED BY <1>4, <2>8, <2>10, RInvFrom
<1> QED BY <1>8, <1>9

(* The keyword index after a full reindex.                                   *)
LEMMA RebuildSound ==
    ASSUME OneWorker, RInv, TInv', NEW w \in Worker, RebuildKeyword(w)
    PROVE  RInv'
<1>1. PICK p \in Plan :
         /\ p = plan[w] /\ p # <<>> /\ p[1] = Next1(w) /\ p[1] \in GoodStep
         /\ p[1].do = "rebuild_keyword"
         /\ Tail(p) = Rest(w) /\ Rest(w) \in Plan
         /\ Sound(p, store[w], disk, Documents, writer, issued, crashes, failures, files)
  BY Serving DEF RebuildKeyword
<1>2. PICK t \in Plan : t = Tail(p) /\ t = Rest(w)
  BY <1>1
<1>3. plan \in [Worker -> Plan] /\ issued \in Nat
  BY Typed
<1>4. /\ Documents' = Documents
      /\ UNCHANGED <<files, disk, store, writer, issued, crashes, failures>>
  BY SameRows DEF RebuildKeyword
<1>5. PICK q \in Plan :
         /\ q = Save(FALSE) \o t /\ EndsIn(q, 3, t)
         /\ q[1].do = "write_tmp" /\ q[2].do = "move_index" /\ q[3].do = "move_metadata"
         /\ \A i \in 1 .. 3 : q[i].docs = {} /\ q[i].id = 0
  BY SaveThen
<1>6. plan'[w] = q
  BY <1>2, <1>3, <1>5 DEF RebuildKeyword, Continue
<1>7. Covered(Tail(p), Owners(store[w]))
  BY <1>1, TailPromises
<1>8. Sound(q, store[w], disk, Documents, writer, issued, crashes, failures, files)
  BY <1>1, <1>2, <1>3, <1>5, <1>7, SaveBegins
<1> QED BY <1>4, <1>6, <1>8, RInvFrom

(* The lock is taken by a decision, or met by the request that holds it.      *)
LEMMA LockSound ==
    ASSUME OneWorker, RInv, TInv', NEW w \in Worker, OpenDecision(w) \/ DatabaseLocked(w)
    PROVE  RInv'
<1>1. PICK e \in Opening \cup {"delete", "register", "set_status", "drop_old"} :
         Doing(w, e) /\ (OpenDecision(w) => e \in Opening)
  BY DEF OpenDecision, DatabaseLocked, Opening
<1>2. PICK p \in Plan :
         /\ p = plan[w] /\ p # <<>> /\ p[1] = Next1(w) /\ p[1] \in GoodStep /\ p[1].do = e
         /\ Tail(p) = Rest(w) /\ Rest(w) \in Plan
         /\ Sound(p, store[w], disk, Documents, writer, issued, crashes, failures, files)
  BY <1>1, Serving
<1>3. PICK t \in Plan : t = Tail(p) /\ t = Rest(w)
  BY <1>2
<1>4. plan \in [Worker -> Plan] /\ writer \in Worker \cup {None}
  BY Typed
<1>5. Documents' = Documents /\ UNCHANGED <<files, disk, store, issued, crashes, failures>>
  BY SameRows DEF OpenDecision, DatabaseLocked
<1>6. CASE OpenDecision(w)
  <2>1. plan'[w] = t
    BY <1>3, <1>4, <1>6 DEF OpenDecision, Continue
  <2>2. p[1].do \in Opening
    BY <1>1, <1>2, <1>6
  <2>3. Decides(Tail(p))
    BY <1>2, <2>2, TailIs DEF Sound, Shape, OpensFirst
  <2>4. p[1].do # "reingest" /\ p[1].do # "drop_old"
    BY <2>2 DEF Opening
  <2>5. Sound(Tail(p), store[w], disk, Documents, writer', issued, crashes, failures, files)
    BY <1>2, <2>2, <2>3, <2>4, PlainStep
  <2> QED BY <1>3, <1>5, <2>1, <2>5, RInvFrom
<1>7. CASE DatabaseLocked(w)
  <2>1. writer # None /\ writer = w
    <3>1. \A v \in Worker : v = w
      BY DEF OneWorker
    <3> QED BY <1>4, <1>7, <3>1 DEF DatabaseLocked
  <2>2. /\ p[1].do = "delete"
        /\ Sound(<<>>, store[w], disk, Documents, None, issued, crashes, failures, files)
    BY <1>1, <1>2, <2>1, LockedStep
  <2>3. Abort(w)
    BY <1>2, <1>7, <2>2 DEF DatabaseLocked, Doing
  <2>4. plan'[w] = <<>> /\ writer' = None
    BY <1>4, <2>1, <2>3 DEF Abort, Continue
  <2> QED BY <1>5, <2>2, <2>4, RInvFrom
<1> QED BY <1>6, <1>7

(* Starting, a worker has what it loads.                                      *)
LEMMA StartSound ==
    ASSUME OneWorker, RInv, TInv', NEW w \in Worker, Exit(w) \/ Restart(w)
    PROVE  RInv'
<1>1. /\ plan \in [Worker -> Plan] /\ plan[w] \in Plan /\ writer \in Worker \cup {None}
      /\ store \in [Worker -> Seq(Chunk)] /\ disk \in Disk /\ crashes \in Nat
  BY Typed
<1>2. PICK p \in Plan : p = plan[w]
  BY <1>1
<1>3. Sound(p, store[w], disk, Documents, writer, issued, crashes, failures, files)
  BY <1>2 DEF RInv
<1>4. crashes' = crashes + 1 \/ (crashes' = crashes /\ Has(p, "exit"))
  <2>1. CASE Exit(w)
    <3>1. Doing(w, "exit") /\ crashes' = crashes
      BY <2>1 DEF Exit
    <3>2. PICK q \in Plan : q = plan[w] /\ q # <<>> /\ q[1].do = "exit"
      BY <3>1, Serving
    <3>3. Has(q, "exit")
      BY <3>2, TailIs DEF Has
    <3> QED BY <1>2, <3>1, <3>2, <3>3
  <2>2. CASE Restart(w)
    BY <2>2 DEF Restart
  <2> QED BY <2>1, <2>2
<1>5. crashes' \in Nat
  BY <1>1, <1>4
<1>6. Start(w)
  BY DEF Exit, Restart
<1>7. Documents' = Documents /\ UNCHANGED <<disk, files, issued, failures>>
  BY <1>6, SameRows DEF Start
<1>8. store'[w] = Load(disk) /\ plan'[w] = <<>>
  BY <1>1, <1>6 DEF Start, Abort, Continue
<1>9. writer' = None
  <2>1. \A v \in Worker : v = w
    BY DEF OneWorker
  <2> QED BY <1>1, <1>6, <2>1 DEF Start, Abort
<1>10. Sound(<<>>, Load(disk), disk, Documents, None, issued, crashes', failures, files)
  BY <1>1, <1>3, <1>4, <1>5, StartStep
<1> QED BY <1>7, <1>8, <1>9, <1>10, RInvFrom

-----------------------------------------------------------------------------
(* Every request the one worker receives *)

(* An idle worker has promised all it did.                                   *)
LEMMA Receiving ==
    ASSUME RInv, NEW w \in Worker, Idle(w)
    PROVE  /\ Sound(<<>>, store[w], disk, Documents, writer, issued, crashes, failures, files)
           /\ Documents \subseteq 1 .. issued
<1>1. Sound(plan[w], store[w], disk, Documents, writer, issued, crashes, failures, files)
  BY DEF RInv
<1>2. plan[w] = <<>>
  BY DEF Idle
<1>3. Sound(<<>>, store[w], disk, Documents, writer, issued, crashes, failures, files)
  BY <1>1, <1>2
<1> QED BY <1>3 DEF Sound, Ids

(* A request that only makes a plan.                                         *)
LEMMA RequestSound ==
    ASSUME OneWorker, RInv, TInv', NEW w \in Worker, NEW q \in Plan, Starts(w, q),
           UNCHANGED <<rows, files, disk, store, writer, crashes, failures>>,
           issued' = issued \/ issued' = issued + 1,
           Shape(q), ForgetsAll(q), ~Has(q, "exit"),
           \A i \in DOMAIN q : q[i].do \notin Saving \ {"ingest"} /\ q[i].id <= issued'
    PROVE  RInv'
<1>1. Sound(<<>>, store[w], disk, Documents, writer, issued, crashes, failures, files)
  BY Receiving DEF Starts
<1>2. issued \in Nat /\ issued' \in Nat /\ issued <= issued' /\ plan \in [Worker -> Plan]
  BY Typed
<1>3. Documents' = Documents
  BY SameRows
<1>4. plan'[w] = q
  BY <1>2 DEF Starts
<1>5. Sound(q, store[w], disk, Documents, writer, issued', crashes, failures, files)
  BY <1>1, <1>2, RequestStep
<1> QED BY <1>3, <1>4, <1>5, RInvFrom

(* One step and another are two steps.                                       *)
LEMMA OneAndOne ==
    ASSUME NEW a \in GoodStep, NEW b \in GoodStep
    PROVE  <<a>> \o <<b>> = <<a, b>>
<1>1. PICK x \in Seq(GoodStep), y \in Seq(GoodStep), z \in Seq(GoodStep) :
         x = <<a>> /\ y = <<b>> /\ z = <<a, b>>
  <2>1. <<a>> \in Seq(GoodStep) /\ <<b>> \in Seq(GoodStep) /\ <<a, b>> \in Seq(GoodStep)
    OBVIOUS
  <2> QED BY <2>1, Zenon
<1>2. Len(x) = 1 /\ Len(y) = 1 /\ Len(z) = 2 /\ x[1] = a /\ y[1] = b /\ z[1] = a /\ z[2] = b
  BY <1>1
<1>3. PICK q \in Seq(GoodStep) : q = x \o y
  BY ConcatProperties
<1>4. /\ Len(q) = Len(x) + Len(y)
      /\ \A i \in 1 .. Len(x) + Len(y) : q[i] = IF i <= Len(x) THEN x[i] ELSE y[i - Len(x)]
  BY <1>3, ConcatProperties
<1>5. Len(q) = 2 /\ \A i \in 1 .. 2 : (i <= 1 => q[i] = x[i]) /\ (~(i <= 1) => q[i] = y[i - 1])
  BY <1>2, <1>4
<1>6. q[1] = a /\ q[2] = b
  <2>1. q[1] = x[1] /\ q[2] = y[2 - 1] /\ 2 - 1 = 1
    BY <1>5
  <2> QED BY <1>2, <2>1
<1>7. \A i \in 1 .. 2 : i = 1 \/ i = 2
  OBVIOUS
<1>8. \A i \in 1 .. Len(z) : q[i] = z[i]
  BY <1>2, <1>6, <1>7
<1>9. Len(q) = Len(z)
  BY <1>2, <1>5
<1>10. q = z
  BY <1>8, <1>9, SeqEqual
<1> QED BY <1>1, <1>3, <1>10

(* The two steps of a removal: of no id, and no save to come of themselves.   *)
LEMMA RemovalIsSound ==
    ASSUME NEW d \in DocId
    PROVE  \E q \in Plan :
              /\ q = Removal(d) /\ Len(q) = 2
              /\ Shape(q) /\ ForgetsAll(q) /\ ~Has(q, "exit") /\ Decides(q)
              /\ q[1].do = "forget" /\ q[2].do = "delete"
              /\ q[1].docs = {d} /\ q[2].docs = {d}
              /\ \A i \in DOMAIN q : q[i].do \notin Saving /\ q[i].id = 0
<1>1. PICK D \in SUBSET DocId : D = {d}
  OBVIOUS
<1>2. PICK a \in GoodStep : a = DoFor("forget", D) /\ a.do = "forget" /\ a.docs = D /\ a.id = 0
  BY DoForIs DEF Effect
<1>3. PICK b \in GoodStep : b = DoFor("delete", D) /\ b.do = "delete" /\ b.docs = D /\ b.id = 0
  BY DoForIs DEF Effect
<1>4. PICK q \in Plan :
         /\ q = <<a, b>> /\ Len(q) = 2 /\ q[1] = a /\ q[2] = b
         /\ Shape(q) /\ ForgetsAll(q) /\ ~Has(q, "exit") /\ (b.do = "delete" => Decides(q))
         /\ \A i \in DOMAIN q : q[i].do \notin Saving /\ q[i].id = 0
  BY <1>2, <1>3, RemovalPlan DEF Removing
<1>5. q = Removal(d)
  BY <1>1, <1>2, <1>3, <1>4 DEF Removal
<1> QED BY <1>1, <1>2, <1>3, <1>4, <1>5

(* Decisions, deletions and the cleanup.                                      *)
LEMMA RemovalSound ==
    ASSUME OneWorker, RInv, TInv', NEW w \in Worker,
           \/ \E d \in DocId : Approve(w, d) \/ Reject(w, d) \/ DeleteDocument(w, d)
           \/ \E D \in SUBSET (1 .. issued) : BatchDelete(w, D) \/ CleanupVectorStore(w, D)
    PROVE  RInv'
<1>1. UNCHANGED <<rows, files, disk, store, writer, issued, crashes, failures>>
  BY DEF Approve, Reject, DeleteDocument, BatchDelete, CleanupVectorStore
<1>2. 1 .. issued \subseteq DocId /\ issued \in Nat
  BY Typed, MaxDocsAssumption DEF DocId
(* A plan whose steps are of no id and neither save nor ingest. *)
<1>3. ASSUME NEW q \in Plan, Starts(w, q), Shape(q), ForgetsAll(q), ~Has(q, "exit"),
             \A i \in DOMAIN q : q[i].do \notin Saving /\ q[i].id = 0
      PROVE  RInv'
  <2>1. \A i \in DOMAIN q : q[i].do \notin Saving \ {"ingest"} /\ q[i].id <= issued'
    BY <1>1, <1>2, <1>3
  <2> QED BY <1>1, <1>3, <2>1, RequestSound
(* The two steps of a removal. *)
<1>4. \A d \in DocId : \E q \in Plan :
         /\ q = Removal(d) /\ Len(q) = 2
         /\ Shape(q) /\ ForgetsAll(q) /\ ~Has(q, "exit") /\ Decides(q)
         /\ q[1].do = "forget" /\ q[2].do = "delete"
         /\ \A i \in DOMAIN q : q[i].do \notin Saving /\ q[i].id = 0
  <2> SUFFICES ASSUME NEW d \in DocId
               PROVE  \E q \in Plan :
         /\ q = Removal(d) /\ Len(q) = 2
         /\ Shape(q) /\ ForgetsAll(q) /\ ~Has(q, "exit") /\ Decides(q)
         /\ q[1].do = "forget" /\ q[2].do = "delete"
         /\ \A i \in DOMAIN q : q[i].do \notin Saving /\ q[i].id = 0
    OBVIOUS
  <2> QED BY RemovalIsSound, Zenon
<1>5. ASSUME NEW d \in DocId, Approve(w, d)
      PROVE  RInv'
  <2>1. PICK D \in SUBSET DocId : D = {d}
    OBVIOUS
  <2>2. PICK a \in GoodStep : a = DoFor("open_approval", D) /\ a.do = "open_approval" /\ a.id = 0
    BY DoForIs DEF Effect
  <2>3. PICK b \in GoodStep : b = DoFor("commit_approval", D) /\ b.do = "commit_approval" /\ b.id = 0
    BY DoForIs DEF Effect
  <2>4. PICK t \in Plan : t = <<b>> /\ Len(t) = 1 /\ t[1] = b
    BY <2>3, PlanOne
  <2>5. DOMAIN t = {1}
    BY <2>4
  <2>6. Decides(t) /\ ForgetsAll(t)
    BY <2>3, <2>4, <2>5 DEF Decides, Held, Settling, ForgetsAll, Removing
  <2>7. \A i \in DOMAIN t : /\ t[i].do \in {"forget"} \cup Settling /\ t[i].id = 0
                            /\ t[i].do = "forget" => i = 1 /\ a.do = "open_rejection"
    BY <2>3, <2>4, <2>5 DEF Settling
  <2>8. PICK q \in Plan :
           /\ q = <<a>> \o t
           /\ Shape(q) /\ ForgetsAll(q) /\ ~Has(q, "exit")
           /\ \A i \in DOMAIN q : q[i].do \notin Saving /\ q[i].id = 0
    BY <2>2, <2>6, <2>7, DecisionPlan DEF Opening
  <2>9. q = << DoFor("open_approval", {d}), DoFor("commit_approval", {d}) >>
    <3>1. <<a>> \o <<b>> = <<a, b>>
      BY <2>2, <2>3, OneAndOne
    <3> QED BY <2>1, <2>2, <2>3, <2>4, <2>8, <3>1
  <2>10. Starts(w, q)
    BY <1>5, <2>9 DEF Approve
  <2> QED BY <1>3, <2>8, <2>10
<1>6. ASSUME NEW d \in DocId, Reject(w, d)
      PROVE  RInv'
  <2>1. PICK D \in SUBSET DocId : D = {d}
    OBVIOUS
  <2>2. PICK a \in GoodStep : a = DoFor("open_rejection", D) /\ a.do = "open_rejection" /\ a.id = 0
    BY DoForIs DEF Effect
  <2>3. PICK t \in Plan :
           /\ t = Removal(d) /\ Len(t) = 2
           /\ Shape(t) /\ ForgetsAll(t) /\ ~Has(t, "exit") /\ Decides(t)
           /\ t[1].do = "forget" /\ t[2].do = "delete"
           /\ \A i \in DOMAIN t : t[i].do \notin Saving /\ t[i].id = 0
    BY <1>4
  <2>4. \A i \in DOMAIN t : i = 1 \/ i = 2
    BY <2>3, LenProperties DEF Plan
  <2>5. \A i \in DOMAIN t : /\ t[i].do \in {"forget"} \cup Settling /\ t[i].id = 0
                            /\ t[i].do = "forget" => i = 1 /\ a.do = "open_rejection"
    BY <2>2, <2>3, <2>4 DEF Settling
  <2>6. PICK q \in Plan :
           /\ q = <<a>> \o t
           /\ Shape(q) /\ ForgetsAll(q) /\ ~Has(q, "exit")
           /\ \A i \in DOMAIN q : q[i].do \notin Saving /\ q[i].id = 0
    BY <2>2, <2>3, <2>5, DecisionPlan DEF Opening
  <2>7. Starts(w, q)
    BY <1>6, <2>1, <2>2, <2>3, <2>6 DEF Reject
  <2> QED BY <1>3, <2>6, <2>7
<1>7. ASSUME NEW d \in DocId, DeleteDocument(w, d)
      PROVE  RInv'
  <2>1. PICK q \in Plan :
           /\ q = Removal(d) /\ Shape(q) /\ ForgetsAll(q) /\ ~Has(q, "exit")
           /\ \A i \in DOMAIN q : q[i].do \notin Saving /\ q[i].id = 0
    BY <1>4
  <2>2. Starts(w, q)
    BY <1>7, <2>1 DEF DeleteDocument
  <2> QED BY <1>3, <2>1, <2>2
<1>8. ASSUME NEW D \in SUBSET (1 .. issued), BatchDelete(w, D)
      PROVE  RInv'
  <2> DEFINE found == D \cap Documents
             named == {rows[d].file : d \in found}
  <2>1. D \in SUBSET DocId /\ found \in SUBSET DocId /\ found \subseteq D
    BY <1>2 DEF Documents
  <2>2. PICK F \in SUBSET File : F = named
    BY DEF RInv, TInv, Documents, Exists, GoodRow
  <2>3. PICK E \in SUBSET DocId : E = found
    BY <2>1
  <2>4. PICK a \in GoodStep : a = DoFor("forget", D) /\ a.do = "forget" /\ a.docs = D /\ a.id = 0
    BY <2>1, DoForIs DEF Effect
  <2>5. PICK x \in GoodStep :
           x = DoFor("delete", E) /\ x.do = "delete" /\ x.docs = E /\ x.row = NoRow /\ x.id = 0
    BY DoForIs DEF Effect
  <2>6. PICK b \in Step : b = [x EXCEPT !.files = F] /\ b.do = "delete" /\ b.row = x.row
                          /\ b.docs = E /\ b.id = 0
    <3>1. PICK z \in Step : z = x /\ z.do = "delete" /\ z.docs = E /\ z.id = 0
      BY <2>5 DEF GoodStep
    <3>2. PICK y \in Step : y = [z EXCEPT !.files = F]
      BY DEF Step
    <3>3. y.do = z.do /\ y.row = z.row /\ y.docs = z.docs /\ y.id = z.id
      BY <3>2 DEF Step
    <3> QED BY <3>1, <3>2, <3>3
  <2>7. b \in GoodStep
    <3>1. PICK nr : nr = NoRow
      OBVIOUS
    <3> QED BY <2>5, <2>6, <3>1, NoRowIs DEF GoodStep
  <2>8. PICK q \in Plan :
           /\ q = <<a, b>>
           /\ Shape(q) /\ ForgetsAll(q) /\ ~Has(q, "exit")
           /\ \A i \in DOMAIN q : q[i].do \notin Saving /\ q[i].id = 0
    <3>1. PICK y \in GoodStep : y = b
      BY <2>7
    <3>2. y.do = "delete" /\ y.docs \subseteq a.docs /\ y.id = 0
      BY <2>1, <2>3, <2>4, <2>6, <3>1
    <3>3. PICK q \in Plan :
             /\ q = <<a, y>>
             /\ Shape(q) /\ ForgetsAll(q) /\ ~Has(q, "exit")
             /\ \A i \in DOMAIN q : q[i].do \notin Saving /\ q[i].id = 0
      BY <2>4, <3>2, RemovalPlan DEF Removing
    <3> QED BY <3>1, <3>3
  <2>9. Starts(w, q)
    BY <1>8, <2>2, <2>3, <2>4, <2>5, <2>6, <2>8 DEF BatchDelete
  <2> QED BY <1>3, <2>8, <2>9
<1>9. ASSUME NEW D \in SUBSET (1 .. issued), CleanupVectorStore(w, D)
      PROVE  RInv'
  <2>1. D \in SUBSET DocId
    BY <1>2
  <2>2. PICK a \in GoodStep : a = DoFor("forget", D) /\ a.do = "forget" /\ a.docs = D /\ a.id = 0
    BY <2>1, DoForIs DEF Effect
  <2>3. PICK b \in GoodStep : b = DoFor("drop_old", D) /\ b.do = "drop_old" /\ b.docs = D /\ b.id = 0
    BY <2>1, DoForIs DEF Effect
  <2>4. PICK q \in Plan :
           /\ q = <<a, b>>
           /\ Shape(q) /\ ForgetsAll(q) /\ ~Has(q, "exit")
           /\ \A i \in DOMAIN q : q[i].do \notin Saving /\ q[i].id = 0
    BY <2>2, <2>3, RemovalPlan DEF Removing
  <2>5. Starts(w, q)
    BY <1>9, <2>2, <2>3, <2>4 DEF CleanupVectorStore
  <2> QED BY <1>3, <2>4, <2>5
<1> QED BY <1>5, <1>6, <1>7, <1>8, <1>9

(* An upload.                                                                *)
LEMMA UploadSound ==
    ASSUME OneWorker, RInv, TInv', NEW w \in Worker,
           NEW f \in File, NEW c \in Content, NEW role \in Uploader, Upload(w, f, c, role)
    PROVE  RInv'
<1> DEFINE team    == role = "hr_team"
           same    == {d \in Documents : rows[d].content = c}
           named   == {d \in Documents : rows[d].file = f}
<1>1. PICK new \in Row : new = [file |-> f, content |-> c, status |-> "approved", team |-> team,
                                signed |-> FALSE]
  <2>1. PICK b \in BOOLEAN : b = team
    OBVIOUS
  <2> HIDE DEF team
  <2>2. [file |-> f, content |-> c, status |-> "approved", team |-> b, signed |-> FALSE] \in Row
    BY DEF Row
  <2> QED BY <2>1, <2>2
<1>2. PICK decided \in Row :
         decided = [new EXCEPT !.status = IF team THEN "pending" ELSE "approved", !.signed = ~team]
  BY DEF Row
<1>3. /\ new.file \in File /\ new.status = "approved"
      /\ decided.file \in File /\ decided.status \in {"approved", "pending"}
  <2>1. new.file = f /\ new.status = "approved"
    BY <1>1
  <2>2. decided.file = new.file /\ decided.status = IF team THEN "pending" ELSE "approved"
    BY <1>2 DEF Row
  <2> QED BY <2>1, <2>2
<1>4. /\ issued \in Nat /\ issued <= MaxDocs /\ issued < MaxDocs /\ issued' = issued + 1
      /\ UNCHANGED <<rows, files, disk, store, writer, crashes, failures>>
  BY Typed DEF Upload
<1>5. PICK n \in DocId : n = issued + 1
  BY <1>4, MaxDocsAssumption DEF DocId
<1>6. PICK old \in IF same # {} THEN same ELSE IF named # {} THEN named ELSE {0} :
         Starts(w, (IF old = 0 THEN <<>> ELSE Removal(old))
                   \o << OfDoc("ingest", new, n), OfDoc("set_status", decided, n) >>)
  BY <1>1, <1>2, <1>5 DEF Upload
<1>7. old = 0 \/ (old \in DocId /\ old \in Documents)
  BY <1>6, DocumentsAreFew
<1>8. Idle(w)
  BY <1>6 DEF Starts
<1>9. old # 0 => n # old
  <2>1. Documents \subseteq 1 .. issued
    BY <1>8, Receiving
  <2> QED BY <1>4, <1>5, <1>7, <2>1
<1>10. PICK a \in Plan : a = (IF old = 0 THEN <<>> ELSE Removal(old)) /\ Clears(a, n)
  <2>1. CASE old = 0
    <3>1. PICK a \in Plan : a = <<>>
      BY PlanNone
    <3>2. DOMAIN a = {}
      BY <3>1
    <3>3. Clears(a, n)
      BY <3>2 DEF Clears, ForgetsAll
    <3> QED BY <2>1, <3>1, <3>3
  <2>2. CASE old # 0
    <3>1. PICK a \in Plan :
             /\ a = Removal(old) /\ Len(a) = 2 /\ ForgetsAll(a)
             /\ a[1].do = "forget" /\ a[2].do = "delete"
             /\ a[1].docs = {old} /\ a[2].docs = {old}
             /\ \A i \in DOMAIN a : a[i].id = 0
      BY <1>7, <2>2, RemovalIsSound
    <3>2. \A i \in DOMAIN a : i = 1 \/ i = 2
      BY <3>1, LenProperties DEF Plan
    <3>3. Clears(a, n)
      BY <1>9, <2>2, <3>1, <3>2 DEF Clears
    <3> QED BY <2>2, <3>1, <3>3
  <2> QED BY <2>1, <2>2
<1>11. PICK x \in GoodStep :
          x = OfDoc("ingest", new, n) /\ x.do = "ingest" /\ x.row = new /\ x.id = n /\ x.docs = {}
  BY <1>3, OfDocIs DEF Effect, GoodRow
<1>12. PICK y \in GoodStep :
          /\ y = OfDoc("set_status", decided, n)
          /\ y.do = "set_status" /\ y.row = decided /\ y.id = n /\ y.docs = {}
  BY <1>3, OfDocIs DEF Effect, GoodRow
<1>13. x.row.status # "none" /\ y.row.status # "none"
  BY <1>3, <1>11, <1>12
<1>14. PICK b \in Plan : b = <<x, y>> /\ Ingests(b, n)
  <2>1. PICK b \in Plan : b = <<x, y>>
    BY <1>11, <1>12, PlanTwo
  <2>2. b[1] = x /\ b[2] = y /\ \A i \in DOMAIN b : i = 1 \/ i = 2
    BY <2>1
  <2>3. \A i \in DOMAIN b : b[i] = x \/ b[i] = y
    BY <2>2
  <2>4. Ingests(b, n)
    BY <1>11, <1>12, <1>13, <2>3 DEF Ingests
  <2> QED BY <2>1, <2>4, Zenon
<1>15. PICK q \in Plan : q = a \o b /\ Receivable(q, n)
  BY <1>10, <1>14, UploadPlan, Zenon
<1>16. Starts(w, q)
  BY <1>6, <1>10, <1>11, <1>12, <1>14, <1>15
<1>17. Shape(q) /\ ForgetsAll(q) /\ ~Has(q, "exit")
  BY <1>15 DEF Receivable
<1>18. \A i \in DOMAIN q : q[i].do \notin Saving \ {"ingest"} /\ q[i].id <= issued'
  BY <1>4, <1>5, <1>15 DEF Receivable
<1> QED BY <1>4, <1>16, <1>17, <1>18, RequestSound

(* A worker that is asked to stop.                                           *)
LEMMA ShutdownSound ==
    ASSUME OneWorker, RInv, TInv', NEW w \in Worker, Shutdown(w)
    PROVE  RInv'
<1>1. /\ UNCHANGED <<rows, files, disk, store, writer, issued, failures>>
      /\ crashes' = crashes + 1 /\ Starts(w, Save(TRUE) \o <<Do("exit")>>)
  BY DEF Shutdown
<1>2. plan \in [Worker -> Plan] /\ issued \in Nat /\ crashes \in Nat
  BY Typed
<1>3. Sound(<<>>, store[w], disk, Documents, writer, issued, crashes, failures, files)
  BY <1>1, Receiving DEF Starts
<1>4. PICK x \in GoodStep : x = Do("exit") /\ x.do = "exit" /\ x.id = 0 /\ x.docs = {}
  BY DoIs DEF Effect
<1>5. PICK t \in Plan : t = <<x>> /\ Len(t) = 1 /\ t[1] = x
  BY <1>4, PlanOne
<1>6. DOMAIN t = {1}
  BY <1>5
<1>7. PICK q \in Plan :
         /\ q = Save(TRUE) \o t /\ EndsIn(q, 3, t)
         /\ q[1].do = "write_tmp" /\ q[2].do = "move_index" /\ q[3].do = "move_metadata"
         /\ \A i \in 1 .. 3 : q[i].docs = {} /\ q[i].id = 0
  BY SaveThen
<1>8. plan'[w] = q
  BY <1>1, <1>2, <1>4, <1>5, <1>7 DEF Starts
<1>9. t[1].do = "exit" /\ t[1].id = 0 /\ t[1].docs = {}
  BY <1>4, <1>5
<1>10. Sound(q, store[w], disk, Documents, writer, issued, crashes + 1, failures, files)
  BY <1>2, <1>3, <1>6, <1>7, <1>9, ShutdownStep
<1>11. Documents' = Documents
  BY <1>1, SameRows
<1> QED BY <1>1, <1>8, <1>10, <1>11, RInvFrom

(* A reindex of one document.                                                *)
LEMMA ReindexOneSound ==
    ASSUME OneWorker, RInv, TInv', NEW w \in Worker, NEW d \in DocId, ReindexOne(w, d)
    PROVE  RInv'
<1>1. /\ UNCHANGED <<rows, files, disk, writer, crashes, failures>>
      /\ Exists(d) /\ files[rows[d].file] # None /\ issued < MaxDocs /\ issued' = issued + 1
      /\ store' = [store EXCEPT ![w] = Without(@, {d})]
      /\ Starts(w, <<[OfDoc("reingest", rows[d], issued + 1) EXCEPT !.docs = {d}]>>)
  BY DEF ReindexOne
<1>2. /\ plan \in [Worker -> Plan] /\ store \in [Worker -> Seq(Chunk)]
      /\ store[w] \in Seq(Chunk) /\ issued \in Nat
  BY Typed
<1>3. /\ Sound(<<>>, store[w], disk, Documents, writer, issued, crashes, failures, files)
      /\ Documents \subseteq 1 .. issued
  BY <1>1, Receiving DEF Starts
<1>4. d \in Documents
  BY <1>1 DEF Documents
<1>5. PICK n \in DocId : n = issued + 1
  BY <1>1, <1>2, MaxDocsAssumption DEF DocId
<1>6. PICK y \in GoodStep :
         /\ y = [OfDoc("reingest", rows[d], n) EXCEPT !.docs = {d}]
         /\ y.do = "reingest" /\ y.docs = {d} /\ y.row = rows[d] /\ y.id = n
  <2>1. TypeOK /\ \A e \in DocId : GoodRow(rows[e])
    BY DEF RInv, TInv
  <2> QED BY <1>4, <2>1, ReingestIs
<1>7. PICK q \in Plan : q = <<y>> /\ Len(q) = 1 /\ q[1] = y
  BY <1>6, PlanOne
<1>8. DOMAIN q = {1} /\ q # <<>>
  BY <1>7
<1>9. PICK r \in Seq(Chunk) : r = Without(store[w], {d}) /\ Owners(r) = Owners(store[w]) \ {d}
  BY <1>2, WithoutIs, OwnersWithout
<1>10. store'[w] = r /\ plan'[w] = q
  BY <1>1, <1>2, <1>5, <1>6, <1>7, <1>9 DEF Starts
<1>11. Dirty(q, files)
  BY <1>1, <1>6, <1>7, <1>8 DEF Dirty
<1>12. n \in Nat /\ issued <= n /\ n \notin Documents
  BY <1>2, <1>3, <1>5
<1>13. \A i \in DOMAIN q :
          /\ q[i].do \in {"reingest", "rebuild_keyword"} /\ q[i].id <= n
          /\ q[i].docs \cap Owners(r) = {} /\ q[i].docs \subseteq Documents
          /\ q[i].do = "reingest" => q[i].id \notin Documents
  <2>1. \A i \in DOMAIN q : q[i] = y
    BY <1>7, <1>8
  <2>2. y.do = "reingest" /\ y.id = n /\ y.docs = {d}
    BY <1>6
  <2>3. {d} \cap Owners(r) = {} /\ {d} \subseteq Documents
    BY <1>4, <1>9
  <2>4. n <= n
    BY <1>12
  <2> QED BY <1>12, <2>1, <2>2, <2>3, <2>4, Zenon
<1>14. Owners(r) \subseteq Owners(store[w])
  BY <1>9
<1>15. Sound(q, r, disk, Documents, writer, n, crashes, failures, files)
  BY <1>2, <1>3, <1>11, <1>12, <1>13, <1>14, ReindexStep
<1>16. Documents' = Documents
  BY <1>1, SameRows
<1> QED BY <1>1, <1>5, <1>10, <1>15, <1>16, RInvFrom

(* A reindex of all documents.                                               *)
LEMMA ReindexAllSound ==
    ASSUME OneWorker, RInv, TInv', NEW w \in Worker, ReindexAll(w)
    PROVE  RInv'
<1>1. PICK n \in Nat : n = Cardinality(Documents)
  BY DocumentsAreFew
<1>2. /\ UNCHANGED <<rows, files, disk, writer, crashes, failures>>
      /\ issued + n <= MaxDocs /\ issued' = issued + n
      /\ store' = [store EXCEPT ![w] = <<>>]
  BY <1>1 DEF ReindexAll
<1>3. PICK order \in [1 .. n -> Documents] :
         Starts(w, [i \in 1 .. n |-> [OfDoc("reingest", rows[order[i]], issued + i)
                                     EXCEPT !.docs = {order[i]}]]
                   \o <<Do("rebuild_keyword")>>)
  BY <1>1 DEF ReindexAll, SetToSeqs
<1>4. /\ plan \in [Worker -> Plan] /\ store \in [Worker -> Seq(Chunk)] /\ issued \in Nat
  BY Typed
<1>5. /\ Sound(<<>>, store[w], disk, Documents, writer, issued, crashes, failures, files)
      /\ Documents \subseteq 1 .. issued
  BY <1>3, Receiving DEF Starts
<1> DEFINE reingest == [i \in 1 .. n |-> [OfDoc("reingest", rows[order[i]], issued + i)
                                         EXCEPT !.docs = {order[i]}]]
<1>6. ASSUME NEW i \in 1 .. n
      PROVE  /\ reingest[i] \in GoodStep /\ reingest[i].do = "reingest"
             /\ reingest[i].id = issued + i /\ reingest[i].docs = {order[i]}
  <2>1. PICK d \in Documents, m \in DocId : d = order[i] /\ m = issued + i
    BY <1>2, <1>4, MaxDocsAssumption DEF DocId
  <2>2. TypeOK /\ \A e \in DocId : GoodRow(rows[e])
    BY DEF RInv, TInv
  <2>3. PICK y \in GoodStep :
           /\ y = [OfDoc("reingest", rows[d], m) EXCEPT !.docs = {d}]
           /\ y.do = "reingest" /\ y.docs = {d} /\ y.row = rows[d] /\ y.id = m
    BY <2>2, ReingestIs
  <2>4. reingest[i] = y
    BY <2>1, <2>3
  <2> QED BY <2>1, <2>3, <2>4
<1>7. DOMAIN reingest = 1 .. n
  OBVIOUS
<1>8. \E g : reingest = [i \in 1 .. n |-> g[i]]
  <2>1. reingest = [i \in 1 .. n |-> reingest[i]]
    OBVIOUS
  <2> QED BY <2>1
<1>9. Starts(w, reingest \o <<Do("rebuild_keyword")>>)
  BY <1>3
<1> HIDE DEF reingest
<1>10. PICK a \in Plan : a = reingest /\ Len(a) = n
  <2>1. reingest \in Seq(GoodStep) /\ Len(reingest) = n
    BY <1>6, <1>8
  <2>2. reingest \in Plan
    BY <1>6, <1>7, <2>1 DEF Plan
  <2> QED BY <2>1, <2>2
<1>11. PICK x \in GoodStep :
          x = Do("rebuild_keyword") /\ x.do = "rebuild_keyword" /\ x.id = 0 /\ x.docs = {}
  BY DoIs DEF Effect
<1>12. PICK b \in Plan : b = <<x>> /\ Len(b) = 1 /\ b[1] = x
  BY <1>11, PlanOne
<1>13. DOMAIN b = {1}
  BY <1>12
<1>14. PICK q \in Plan : q = a \o b
  BY PlanConcat
<1>15. EndsIn(q, n, b) /\ \A i \in 1 .. n : q[i] = a[i]
  <2>1. EndsIn(q, Len(a), b) /\ \A i \in 1 .. Len(a) : q[i] = a[i]
    BY <1>14, ConcatEndsIn
  <2> QED BY <1>10, <2>1
<1>16. plan'[w] = q
  BY <1>4, <1>9, <1>10, <1>11, <1>12, <1>14 DEF Starts
<1>17. PICK none \in Seq(Chunk) : none = <<>> /\ Owners(none) = {}
  <2>1. PICK none \in Seq(Chunk) : none = <<>>
    BY EmptySeq
  <2>2. DOMAIN none = {}
    BY <2>1
  <2>3. Owners(none) = {}
    BY <2>2 DEF Owners
  <2> QED BY <2>1, <2>3
<1>18. store'[w] = none
  BY <1>2, <1>4, <1>17
<1>19. Dirty(q, files)
  <2>1. 1 + n \in DOMAIN q /\ q[1 + n] = b[1]
    BY <1>13, <1>15 DEF EndsIn
  <2>2. q[1 + n].do \in Saving
    BY <1>11, <1>12, <2>1 DEF Saving
  <2> QED BY <2>1, <2>2 DEF Dirty
<1>20. PICK m \in Nat : m = issued + n /\ issued <= m
  BY <1>4
<1>21. \A i \in DOMAIN q :
          /\ q[i].do \in {"reingest", "rebuild_keyword"} /\ q[i].id <= m
          /\ q[i].docs \cap Owners(none) = {} /\ q[i].docs \subseteq Documents
          /\ q[i].do = "reingest" => q[i].id \notin Documents
  <2> SUFFICES ASSUME NEW i \in DOMAIN q
               PROVE  /\ q[i].do \in {"reingest", "rebuild_keyword"} /\ q[i].id <= m
                      /\ q[i].docs \subseteq Documents
                      /\ q[i].do = "reingest" => q[i].id \notin Documents
    BY <1>17
  <2>1. CASE i \in 1 .. n
    <3>1. /\ q[i].do = "reingest" /\ q[i].id = issued + i /\ q[i].docs = {order[i]}
      BY <1>6, <1>10, <1>15, <2>1
    <3>2. order[i] \in Documents
      BY <2>1
    <3>3. issued + i <= m /\ issued + i \notin Documents
      BY <1>4, <1>5, <1>20, <2>1
    <3> QED BY <3>1, <3>2, <3>3
  <2>2. CASE i - n \in DOMAIN b /\ q[i] = b[i - n]
    <3>1. q[i] = x
      BY <1>12, <1>13, <2>2
    <3> QED BY <1>11, <1>20, <3>1
  <2> QED BY <1>15, <2>1, <2>2 DEF EndsIn
<1>22. Owners(none) \subseteq Owners(store[w])
  BY <1>17
<1>23. Sound(q, none, disk, Documents, writer, m, crashes, failures, files)
  BY <1>4, <1>5, <1>19, <1>20, <1>21, <1>22, ReindexStep
<1>24. Documents' = Documents
  BY <1>2, SameRows
<1>25. issued' = m
  BY <1>2, <1>20
<1> QED BY <1>2, <1>16, <1>18, <1>23, <1>24, <1>25, RInvFrom

-----------------------------------------------------------------------------
(* The theorems *)

(* Nothing is promised of nothing: empty memory, empty files, no document.    *)
LEMMA RInvInit ==
    ASSUME Init
    PROVE  RInv
<1>1. TInv
  BY TInvInit
<1>2. Documents = {}
  BY DEF Init, Documents, Exists, NoRow
<1>3. PICK none : none = <<>>
  OBVIOUS
<1>4. /\ DOMAIN none = {} /\ Len(none) = 0
      /\ Vectors(none) = none /\ Metadata(none) = none /\ Owners(none) = {}
  <2>1. DOMAIN none = {} /\ Len(none) = 0
    BY <1>3
  <2>2. \A h : [i \in {} |-> none[i][h]] = none
    BY <1>3
  <2> QED BY <1>3, <2>1, <2>2 DEF Vectors, Metadata, Owners
<1>5. disk.index = none /\ disk.metadata = none
  BY <1>3 DEF Init
<1>6. Load(disk) = none
  BY <1>3, <1>4, <1>5 DEF Load
<1>7. Listed(disk) = {}
  BY <1>4, <1>5 DEF Listed
<1>8. ASSUME NEW w \in Worker
      PROVE  Sound(plan[w], store[w], disk, Documents, writer, issued, crashes, failures, files)
  <2>1. /\ plan[w] = <<>> /\ store[w] = none /\ writer = None /\ issued = 0 /\ crashes = 0 /\ failures = 0
    BY <1>3 DEF Init
  <2>2. Ids(<<>>, {}, 0)
    BY NothingIsPromised DEF Ids
  <2>3. Known(<<>>, none, {}, 0, 0)
    BY <1>4 DEF Known
  <2>4. DiskKnown(<<>>, disk, {}, 0, 0)
    BY <1>7, NothingIsPromised DEF DiskKnown
  <2>5. DiskSynced(<<>>, none, disk, 0, 0, files)
    BY <1>4, <1>5, <1>6 DEF DiskSynced, Synced
  <2> QED BY <1>2, <2>1, <2>2, <2>3, <2>4, <2>5, NothingIsPromised DEF Sound, Locked
<1> QED BY <1>1, <1>8 DEF RInv

(* Every step of the one worker keeps what its plan promises.                 *)
LEMMA RInvNext ==
    ASSUME OneWorker, RInv, [Next]_vars
    PROVE  RInv'
<1>1. TInv'
  BY TInvNext DEF RInv
<1>2. CASE UNCHANGED vars
  <2>1. UNCHANGED <<rows, files, disk, store, plan, writer, issued, crashes, failures>>
    BY <1>2 DEF vars
  <2>2. Documents' = Documents
    BY <2>1, SameRows
  <2> QED BY <1>1, <2>1, <2>2 DEF RInv
<1>3. ASSUME NEW w \in Worker, Proceed(w)
      PROVE  RInv'
  BY <1>1, <1>3, ForgetSound, SaveSound, RowSound, FileSound, ReingestSound, RebuildSound,
     LockSound, StartSound DEF Proceed
<1>4. ASSUME NEW w \in Worker, Receive(w)
      PROVE  RInv'
  <2>1. CASE \E f \in File, c \in Content, role \in Uploader : Upload(w, f, c, role)
    BY <1>1, <2>1, UploadSound
  <2>2. CASE \/ \E d \in DocId : Approve(w, d) \/ Reject(w, d) \/ DeleteDocument(w, d)
             \/ \E D \in SUBSET (1 .. issued) : BatchDelete(w, D) \/ CleanupVectorStore(w, D)
    BY <1>1, <2>2, RemovalSound
  <2>3. CASE \E d \in DocId : ReindexOne(w, d)
    BY <1>1, <2>3, ReindexOneSound
  <2>4. CASE ReindexAll(w)
    BY <1>1, <2>4, ReindexAllSound
  <2>5. CASE Shutdown(w)
    BY <1>1, <2>5, ShutdownSound
  <2> QED BY <1>4, <2>1, <2>2, <2>3, <2>4, <2>5 DEF Receive
<1>5. ASSUME NEW w \in Worker, Restart(w)
      PROVE  RInv'
  BY <1>1, <1>5, StartSound
<1> QED BY <1>2, <1>3, <1>4, <1>5 DEF Next

(* Whatever a plan promises, an idle worker has done.                        *)
LEMMA QuietIsSound ==
    ASSUME RInv, Quiet, NEW w \in Worker
    PROVE  /\ Known(<<>>, store[w], Documents, crashes, failures)
           /\ DiskSynced(<<>>, store[w], disk, crashes, failures, files)
<1>1. plan[w] = <<>>
  BY DEF Quiet, Idle
<1>2. Sound(plan[w], store[w], disk, Documents, writer, issued, crashes, failures, files)
  BY DEF RInv
<1>3. Sound(<<>>, store[w], disk, Documents, writer, issued, crashes, failures, files)
  BY <1>1, <1>2
<1> QED BY <1>3 DEF Sound

(* NoGhostChunks: with one worker process, the vector store holds no chunk of *)
(* a document that the database does not know, when no request is served and *)
(* the process has died once at most (not at all, if an ingestion failed).    *)
THEOREM NoGhostsAppear == OneWorker => (Spec => []NoGhostChunks)
<1>1. ASSUME RInv
      PROVE  NoGhostChunks
  <2> SUFFICES ASSUME Quiet, crashes = 0 \/ (crashes = 1 /\ failures = 0), NEW w \in Worker
               PROVE  Owners(store[w]) \subseteq Documents
    BY DEF NoGhostChunks
  <2>1. Known(<<>>, store[w], Documents, crashes, failures)
    BY <1>1, QuietIsSound
  <2> QED BY <2>1, NothingIsPromised DEF Known
<1> SUFFICES ASSUME OneWorker PROVE Spec => []NoGhostChunks
  OBVIOUS
<1>2. Init => RInv
  BY RInvInit
<1>3. RInv /\ [Next]_vars => RInv'
  BY RInvNext
<1>4. RInv => NoGhostChunks
  BY <1>1
<1> QED BY <1>2, <1>3, <1>4, PTL DEF Spec

(* RestartLosesNothing: with one worker process, the index files load to what *)
(* the process has in memory, when no request is served and no ingestion      *)
(* failed, whenever and however often the process died before.                *)
THEOREM RestartsLoseNothing == OneWorker => (Spec => []RestartLosesNothing)
<1>1. ASSUME RInv
      PROVE  RestartLosesNothing
  <2> SUFFICES ASSUME Quiet, failures = 0, NEW w \in Worker
               PROVE  store[w] = Load(disk)
    BY DEF RestartLosesNothing
  <2>1. DiskSynced(<<>>, store[w], disk, crashes, failures, files)
    BY <1>1, QuietIsSound
  <2>2. ~Dirty(<<>>, files)
    BY DEF Dirty
  <2> QED BY <2>1, <2>2 DEF DiskSynced, Synced
<1> SUFFICES ASSUME OneWorker PROVE Spec => []RestartLosesNothing
  OBVIOUS
<1>2. Init => RInv
  BY RInvInit
<1>3. RInv /\ [Next]_vars => RInv'
  BY RInvNext
<1>4. RInv => RestartLosesNothing
  BY <1>1
<1> QED BY <1>2, <1>3, <1>4, PTL DEF Spec

=============================================================================
