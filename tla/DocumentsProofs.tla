-------------------------- MODULE DocumentsProofs --------------------------
(***************************************************************************)
(* Proofs about DocumentIndex, for any number of workers, documents,       *)
(* crashes and failed ingestions.                                          *)
(*                                                                         *)
(* TInv is inductive: a plan holds steps that know what they are about     *)
(* (GoodStep), and in a plan the first rename of a save is followed by     *)
(* something, which a failed save relies on when it skips the second.      *)
(* What keep_indices does (WithoutIs) follows from counting: the rank of a *)
(* kept position among the kept ones is one to one, so every place of the  *)
(* new sequence is filled by exactly one of them.                          *)
(***************************************************************************)
EXTENDS DocumentIndex, FiniteSetTheorems, SequenceTheorems, TLAPS

(* What keep_indices keeps: the chunks of other documents, in a sequence as   *)
(* long as there are; it keeps the length only if it drops nothing.           *)
LEMMA WithoutIs ==
    ASSUME NEW s \in Seq(Chunk), NEW D
    PROVE  /\ Without(s, D) \in Seq(Chunk)
           /\ \A i \in DOMAIN Without(s, D) : \E j \in Kept(s, D) : Without(s, D)[i] = s[j]
           /\ \A j \in Kept(s, D) : \E i \in DOMAIN Without(s, D) : Without(s, D)[i] = s[j]
           /\ Len(Without(s, D)) \in 0 .. Len(s)
           /\ Len(Without(s, D)) = Len(s) => Kept(s, D) = DOMAIN s
<1> DEFINE kept == Kept(s, D)
           rank == [i \in kept |-> Cardinality({j \in kept : j <= i})]
<1>1. /\ Len(s) \in Nat /\ DOMAIN s = 1 .. Len(s)
      /\ \A i \in 1 .. Len(s) : s[i] \in Chunk
  BY LenProperties
<1>2. kept \in SUBSET (1 .. Len(s))
  BY <1>1 DEF Kept
<1>3. /\ IsFiniteSet(1 .. Len(s)) /\ Cardinality(1 .. Len(s)) = Len(s)
  <2>1. PICK n \in Nat : n = Len(s)
    BY <1>1
  <2>2. IsFiniteSet(1 .. n) /\ Cardinality(1 .. n) = IF 1 > n THEN 0 ELSE n - 1 + 1
    BY FS_Interval
  <2> QED BY <2>1, <2>2
<1>4. /\ IsFiniteSet(kept) /\ Cardinality(kept) <= Len(s)
      /\ Cardinality(kept) = Len(s) => kept = 1 .. Len(s)
  BY <1>2, <1>3, FS_Subset
<1>5. Cardinality(kept) \in Nat
  BY <1>4, FS_CardinalityType
<1> HIDE DEF kept
<1>6. \A i \in kept : rank[i] \in 1 .. Cardinality(kept)
  <2> SUFFICES ASSUME NEW i \in kept PROVE rank[i] \in 1 .. Cardinality(kept)
    OBVIOUS
  <2> DEFINE below == {j \in kept : j <= i}
  <2>1. below \in SUBSET kept /\ i \in below
    BY <1>2
  <2>2. IsFiniteSet(below) /\ Cardinality(below) <= Cardinality(kept)
    BY <2>1, <1>4, FS_Subset
  <2>3. Cardinality(below) \in Nat /\ Cardinality(below) # 0
    BY <2>1, <2>2, FS_CardinalityType, FS_EmptySet
  <2>4. rank[i] = Cardinality(below)
    OBVIOUS
  <2> QED BY <2>2, <2>3, <2>4, <1>5
<1>7. \A i, k \in kept : i < k => rank[i] < rank[k]
  <2> SUFFICES ASSUME NEW i \in kept, NEW k \in kept, i < k PROVE rank[i] < rank[k]
    OBVIOUS
  <2> DEFINE lower == {j \in kept : j <= i}
             upper == {j \in kept : j <= k}
  <2>1. lower \in SUBSET upper /\ k \in upper /\ k \notin lower
    <3>1. kept \subseteq Nat
      BY <1>1, <1>2
    <3>2. i \in Nat /\ k \in Nat
      BY <3>1
    <3>3. \A j \in kept : j <= i => j <= k
      BY <3>1, <3>2
    <3>4. k \in upper /\ k \notin lower
      BY <3>2
    <3> QED BY <3>3, <3>4
  <2>2. upper \in SUBSET kept
    OBVIOUS
  <2>3. IsFiniteSet(upper)
    BY <2>2, <1>4, FS_Subset
  <2>4. /\ IsFiniteSet(lower) /\ Cardinality(lower) <= Cardinality(upper)
        /\ Cardinality(upper) = Cardinality(lower) => upper = lower
    BY <2>1, <2>3, FS_Subset
  <2>5. Cardinality(lower) \in Nat /\ Cardinality(upper) \in Nat
    BY <2>3, <2>4, FS_CardinalityType
  <2>6. rank[i] = Cardinality(lower) /\ rank[k] = Cardinality(upper)
    OBVIOUS
  <2> HIDE DEF lower, upper
  <2> QED BY <2>1, <2>4, <2>5, <2>6
<1>8. rank \in Injection(kept, 1 .. Cardinality(kept))
  <2>1. rank \in [kept -> 1 .. Cardinality(kept)]
    BY <1>6
  <2> HIDE DEF rank
  <2>2. \A i, k \in kept : rank[i] = rank[k] => i = k
    <3> SUFFICES ASSUME NEW i \in kept, NEW k \in kept, i # k PROVE rank[i] # rank[k]
      OBVIOUS
    <3>1. i \in Nat /\ k \in Nat /\ rank[i] \in Nat /\ rank[k] \in Nat
      BY <1>2, <1>5, <2>1
    <3>2. i < k \/ k < i
      BY <3>1
    <3> QED BY <3>1, <3>2, <1>7
  <2> QED BY <2>1, <2>2 DEF Injection, IsInjective
<1>9. rank \in Surjection(kept, 1 .. Cardinality(kept))
  <2>1. IsFiniteSet(1 .. Cardinality(kept)) /\ Cardinality(1 .. Cardinality(kept)) = Cardinality(kept)
    BY <1>5, FS_Interval
  <2> HIDE DEF rank
  <2> QED BY <1>8, <2>1, FS_Injection
<1>10. \A n \in 1 .. Cardinality(kept) : \E i \in kept : rank[i] = n
  <2> HIDE DEF rank
  <2> QED BY <1>9 DEF Surjection
<1> DEFINE at == [n \in 1 .. Cardinality(kept) |->
                     CHOOSE i \in kept : Cardinality({j \in kept : j <= i}) = n]
<1>11. \A n \in 1 .. Cardinality(kept) : at[n] \in kept /\ rank[at[n]] = n
  <2> SUFFICES ASSUME NEW n \in 1 .. Cardinality(kept)
               PROVE  at[n] \in kept /\ rank[at[n]] = n
    OBVIOUS
  <2>1. \E i \in kept : Cardinality({j \in kept : j <= i}) = n
    BY <1>10
  <2>2. at[n] = CHOOSE i \in kept : Cardinality({j \in kept : j <= i}) = n
    OBVIOUS
  <2>3. at[n] \in kept /\ Cardinality({j \in kept : j <= at[n]}) = n
    <3> HIDE DEF at
    <3> QED BY <2>1, <2>2
  <2> QED BY <2>3
<1>12. Without(s, D) = [n \in 1 .. Cardinality(kept) |-> s[at[n]]]
  BY DEF Without, kept
<1> HIDE DEF at
<1>13. \A n \in 1 .. Cardinality(kept) : s[at[n]] \in Chunk
  BY <1>1, <1>2, <1>11
<1> DEFINE t == [n \in 1 .. Cardinality(kept) |-> s[at[n]]]
<1>14. t \in Seq(Chunk) /\ Len(t) = Cardinality(kept) /\ DOMAIN t = 1 .. Cardinality(kept)
  BY <1>5, <1>13
<1>15. \A i \in DOMAIN t : t[i] = s[at[i]] /\ at[i] \in kept
  BY <1>11, <1>14
<1>16. \A j \in kept : rank[j] \in DOMAIN t /\ t[rank[j]] = s[j]
  <2> SUFFICES ASSUME NEW j \in kept PROVE rank[j] \in DOMAIN t /\ t[rank[j]] = s[j]
    OBVIOUS
  <2>1. rank[j] \in 1 .. Cardinality(kept)
    BY <1>6
  <2>2. at[rank[j]] \in kept /\ rank[at[rank[j]]] = rank[j]
    BY <2>1, <1>11
  <2>3. at[rank[j]] = j
    <3> HIDE DEF rank
    <3> QED BY <2>2, <1>8 DEF Injection, IsInjective
  <2> HIDE DEF rank
  <2> QED BY <2>1, <2>3, <1>14
<1> HIDE DEF t, rank
<1>17. Without(s, D) = t
  BY <1>12 DEF t
<1> QED
  <2>1. \A i \in DOMAIN t : \E j \in kept : t[i] = s[j]
    BY <1>15
  <2>2. \A j \in kept : \E i \in DOMAIN t : t[i] = s[j]
    BY <1>16
  <2>3. Len(t) \in 0 .. Len(s) /\ (Len(t) = Len(s) => kept = DOMAIN s)
    BY <1>1, <1>4, <1>5, <1>14
  <2> QED BY <1>14, <1>17, <2>1, <2>2, <2>3 DEF kept

(* The chunks that stay are those of the other documents.                     *)
LEMMA OwnersWithout ==
    ASSUME NEW s \in Seq(Chunk), NEW D
    PROVE  Owners(Without(s, D)) = Owners(s) \ D
<1>1. DOMAIN s = 1 .. Len(s) /\ Kept(s, D) = {i \in DOMAIN s : s[i][2] \notin D}
  BY LenProperties DEF Kept
<1>2. PICK t \in Seq(Chunk) : t = Without(s, D)
  BY WithoutIs
<1>3. /\ \A i \in DOMAIN t : \E j \in Kept(s, D) : t[i] = s[j]
      /\ \A j \in Kept(s, D) : \E i \in DOMAIN t : t[i] = s[j]
  BY <1>2, WithoutIs
<1>4. Owners(t) = Owners(s) \ D
  BY <1>1, <1>3 DEF Owners
<1> QED BY <1>2, <1>4

(* What one more chunk, and a load from disk, make of the owners.             *)
LEMMA OwnersAppend ==
    ASSUME NEW s \in Seq(Chunk), NEW d \in DocId
    PROVE  /\ Append(s, <<d, d>>) \in Seq(Chunk)
           /\ Owners(Append(s, <<d, d>>)) = Owners(s) \cup {d}
<1>1. <<d, d>> \in Chunk
  BY DEF Chunk
<1>2. PICK c \in Chunk : c = <<d, d>> /\ c[2] = d
  BY <1>1
<1>3. PICK t \in Seq(Chunk) : t = Append(s, c)
  BY AppendProperties
<1>4. /\ Len(t) = Len(s) + 1 /\ Len(s) \in Nat
      /\ DOMAIN t = 1 .. Len(t) /\ DOMAIN s = 1 .. Len(s)
      /\ \A i \in 1 .. Len(s) : t[i] = s[i]
      /\ t[Len(s) + 1] = c
  BY <1>3, AppendProperties, LenProperties
<1>5. Owners(t) = Owners(s) \cup {d}
  <2>1. \A i \in DOMAIN t : i \in DOMAIN s \/ i = Len(s) + 1
    BY <1>4
  <2>2. DOMAIN s \subseteq DOMAIN t /\ Len(s) + 1 \in DOMAIN t
    BY <1>4
  <2> QED BY <1>2, <1>4, <2>1, <2>2 DEF Owners
<1> QED BY <1>2, <1>3, <1>5

(* What is loaded from two files of the same length, and otherwise nothing.  *)
LEMMA LoadIs ==
    ASSUME NEW d \in Disk
    PROVE  Load(d) \in Seq(Chunk)
<1>1. CASE Len(d.index) = Len(d.metadata)
  <2>1. d.index \in Seq(DocId) /\ d.metadata \in Seq(DocId)
    BY DEF Disk
  <2>2. /\ DOMAIN d.index = 1 .. Len(d.index) /\ DOMAIN d.metadata = 1 .. Len(d.index)
        /\ Len(d.index) \in Nat
        /\ \A i \in 1 .. Len(d.index) : d.index[i] \in DocId /\ d.metadata[i] \in DocId
    BY <2>1, <1>1, LenProperties
  <2>3. \A i \in 1 .. Len(d.index) : <<d.index[i], d.metadata[i]>> \in Chunk
    BY <2>2 DEF Chunk
  <2>4. Load(d) = [i \in 1 .. Len(d.index) |-> <<d.index[i], d.metadata[i]>>]
    BY <1>1, <2>2 DEF Load
  <2> QED BY <2>2, <2>3, <2>4
<1>2. CASE Len(d.index) # Len(d.metadata)
  BY <1>2 DEF Load
<1> QED BY <1>1, <1>2

(* The two lists a save writes.                                              *)
LEMMA VectorsIs ==
    ASSUME NEW s \in Seq(Chunk)
    PROVE  Vectors(s) \in Seq(DocId) /\ Metadata(s) \in Seq(DocId)
<1>1. /\ Len(s) \in Nat /\ DOMAIN s = 1 .. Len(s)
      /\ \A i \in 1 .. Len(s) : s[i][1] \in DocId /\ s[i][2] \in DocId
  BY LenProperties DEF Chunk
<1> QED BY <1>1 DEF Vectors, Metadata

-----------------------------------------------------------------------------
(* Plans *)

(* A row that exists names a file.                                            *)
GoodRow(r) == r.status # "none" => r.file \in File

(* What is ingested has an id and a file.                                     *)
GoodStep ==
    {s \in Step : /\ GoodRow(s.row)
                  /\ s.do \in {"ingest", "reingest"} => s.id \in DocId /\ s.row.file \in File}

(* A plan of such steps in which the first rename of a save is never the last *)
(* step: a save that fails at it skips the second.                            *)
Plan == {p \in Seq(GoodStep) : \A i \in DOMAIN p : p[i].do = "move_index" => i < Len(p)}

(* The first step of a plan and the rest of it.                              *)
LEMMA PlanTail ==
    ASSUME NEW p \in Plan, p # <<>>
    PROVE  /\ Head(p) \in GoodStep /\ Head(p) = p[1] /\ Tail(p) \in Plan
           /\ Head(p).do = "move_index" => Tail(p) # <<>>
<1>1. p \in Seq(GoodStep) /\ \A i \in DOMAIN p : p[i].do = "move_index" => i < Len(p)
  BY DEF Plan
<1>2. Len(p) \in Nat /\ DOMAIN p = 1 .. Len(p) /\ Len(p) # 0
  BY <1>1, LenProperties, EmptySeq
<1>3. Head(p) \in GoodStep /\ Head(p) = p[1]
  BY <1>1, <1>2
<1>4. PICK t \in Seq(GoodStep) : t = Tail(p)
  BY <1>1, HeadTailProperties
<1>5. Len(t) = Len(p) - 1 /\ \A i \in 1 .. Len(t) : t[i] = p[i + 1]
  BY <1>1, <1>4, HeadTailProperties
<1>6. DOMAIN t = 1 .. Len(t)
  BY LenProperties
<1>7. t \in Plan
  <2> SUFFICES ASSUME NEW i \in DOMAIN t, t[i].do = "move_index" PROVE i < Len(t)
    BY DEF Plan
  <2>1. i + 1 \in DOMAIN p /\ p[i + 1].do = "move_index" /\ i \in Nat
    BY <1>2, <1>5, <1>6
  <2>2. i + 1 < Len(p)
    BY <1>1, <2>1
  <2> QED BY <1>2, <1>5, <2>1, <2>2
<1>8. Head(p).do = "move_index" => t # <<>>
  <2> SUFFICES ASSUME Head(p).do = "move_index" PROVE Len(t) # 0
    BY EmptySeq
  <2>1. 1 < Len(p)
    BY <1>1, <1>2, <1>3
  <2> QED BY <1>2, <1>5, <2>1
<1> QED BY <1>3, <1>4, <1>7, <1>8

(* Plans are put together from plans.                                        *)
LEMMA PlanConcat ==
    ASSUME NEW a \in Plan, NEW b \in Plan
    PROVE  a \o b \in Plan
<1>1. /\ a \in Seq(GoodStep) /\ \A i \in DOMAIN a : a[i].do = "move_index" => i < Len(a)
      /\ b \in Seq(GoodStep) /\ \A i \in DOMAIN b : b[i].do = "move_index" => i < Len(b)
  BY DEF Plan
<1>2. PICK c \in Seq(GoodStep) : c = a \o b
  BY <1>1, ConcatProperties
<1>3. /\ Len(c) = Len(a) + Len(b)
      /\ \A i \in 1 .. Len(a) + Len(b) : c[i] = IF i <= Len(a) THEN a[i] ELSE b[i - Len(a)]
  BY <1>1, <1>2, ConcatProperties
<1>4. /\ Len(a) \in Nat /\ Len(b) \in Nat
      /\ DOMAIN a = 1 .. Len(a) /\ DOMAIN b = 1 .. Len(b) /\ DOMAIN c = 1 .. Len(c)
  BY <1>1, LenProperties
<1>5. ASSUME NEW i \in DOMAIN c, c[i].do = "move_index"
      PROVE  i < Len(c)
  <2>1. CASE i <= Len(a)
    <3>1. i \in DOMAIN a /\ a[i].do = "move_index"
      BY <1>3, <1>4, <1>5, <2>1
    <3> QED BY <1>1, <1>3, <1>4, <3>1
  <2>2. CASE ~(i <= Len(a))
    <3>1. i - Len(a) \in DOMAIN b /\ b[i - Len(a)].do = "move_index"
      BY <1>3, <1>4, <1>5, <2>2
    <3>2. i - Len(a) < Len(b) /\ i \in Nat
      BY <1>1, <1>3, <1>4, <3>1
    <3> QED BY <1>3, <1>4, <3>2
  <2> QED BY <2>1, <2>2
<1> QED BY <1>2, <1>5 DEF Plan

(* A full reindex that failed to register a document goes on after the       *)
(* save.                                                                     *)
LEMMA PlanSub ==
    ASSUME NEW p \in Plan
    PROVE  SubSeq(p, 5, Len(p)) \in Plan
<1>1. p \in Seq(GoodStep) /\ \A i \in DOMAIN p : p[i].do = "move_index" => i < Len(p)
  BY DEF Plan
<1>2. /\ Len(p) \in Nat /\ DOMAIN p = 1 .. Len(p)
      /\ \A i \in 1 .. Len(p) : p[i] \in GoodStep
  BY <1>1, LenProperties
<1>3. PICK n \in Nat : n = Len(p)
  BY <1>2
<1>4. \A i \in 5 .. n : p[i] \in GoodStep
  BY <1>2, <1>3
<1>5. PICK q \in Seq(GoodStep) : q = SubSeq(p, 5, n)
  <2>1. 5 \in Int /\ n \in Int
    OBVIOUS
  <2>2. SubSeq(p, 5, n) \in Seq(GoodStep)
    BY <1>4, <2>1, SubSeqProperties, Zenon
  <2> QED BY <2>2
<1>6. /\ Len(q) = IF 5 <= n THEN n - 5 + 1 ELSE 0
      /\ \A i \in 1 .. n - 5 + 1 : q[i] = p[5 + i - 1]
  BY <1>4, <1>5, SubSeqProperties
<1>7. ASSUME NEW i \in DOMAIN q, q[i].do = "move_index"
      PROVE  i < Len(q)
  <2>1. DOMAIN q = 1 .. Len(q) /\ i \in Nat
    BY LenProperties
  <2>2. i + 4 \in DOMAIN p /\ q[i] = p[i + 4]
    <3>1. i \in 1 .. n - 5 + 1 /\ 5 + i - 1 = i + 4 /\ i + 4 \in 1 .. n
      BY <1>6, <2>1
    <3>2. q[i] = p[5 + i - 1]
      BY <1>6, <3>1
    <3> QED BY <1>2, <1>3, <3>1, <3>2
  <2>3. i + 4 < n
    BY <1>1, <1>3, <1>7, <2>2
  <2> QED BY <1>6, <2>1, <2>3
<1> QED BY <1>3, <1>5, <1>7 DEF Plan

(* A step that is not the first rename of a save is a plan of its own.        *)
LEMMA PlanOne ==
    ASSUME NEW s \in GoodStep, s.do # "move_index"
    PROVE  <<s>> \in Plan
BY DEF Plan

(* Two such steps are a plan.                                                *)
LEMMA PlanTwo ==
    ASSUME NEW s \in GoodStep, s.do # "move_index", NEW t \in GoodStep, t.do # "move_index"
    PROVE  <<s, t>> \in Plan
BY DEF Plan

(* Nothing to do is a plan.                                                  *)
LEMMA PlanNone == <<>> \in Plan
BY DEF Plan

(* The row that is not there.                                                *)
LEMMA NoRowIs == NoRow \in Row /\ GoodRow(NoRow) /\ NoRow.status = "none"
BY DEF NoRow, Row, GoodRow

(* A step with nothing but its name.                                         *)
LEMMA DoIs ==
    ASSUME NEW e \in Effect
    PROVE  /\ Do(e) \in Step /\ Do(e).do = e /\ Do(e).docs = {} /\ Do(e).files = {}
           /\ Do(e).row = NoRow /\ Do(e).id = 0
           /\ e \notin {"ingest", "reingest"} => Do(e) \in GoodStep
<1>1. PICK r : r = NoRow
  OBVIOUS
<1>2. r \in Row /\ GoodRow(r)
  BY <1>1, NoRowIs
<1>3. Do(e) = [do |-> e, docs |-> {}, files |-> {}, row |-> r, id |-> 0, caught |-> FALSE]
  BY <1>1 DEF Do
<1>4. Do(e) \in Step
  BY <1>2, <1>3 DEF Step
<1>5. Do(e).do = e /\ Do(e).row = r /\ Do(e).docs = {} /\ Do(e).files = {} /\ Do(e).id = 0
  BY <1>3
<1> QED BY <1>1, <1>2, <1>4, <1>5 DEF GoodStep

(* A step about a set of documents.                                          *)
LEMMA DoForIs ==
    ASSUME NEW e \in Effect \ {"ingest", "reingest"}, NEW D \in SUBSET DocId
    PROVE  /\ DoFor(e, D) \in GoodStep
           /\ DoFor(e, D).do = e /\ DoFor(e, D).docs = D /\ DoFor(e, D).files = {}
           /\ DoFor(e, D).row = NoRow /\ DoFor(e, D).id = 0
<1>1. PICK x \in Step : x = Do(e)
  BY DoIs
<1>2. x.do = e /\ x.files = {} /\ x.row = NoRow /\ x.id = 0
  BY <1>1, DoIs
<1>3. PICK y \in Step : y = [x EXCEPT !.docs = D]
  BY DEF Step
<1>4. y.do = e /\ y.files = {} /\ y.docs = D /\ y.row = x.row /\ y.id = 0
  BY <1>2, <1>3 DEF Step
<1>5. PICK r : r = NoRow
  OBVIOUS
<1>6. y.row = r /\ GoodRow(r)
  BY <1>2, <1>4, <1>5, NoRowIs
<1>7. y \in GoodStep
  BY <1>4, <1>6 DEF GoodStep
<1>8. DoFor(e, D) = y
  BY <1>1, <1>3 DEF DoFor
<1> QED BY <1>4, <1>5, <1>6, <1>7, <1>8

(* A step about the row and the id of one document.                          *)
LEMMA OfDocIs ==
    ASSUME NEW e \in Effect, NEW r \in Row, NEW d \in DocId, GoodRow(r),
           e \in {"ingest", "reingest"} => r.file \in File
    PROVE  /\ OfDoc(e, r, d) \in GoodStep
           /\ OfDoc(e, r, d).do = e /\ OfDoc(e, r, d).row = r /\ OfDoc(e, r, d).id = d
           /\ OfDoc(e, r, d).docs = {}
<1>1. PICK x \in Step : x = Do(e)
  BY DoIs
<1>2. x.do = e /\ x.docs = {}
  BY <1>1, DoIs
<1>3. PICK y \in Step : y = [x EXCEPT !.row = r, !.id = d]
  BY DEF Step
<1>4. y.do = e /\ y.row = r /\ y.id = d /\ y.docs = {}
  BY <1>2, <1>3 DEF Step
<1>5. y \in GoodStep
  BY <1>4 DEF GoodStep
<1>6. OfDoc(e, r, d) = y
  BY <1>1, <1>3 DEF OfDoc
<1> QED BY <1>4, <1>5, <1>6

(* A save is three steps.                                                     *)
LEMMA SaveIs ==
    ASSUME NEW b \in BOOLEAN
    PROVE  /\ Save(b) \in Plan /\ Len(Save(b)) = 3
           /\ Save(b)[1].do = "write_tmp" /\ Save(b)[2].do = "move_index"
           /\ Save(b)[3].do = "move_metadata"
           /\ \A i \in 1 .. 3 : Save(b)[i].docs = {} /\ Save(b)[i].id = 0
<1> DEFINE step(e) == [do |-> e, docs |-> {}, files |-> {}, row |-> NoRow, id |-> 0, caught |-> b]
<1>1. \A e \in {"write_tmp", "move_index", "move_metadata"} :
         [Do(e) EXCEPT !.caught = b] = step(e)
  BY DEF Do
<1>2. PICK r : r = NoRow
  OBVIOUS
<1>3. r \in Row /\ GoodRow(r)
  BY <1>2, NoRowIs
<1>4. \A e \in {"write_tmp", "move_index", "move_metadata"} :
         /\ step(e) \in Step /\ step(e).row = r /\ step(e).do = e
         /\ step(e).docs = {} /\ step(e).id = 0
  BY <1>2, <1>3 DEF Step, Effect
<1>5. \A e \in {"write_tmp", "move_index", "move_metadata"} : step(e) \in GoodStep
  BY <1>3, <1>4 DEF GoodStep
<1>6. PICK x \in GoodStep, y \in GoodStep, z \in GoodStep :
         /\ x = step("write_tmp") /\ y = step("move_index") /\ z = step("move_metadata")
         /\ x.do = "write_tmp" /\ y.do = "move_index" /\ z.do = "move_metadata"
         /\ x.docs = {} /\ y.docs = {} /\ z.docs = {} /\ x.id = 0 /\ y.id = 0 /\ z.id = 0
  BY <1>4, <1>5
<1>7. Save(b) = <<x, y, z>>
  <2>1. Save(b) = [i \in 1 .. 3 |->
                      [Do(<<"write_tmp", "move_index", "move_metadata">>[i]) EXCEPT !.caught = b]]
    BY DEF Save
  <2>2. \A i \in 1 .. 3 :
           [Do(<<"write_tmp", "move_index", "move_metadata">>[i]) EXCEPT !.caught = b]
           = <<x, y, z>>[i]
    <3> SUFFICES ASSUME NEW i \in 1 .. 3
                 PROVE  [Do(<<"write_tmp", "move_index", "move_metadata">>[i]) EXCEPT !.caught = b]
                        = <<x, y, z>>[i]
      OBVIOUS
    <3>1. i = 1 \/ i = 2 \/ i = 3
      OBVIOUS
    <3> HIDE DEF step
    <3> QED BY <3>1, <1>1, <1>6
  <2> QED BY <2>1, <2>2
<1>8. <<x, y, z>> \in Plan /\ Len(<<x, y, z>>) = 3
  <2> HIDE DEF step
  <2> QED BY <1>6 DEF Plan
<1>9. \A i \in 1 .. 3 : <<x, y, z>>[i].docs = {} /\ <<x, y, z>>[i].id = 0
  BY <1>6
<1> QED BY <1>6, <1>7, <1>8, <1>9

-----------------------------------------------------------------------------
(* Types *)

TInv ==
    /\ TypeOK
    /\ \A d \in DocId : GoodRow(rows[d])
    /\ plan \in [Worker -> Plan]

(* TInv holds when the program starts.                                       *)
LEMMA TInvInit == Init => TInv
<1> SUFFICES ASSUME Init PROVE TInv
  OBVIOUS
<1>1. rows \in [DocId -> Row] /\ \A d \in DocId : GoodRow(rows[d])
  BY NoRowIs DEF Init
<1>2. files \in [File -> Content \cup {None}]
  BY DEF Init
<1>3. disk \in Disk
  BY DEF Init, Disk
<1>4. store \in [Worker -> Seq(Chunk)] /\ keyword \in [Worker -> SUBSET DocId]
  BY DEF Init
<1>5. plan \in [Worker -> Plan]
  BY PlanNone DEF Init
<1>6. plan \in [Worker -> Seq(Step)]
  BY DEF Init
<1>7. writer \in Worker \cup {None} /\ issued \in 0 .. MaxDocs /\ crashes \in Nat /\ failures \in Nat
  BY MaxDocsAssumption DEF Init
<1> QED BY <1>1, <1>2, <1>3, <1>4, <1>5, <1>6, <1>7 DEF TInv, TypeOK

(* A plan of good steps is a plan of steps.                                   *)
LEMMA PlansAreSteps ==
    ASSUME NEW p \in Plan
    PROVE  p \in Seq(Step)
BY SeqMonotonic DEF Plan, GoodStep

(* What a busy worker does next, and what it has left.                       *)
LEMMA NextStep ==
    ASSUME plan \in [Worker -> Plan], NEW w \in Worker, ~Idle(w)
    PROVE  /\ Next1(w) \in GoodStep /\ Next1(w) = plan[w][1]
           /\ Rest(w) \in Plan
           /\ Next1(w).do = "move_index" => Rest(w) # <<>>
BY PlanTail DEF Next1, Rest, Idle

(* What a failed ingestion leaves of a plan.                                 *)
LEMMA AfterFailureIs ==
    ASSUME NEW p \in Plan
    PROVE  AfterFailure(p) \in Plan
BY PlanNone DEF AfterFailure

(* A worker goes on with another plan.                                       *)
LEMMA Continues ==
    ASSUME plan \in [Worker -> Plan], NEW w \in Worker, NEW p \in Plan, Continue(w, p)
    PROVE  plan' \in [Worker -> Plan] /\ plan'[w] = p
BY DEF Continue

(* A request given up leaves its worker idle, and the lock to the others.     *)
LEMMA Aborts ==
    ASSUME plan \in [Worker -> Plan], writer \in Worker \cup {None}, NEW w \in Worker, Abort(w)
    PROVE  plan' \in [Worker -> Plan] /\ writer' \in Worker \cup {None}
BY PlanNone, Continues DEF Abort

(* What is left to show of a step that leaves most variables alone.           *)
LEMMA TInvFrom ==
    ASSUME TInv,
           rows' \in [DocId -> Row], \A d \in DocId : GoodRow(rows'[d]),
           files' \in [File -> Content \cup {None}],
           disk' \in Disk,
           store' \in [Worker -> Seq(Chunk)], keyword' \in [Worker -> SUBSET DocId],
           plan' \in [Worker -> Plan], writer' \in Worker \cup {None},
           issued' \in 0 .. MaxDocs, crashes' \in Nat, failures' \in Nat
    PROVE  TInv'
<1>1. plan' \in [Worker -> Seq(Step)]
  BY PlansAreSteps
<1> QED BY <1>1 DEF TInv, TypeOK

(* _remove_document_chunks, on the indexes.                                  *)
LEMMA ChunkForgotten ==
    ASSUME TInv, NEW w \in Worker, ForgetChunks(w)
    PROVE  TInv'
<1> USE DEF TInv, TypeOK
<1>1. ~Idle(w)
  BY DEF ForgetChunks, Doing
<1>2. Next1(w) \in GoodStep /\ Rest(w) \in Plan
  BY <1>1, NextStep
<1>3. PICK D \in SUBSET DocId, s \in Seq(Chunk), r \in Plan :
         D = Next1(w).docs /\ s = store[w] /\ r = Rest(w)
  BY <1>2 DEF GoodStep, Step
<1>4. PICK kept \in Seq(Chunk) : kept = Without(s, D)
  BY WithoutIs
<1>5. Owners(kept) \subseteq DocId
  <2>1. DOMAIN kept = 1 .. Len(kept) /\ \A i \in 1 .. Len(kept) : kept[i] \in Chunk
    BY LenProperties
  <2> QED BY <2>1 DEF Owners, Chunk
<1>6. IF Len(kept) < Len(s)
      THEN /\ store' = [store EXCEPT ![w] = kept]
           /\ keyword' = [keyword EXCEPT ![w] = Owners(kept)]
           /\ Continue(w, Save(FALSE) \o r)
      ELSE Continue(w, r) /\ UNCHANGED <<store, keyword>>
  BY <1>3, <1>4 DEF ForgetChunks
<1>7. store' \in [Worker -> Seq(Chunk)] /\ keyword' \in [Worker -> SUBSET DocId]
  BY <1>5, <1>6
<1>8. plan' \in [Worker -> Plan]
  <2>1. Save(FALSE) \o r \in Plan
    BY PlanConcat, SaveIs
  <2> QED BY <1>6, <2>1, Continues
<1>9. UNCHANGED <<rows, files, disk, writer, issued, crashes, failures>>
  BY DEF ForgetChunks
<1> QED BY <1>7, <1>8, <1>9, TInvFrom

(* The steps of a save.                                                       *)
LEMMA SaveStepTyped ==
    ASSUME TInv, NEW w \in Worker, WriteTmp(w) \/ MoveIndex(w) \/ MoveMetadata(w) \/ SaveFails(w)
    PROVE  TInv'
<1> USE DEF TInv, TypeOK
<1>1. ~Idle(w)
  BY DEF WriteTmp, MoveIndex, MoveMetadata, SaveFails, Doing
<1>2. /\ Next1(w) \in GoodStep /\ Rest(w) \in Plan
      /\ Next1(w).do = "move_index" => Rest(w) # <<>>
  BY <1>1, NextStep
<1>3. UNCHANGED <<rows, files, store, keyword, issued, crashes, failures>>
  BY DEF WriteTmp, MoveIndex, MoveMetadata, SaveFails
<1>4. disk' \in Disk
  <2>1. CASE WriteTmp(w)
    <3>1. Vectors(store[w]) \in Seq(DocId) /\ Metadata(store[w]) \in Seq(DocId)
      BY VectorsIs
    <3> QED BY <2>1, <3>1 DEF WriteTmp, Disk
  <2>2. CASE MoveIndex(w)
    BY <2>2 DEF MoveIndex, Disk
  <2>3. CASE MoveMetadata(w)
    BY <2>3 DEF MoveMetadata, Disk
  <2>4. CASE SaveFails(w)
    BY <2>4 DEF SaveFails, Disk
  <2> QED BY <2>1, <2>2, <2>3, <2>4
<1>5. plan' \in [Worker -> Plan] /\ writer' \in Worker \cup {None}
  <2>1. CASE WriteTmp(w) \/ MoveIndex(w) \/ MoveMetadata(w)
    BY <1>2, <2>1, Continues DEF WriteTmp, MoveIndex, MoveMetadata
  <2>2. CASE SaveFails(w)
    <3>1. CASE Next1(w).caught
      <4>1. Continue(w, IF Doing(w, "move_index") THEN Tail(Rest(w)) ELSE Rest(w)) /\ UNCHANGED writer
        BY <2>2, <3>1 DEF SaveFails
      <4>2. (IF Doing(w, "move_index") THEN Tail(Rest(w)) ELSE Rest(w)) \in Plan
        BY <1>2, PlanTail DEF Doing
      <4> QED BY <4>1, <4>2, Continues
    <3>2. CASE ~Next1(w).caught
      BY <2>2, <3>2, Aborts DEF SaveFails
    <3> QED BY <3>1, <3>2
  <2> QED BY <2>1, <2>2
<1> QED BY <1>3, <1>4, <1>5, TInvFrom

(* The steps that write table documents.                                      *)
LEMMA RowStepTyped ==
    ASSUME TInv, NEW w \in Worker,
           DeleteRows(w) \/ Register(w) \/ SetStatus(w) \/ DropOldRow(w) \/ CommitApproval(w)
    PROVE  TInv'
<1> USE DEF TInv, TypeOK
<1>1. ~Idle(w)
  BY DEF DeleteRows, Register, SetStatus, DropOldRow, CommitApproval, Doing
<1>2. PICK s \in GoodStep, r \in Plan : s = Next1(w) /\ r = Rest(w)
  BY <1>1, NextStep
<1>3. s \in Step /\ GoodRow(s.row)
  BY DEF GoodStep
<1>4. UNCHANGED <<files, disk, store, keyword, issued, crashes, failures>>
  BY DEF DeleteRows, Register, SetStatus, DropOldRow, CommitApproval
<1>5. writer' \in Worker \cup {None}
  BY DEF DeleteRows, Register, SetStatus, DropOldRow, CommitApproval
<1>6. rows' \in [DocId -> Row] /\ \A d \in DocId : GoodRow(rows'[d])
  <2>1. CASE DeleteRows(w) \/ DropOldRow(w)
    <3>1. \E D : rows' = [d \in DocId |-> IF d \in D THEN NoRow ELSE rows[d]]
      BY <2>1 DEF DeleteRows, DropOldRow
    <3> QED BY <3>1, NoRowIs
  <2>2. CASE Register(w)
    <3>1. rows' = [rows EXCEPT ![s.id] = s.row]
      BY <1>2, <2>2 DEF Register
    <3>2. s.row \in Row
      BY <1>3 DEF Step
    <3> QED BY <1>3, <3>1, <3>2
  <2>3. CASE SetStatus(w)
    <3>1. rows' = [rows EXCEPT ![s.id] = s.row] \/ rows' = rows
      BY <1>2, <2>3 DEF SetStatus
    <3>2. s.row \in Row
      BY <1>3 DEF Step
    <3> QED BY <1>3, <3>1, <3>2
  <2>4. CASE CommitApproval(w)
    <3>1. PICK D : /\ D \subseteq Documents
                   /\ rows' = [d \in DocId |->
                                 IF d \in D THEN [rows[d] EXCEPT !.status = "approved", !.signed = TRUE]
                                            ELSE rows[d]]
      BY <2>4 DEF CommitApproval
    <3>2. ASSUME NEW d \in DocId
          PROVE  rows'[d] \in Row /\ GoodRow(rows'[d])
      <4>1. CASE d \notin D
        BY <3>1, <4>1
      <4>2. CASE d \in D
        <5>1. PICK x \in Row : x = rows[d]
          OBVIOUS
        <5>2. x.file \in File
          BY <3>1, <4>2, <5>1 DEF Documents, Exists, GoodRow
        <5>3. PICK y \in Row : y = [x EXCEPT !.status = "approved", !.signed = TRUE]
          BY DEF Row
        <5>4. y.file = x.file
          BY <5>3 DEF Row
        <5>5. rows'[d] = y
          BY <3>1, <4>2, <5>1, <5>3
        <5> QED BY <5>2, <5>4, <5>5 DEF GoodRow
      <4> QED BY <4>1, <4>2
    <3>3. \E g : rows' = [d \in DocId |-> g[d]]
      <4>1. DOMAIN rows' = DocId /\ rows' = [d \in DOMAIN rows' |-> rows'[d]]
        BY <3>1
      <4> QED BY <4>1
    <3> QED BY <3>2, <3>3
  <2> QED BY <2>1, <2>2, <2>3, <2>4
<1>7. plan' \in [Worker -> Plan]
  <2>1. CASE Register(w) \/ SetStatus(w) \/ DropOldRow(w) \/ CommitApproval(w)
    BY <1>2, <2>1, Continues DEF Register, SetStatus, DropOldRow, CommitApproval
  <2>2. CASE DeleteRows(w)
    <3> DEFINE named == {rows[d].file : d \in s.docs \cap Documents}
    <3>1. named \subseteq File
      BY DEF Documents, Exists, GoodRow
    <3>2. PICK x \in Step : x = Do("unlink") /\ x.do = "unlink" /\ x.row = NoRow
      BY DoIs DEF Effect
    <3>3. PICK F \in SUBSET File : F = s.files \cup named
      BY <1>3, <3>1 DEF Step
    <3>4. PICK y \in Step : y = [x EXCEPT !.files = F]
      BY DEF Step
    <3>5. y.do = "unlink" /\ y.row = x.row
      BY <3>2, <3>4 DEF Step
    <3>6. PICK nr : nr = NoRow
      OBVIOUS
    <3>7. y.row = nr /\ GoodRow(nr)
      BY <3>2, <3>5, <3>6, NoRowIs
    <3>8. y \in GoodStep
      BY <3>5, <3>7 DEF GoodStep
    <3>9. <<y>> \o r \in Plan
      BY <3>5, <3>8, PlanOne, PlanConcat
    <3>10. Continue(w, <<y>> \o r)
      BY <1>2, <2>2, <3>2, <3>3, <3>4 DEF DeleteRows
    <3> QED BY <3>9, <3>10, Continues
  <2> QED BY <2>1, <2>2
<1> QED BY <1>4, <1>5, <1>6, <1>7, TInvFrom

(* An ingestion, which writes a file and adds a chunk, or fails.              *)
LEMMA IngestTyped ==
    ASSUME TInv, NEW w \in Worker, Unlink(w) \/ IngestChunks(w) \/ IngestFails(w)
    PROVE  TInv'
<1> USE DEF TInv, TypeOK
<1>1. ~Idle(w)
  BY DEF Unlink, IngestChunks, IngestFails, Doing
<1>2. PICK s \in GoodStep, r \in Plan : s = Next1(w) /\ r = Rest(w)
  BY <1>1, NextStep
<1>3. s \in Step /\ GoodRow(s.row) /\ s.row \in Row
  BY DEF GoodStep, Step
<1>4. UNCHANGED <<rows, disk, writer, issued, crashes>>
  BY DEF Unlink, IngestChunks, IngestFails
<1>5. s.do = "ingest" => s.id \in DocId /\ s.row.file \in File
  BY DEF GoodStep
<1>6. failures' \in Nat
  <2>1. failures' = failures \/ failures' = failures + 1
    BY DEF Unlink, IngestChunks, IngestFails
  <2>2. failures \in Nat
    OBVIOUS
  <2> QED BY <2>1, <2>2
<1>7. files' \in [File -> Content \cup {None}]
  <2>1. CASE Unlink(w)
    BY <2>1 DEF Unlink
  <2>2. CASE ~Unlink(w)
    <3>1. files' = [files EXCEPT ![s.row.file] = s.row.content] \/ files' = files
      BY <1>2, <2>2 DEF IngestChunks, IngestFails
    <3>2. s.row.content \in Content \cup {None}
      BY <1>3 DEF Row
    <3> QED BY <3>1, <3>2
  <2> QED BY <2>1, <2>2
<1>8. CASE IngestChunks(w)
  <2>1. s.do = "ingest"
    BY <1>2, <1>8 DEF IngestChunks, Doing
  <2>2. PICK d \in DocId, x \in Row : d = s.id /\ x = s.row
    BY <1>3, <1>5, <2>1
  <2>3. /\ store' = [store EXCEPT ![w] = Append(store[w], <<d, d>>)]
        /\ keyword' = [keyword EXCEPT ![w] = keyword[w] \cup {d}]
        /\ Continue(w, <<OfDoc("register", x, d)>> \o Save(TRUE) \o r)
        /\ failures' = failures
    BY <1>2, <1>8, <2>2 DEF IngestChunks
  <2>4. Append(store[w], <<d, d>>) \in Seq(Chunk)
    BY OwnersAppend
  <2>5. store' \in [Worker -> Seq(Chunk)] /\ keyword' \in [Worker -> SUBSET DocId]
    BY <2>3, <2>4
  <2>6. OfDoc("register", x, d) \in GoodStep /\ OfDoc("register", x, d).do = "register"
    BY <1>3, <2>2, OfDocIs DEF Effect
  <2>7. PICK a \in Plan : a = <<OfDoc("register", x, d)>>
    BY <2>6, PlanOne
  <2>8. PICK b \in Plan : b = Save(TRUE)
    BY SaveIs
  <2>9. (a \o b) \o r \in Plan
    BY PlanConcat
  <2>10. plan' \in [Worker -> Plan]
    BY <2>3, <2>7, <2>8, <2>9, Continues
  <2> QED BY <1>4, <1>6, <1>7, <2>5, <2>10, TInvFrom
<1>9. CASE ~IngestChunks(w)
  <2>1. UNCHANGED <<store, keyword>>
    BY <1>9 DEF Unlink, IngestFails
  <2>2. plan' \in [Worker -> Plan]
    BY <1>2, <1>9, AfterFailureIs, Continues DEF Unlink, IngestFails
  <2> QED BY <1>4, <1>6, <1>7, <2>1, <2>2, TInvFrom
<1> QED BY <1>8, <1>9

(* One document of a reindex.                                                *)
LEMMA ReingestTyped ==
    ASSUME TInv, NEW w \in Worker, Reingest(w)
    PROVE  TInv'
<1> USE DEF TInv, TypeOK
<1>1. ~Idle(w)
  BY DEF Reingest, Doing
<1>2. PICK s \in GoodStep, r \in Plan : s = Next1(w) /\ r = Rest(w)
  BY <1>1, NextStep
<1>3. s \in Step /\ s.do = "reingest"
  BY <1>2 DEF GoodStep, Reingest, Doing
<1>4. PICK d \in DocId, x \in Row, f \in File, D \in SUBSET DocId :
        d = s.id /\ x = s.row /\ f = x.file /\ D = s.docs
  BY <1>3 DEF GoodStep, Step
<1>5. PICK c \in Content \cup {None} : c = files[f]
  OBVIOUS
<1>6. Continue(w, (IF c = None THEN <<>>
                   ELSE << OfDoc("ingest", [x EXCEPT !.content = c, !.status = "approved",
                                                     !.signed = FALSE], d),
                           DoFor("drop_old", D) >>) \o r)
  BY <1>2, <1>4, <1>5 DEF Reingest
<1>7. CASE c = None
  <2>1. PICK none \in Plan : none = <<>>
    BY PlanNone
  <2>2. none \o r \in Plan
    BY PlanConcat
  <2>3. plan' \in [Worker -> Plan]
    BY <1>6, <1>7, <2>1, <2>2, Continues
  <2> QED BY <2>3, TInvFrom DEF Reingest
<1>8. CASE c # None
  <2>1. PICK y \in Row : y = [x EXCEPT !.content = c, !.status = "approved", !.signed = FALSE]
    BY DEF Row
  <2>2. y.file \in File
    BY <1>4, <2>1 DEF Row
  <2>3. /\ OfDoc("ingest", y, d) \in GoodStep /\ OfDoc("ingest", y, d).do = "ingest"
        /\ DoFor("drop_old", D) \in GoodStep /\ DoFor("drop_old", D).do = "drop_old"
    BY <2>2, OfDocIs, DoForIs DEF Effect, GoodRow
  <2>4. PICK a \in Plan : a = << OfDoc("ingest", y, d), DoFor("drop_old", D) >>
    BY <2>3, PlanTwo
  <2>5. a \o r \in Plan
    BY PlanConcat
  <2>6. plan' \in [Worker -> Plan]
    BY <1>6, <1>8, <2>1, <2>4, <2>5, Continues
  <2> QED BY <2>6, TInvFrom DEF Reingest
<1> QED BY <1>7, <1>8

(* The keyword index after a full reindex.                                   *)
LEMMA RebuildTyped ==
    ASSUME TInv, NEW w \in Worker, RebuildKeyword(w)
    PROVE  TInv'
<1> USE DEF TInv, TypeOK
<1>1. ~Idle(w)
  BY DEF RebuildKeyword, Doing
<1>2. PICK r \in Plan : r = Rest(w)
  BY <1>1, NextStep
<1>3. Owners(store[w]) \subseteq DocId
  <2>1. PICK s \in Seq(Chunk) : s = store[w]
    OBVIOUS
  <2>2. DOMAIN s = 1 .. Len(s) /\ \A i \in 1 .. Len(s) : s[i] \in Chunk
    BY LenProperties
  <2> QED BY <2>1, <2>2 DEF Owners, Chunk
<1>4. keyword' \in [Worker -> SUBSET DocId]
  BY <1>3 DEF RebuildKeyword
<1>5. Save(FALSE) \o r \in Plan
  BY PlanConcat, SaveIs
<1>6. plan' \in [Worker -> Plan]
  BY <1>2, <1>5, Continues DEF RebuildKeyword
<1> QED BY <1>4, <1>6, TInvFrom DEF RebuildKeyword

(* The steps about the write lock.                                            *)
LEMMA LockStepTyped ==
    ASSUME TInv, NEW w \in Worker, OpenDecision(w) \/ DatabaseLocked(w)
    PROVE  TInv'
<1> USE DEF TInv, TypeOK
<1>1. ~Idle(w)
  BY DEF OpenDecision, DatabaseLocked, Doing
<1>2. PICK r \in Plan : r = Rest(w)
  BY <1>1, NextStep
<1>3. PICK p \in Plan : p = plan[w]
  OBVIOUS
<1>4. plan' \in [Worker -> Plan] /\ writer' \in Worker \cup {None}
  <2>1. CASE OpenDecision(w)
    BY <1>2, <2>1, Continues DEF OpenDecision
  <2>2. CASE DatabaseLocked(w)
    <3>1. CASE Doing(w, "register")
      <4>1. Continue(w, AfterFailure(SubSeq(p, 5, Len(p)))) /\ UNCHANGED writer
        BY <1>3, <2>2, <3>1 DEF DatabaseLocked, Doing
      <4>2. AfterFailure(SubSeq(p, 5, Len(p))) \in Plan
        BY PlanSub, AfterFailureIs
      <4> QED BY <4>1, <4>2, Continues
    <3>2. CASE Doing(w, "drop_old")
      BY <1>2, <2>2, <3>2, Continues DEF DatabaseLocked, Doing
    <3>3. CASE ~Doing(w, "register") /\ ~Doing(w, "drop_old")
      BY <2>2, <3>3, Aborts DEF DatabaseLocked
    <3> QED BY <3>1, <3>2, <3>3
  <2> QED BY <2>1, <2>2
<1> QED BY <1>4, TInvFrom DEF OpenDecision, DatabaseLocked

(* Starting, a worker has what it loads.                                      *)
LEMMA StartTyped ==
    ASSUME TInv, NEW w \in Worker, Start(w), crashes' \in Nat
    PROVE  TInv'
<1> USE DEF TInv, TypeOK
<1>1. PICK s \in Seq(Chunk) : s = Load(disk)
  BY LoadIs
<1>2. Owners(s) \subseteq DocId
  <2>1. DOMAIN s = 1 .. Len(s) /\ \A i \in 1 .. Len(s) : s[i] \in Chunk
    BY LenProperties
  <2> QED BY <2>1 DEF Owners, Chunk
<1>3. store' \in [Worker -> Seq(Chunk)] /\ keyword' \in [Worker -> SUBSET DocId]
  BY <1>1, <1>2 DEF Start
<1>4. plan' \in [Worker -> Plan] /\ writer' \in Worker \cup {None}
  BY Aborts DEF Start
<1> QED BY <1>3, <1>4, TInvFrom DEF Start

(* The plan of a removal.                                                    *)
LEMMA RemovalIs ==
    ASSUME NEW d \in DocId
    PROVE  Removal(d) \in Plan
<1>1. /\ DoFor("forget", {d}) \in GoodStep /\ DoFor("forget", {d}).do = "forget"
      /\ DoFor("delete", {d}) \in GoodStep /\ DoFor("delete", {d}).do = "delete"
  BY DoForIs DEF Effect
<1> QED BY <1>1, PlanTwo DEF Removal

(* There are finitely many documents to order for a full reindex.            *)
LEMMA DocumentsAreFew ==
    IsFiniteSet(Documents) /\ Cardinality(Documents) \in Nat /\ Documents \subseteq DocId
<1>1. Documents \in SUBSET DocId
  BY DEF Documents
<1>2. IsFiniteSet(DocId)
  BY MaxDocsAssumption, FS_Interval DEF DocId
<1>3. IsFiniteSet(Documents)
  BY <1>1, <1>2, FS_Subset
<1> QED BY <1>1, <1>3, FS_CardinalityType

(* The upload.                                                               *)
LEMMA UploadTyped ==
    ASSUME TInv, NEW w \in Worker, NEW f \in File, NEW c \in Content, NEW role \in Uploader,
           Upload(w, f, c, role)
    PROVE  TInv'
<1> USE DEF TInv, TypeOK
<1> DEFINE team    == role = "hr_team"
           same    == {d \in Documents : rows[d].content = c}
           named   == {d \in Documents : rows[d].file = f}
<1>1. PICK new \in Row : new = [file |-> f, content |-> c, status |-> "approved", team |-> team,
                                signed |-> FALSE]
  <2>1. PICK b \in BOOLEAN : b = team
    OBVIOUS
  <2> HIDE DEF team
  <2>2. [file |-> f, content |-> c, status |-> "approved", team |-> b, signed |-> FALSE] \in Row
    BY DEF Row
  <2> QED BY <2>1, <2>2
<1>2. PICK decided \in Row :
         decided = [new EXCEPT !.status = IF team THEN "pending" ELSE "approved", !.signed = ~team]
  BY DEF Row
<1>3. new.file \in File /\ decided.file \in File
  <2>1. new.file = f
    BY <1>1
  <2>2. decided.file = new.file
    BY <1>2 DEF Row
  <2> QED BY <2>1, <2>2
<1>4. PICK n \in DocId : n = issued + 1
  BY MaxDocsAssumption DEF Upload, DocId
<1>5. PICK old \in IF same # {} THEN same ELSE IF named # {} THEN named ELSE {0} :
         Starts(w, (IF old = 0 THEN <<>> ELSE Removal(old))
                   \o << OfDoc("ingest", new, n), OfDoc("set_status", decided, n) >>)
  BY <1>1, <1>2, <1>4 DEF Upload
<1>6. old = 0 \/ old \in DocId
  BY <1>5, DocumentsAreFew
<1>7. PICK a \in Plan : a = IF old = 0 THEN <<>> ELSE Removal(old)
  BY <1>6, RemovalIs, PlanNone
<1>8. /\ OfDoc("ingest", new, n) \in GoodStep /\ OfDoc("ingest", new, n).do = "ingest"
      /\ OfDoc("set_status", decided, n) \in GoodStep
      /\ OfDoc("set_status", decided, n).do = "set_status"
  BY <1>3, OfDocIs DEF Effect, GoodRow
<1>9. PICK b \in Plan : b = << OfDoc("ingest", new, n), OfDoc("set_status", decided, n) >>
  BY <1>8, PlanTwo
<1>10. a \o b \in Plan
  BY PlanConcat
<1>11. plan' \in [Worker -> Plan]
  BY <1>5, <1>7, <1>9, <1>10 DEF Starts
<1>12. issued' \in 0 .. MaxDocs
  BY <1>4 DEF Upload, DocId
<1> QED BY <1>11, <1>12, TInvFrom DEF Upload

(* Decisions, deletions and the cleanup: two or three steps about a set of    *)
(* documents.                                                                 *)
LEMMA RemovalTyped ==
    ASSUME TInv, NEW w \in Worker,
           \/ \E d \in DocId : Approve(w, d) \/ Reject(w, d) \/ DeleteDocument(w, d)
           \/ \E D \in SUBSET (1 .. issued) : BatchDelete(w, D) \/ CleanupVectorStore(w, D)
    PROVE  TInv'
<1> USE DEF TInv, TypeOK
<1>1. UNCHANGED <<rows, files, disk, store, keyword, writer, issued, crashes, failures>>
  BY DEF Approve, Reject, DeleteDocument, BatchDelete, CleanupVectorStore
<1>2. 1 .. issued \subseteq DocId
  BY MaxDocsAssumption DEF DocId
<1>3. ASSUME NEW d \in DocId, Approve(w, d)
      PROVE  plan' \in [Worker -> Plan]
  <2>1. /\ DoFor("open_approval", {d}) \in GoodStep
        /\ DoFor("open_approval", {d}).do = "open_approval"
        /\ DoFor("commit_approval", {d}) \in GoodStep
        /\ DoFor("commit_approval", {d}).do = "commit_approval"
    BY DoForIs DEF Effect
  <2>2. << DoFor("open_approval", {d}), DoFor("commit_approval", {d}) >> \in Plan
    BY <2>1, PlanTwo
  <2> QED BY <1>3, <2>2 DEF Approve, Starts
<1>4. ASSUME NEW d \in DocId, Reject(w, d)
      PROVE  plan' \in [Worker -> Plan]
  <2>1. /\ DoFor("open_rejection", {d}) \in GoodStep
        /\ DoFor("open_rejection", {d}).do = "open_rejection"
    BY DoForIs DEF Effect
  <2>2. <<DoFor("open_rejection", {d})>> \o Removal(d) \in Plan
    BY <2>1, PlanOne, PlanConcat, RemovalIs
  <2> QED BY <1>4, <2>2 DEF Reject, Starts
<1>5. ASSUME NEW d \in DocId, DeleteDocument(w, d)
      PROVE  plan' \in [Worker -> Plan]
  BY <1>5, RemovalIs DEF DeleteDocument, Starts
<1>6. ASSUME NEW D \in SUBSET (1 .. issued), BatchDelete(w, D)
      PROVE  plan' \in [Worker -> Plan]
  <2> DEFINE found == D \cap Documents
             named == {rows[d].file : d \in found}
  <2>1. D \in SUBSET DocId /\ found \in SUBSET DocId /\ named \in SUBSET File
    BY <1>2 DEF Documents, Exists, GoodRow
  <2>2. DoFor("forget", D) \in GoodStep /\ DoFor("forget", D).do = "forget"
    BY <2>1, DoForIs DEF Effect
  <2>3. PICK x \in GoodStep : x = DoFor("delete", found) /\ x.do = "delete" /\ x.row = NoRow
    BY <2>1, DoForIs DEF Effect
  <2>4. PICK F \in SUBSET File : F = named
    BY <2>1
  <2>5. PICK y \in Step : y = [x EXCEPT !.files = F] /\ y.do = "delete" /\ y.row = x.row
    <3>1. PICK z \in Step : z = x /\ z.do = "delete"
      BY <2>3 DEF GoodStep
    <3>2. PICK y \in Step : y = [z EXCEPT !.files = F]
      BY DEF Step
    <3>3. y.do = "delete" /\ y.row = z.row
      BY <3>1, <3>2 DEF Step
    <3> QED BY <3>1, <3>2, <3>3
  <2>6. y \in GoodStep
    <3>1. PICK nr : nr = NoRow
      OBVIOUS
    <3> QED BY <2>3, <2>5, <3>1, NoRowIs DEF GoodStep
  <2>7. << DoFor("forget", D), y >> \in Plan
    BY <2>2, <2>5, <2>6, PlanTwo
  <2>8. Starts(w, << DoFor("forget", D), y >>)
    BY <1>6, <2>3, <2>4, <2>5 DEF BatchDelete
  <2> QED BY <2>7, <2>8 DEF Starts
<1>7. ASSUME NEW D \in SUBSET (1 .. issued), CleanupVectorStore(w, D)
      PROVE  plan' \in [Worker -> Plan]
  <2>1. D \in SUBSET DocId
    BY <1>2
  <2>2. /\ DoFor("forget", D) \in GoodStep /\ DoFor("forget", D).do = "forget"
        /\ DoFor("drop_old", D) \in GoodStep /\ DoFor("drop_old", D).do = "drop_old"
    BY <2>1, DoForIs DEF Effect
  <2>3. << DoFor("forget", D), DoFor("drop_old", D) >> \in Plan
    BY <2>2, PlanTwo
  <2> QED BY <1>7, <2>3 DEF CleanupVectorStore, Starts
<1>8. plan' \in [Worker -> Plan]
  BY <1>3, <1>4, <1>5, <1>6, <1>7
<1> QED BY <1>1, <1>8, TInvFrom

(* The step that reingests a row that exists.                                 *)
LEMMA ReingestIs ==
    ASSUME TypeOK, \A d \in DocId : GoodRow(rows[d]), NEW d \in Documents, NEW n \in DocId
    PROVE  \E y \in GoodStep :
              /\ y = [OfDoc("reingest", rows[d], n) EXCEPT !.docs = {d}]
              /\ y.do = "reingest" /\ y.docs = {d} /\ y.row = rows[d] /\ y.id = n
<1> USE DEF TypeOK
<1>1. PICK x \in Row : x = rows[d] /\ GoodRow(x) /\ x.file \in File
  BY DEF Documents, Exists, GoodRow
<1>2. PICK s \in GoodStep : s = OfDoc("reingest", x, n) /\ s.do = "reingest" /\ s.row = x /\ s.id = n
  BY <1>1, OfDocIs DEF Effect
<1>3. PICK D \in SUBSET DocId : D = {d}
  BY DocumentsAreFew
<1>4. PICK y \in Step : /\ y = [s EXCEPT !.docs = D]
                        /\ y.do = "reingest" /\ y.row = x /\ y.id = n /\ y.docs = D
  <2>1. PICK z \in Step : z = s
    BY DEF GoodStep
  <2>2. PICK y \in Step : y = [z EXCEPT !.docs = D]
    BY DEF Step
  <2>3. y.do = z.do /\ y.row = z.row /\ y.id = z.id /\ y.docs = D
    BY <2>2 DEF Step
  <2> QED BY <1>2, <2>1, <2>2, <2>3
<1>5. y \in GoodStep
  BY <1>1, <1>4 DEF GoodStep
<1> QED BY <1>1, <1>2, <1>3, <1>4, <1>5

(* The two reindexes.                                                        *)
LEMMA ReindexTyped ==
    ASSUME TInv, NEW w \in Worker, (\E d \in DocId : ReindexOne(w, d)) \/ ReindexAll(w)
    PROVE  TInv'
<1> USE DEF TInv, TypeOK
<1>1. ASSUME NEW d \in Documents, NEW n \in DocId
      PROVE  \E y \in GoodStep :
                y = [OfDoc("reingest", rows[d], n) EXCEPT !.docs = {d}] /\ y.do = "reingest"
  <2> HIDE DEF TInv, TypeOK
  <2>1. TypeOK /\ \A e \in DocId : GoodRow(rows[e])
    BY DEF TInv
  <2> QED BY <1>1, <2>1, ReingestIs
<1>2. ASSUME NEW d \in DocId, ReindexOne(w, d)
      PROVE  TInv'
  <2>1. d \in Documents
    BY <1>2 DEF ReindexOne, Documents
  <2>2. PICK n \in DocId : n = issued + 1
    BY <1>2, MaxDocsAssumption DEF ReindexOne, DocId
  <2>3. PICK y \in GoodStep :
           y = [OfDoc("reingest", rows[d], n) EXCEPT !.docs = {d}] /\ y.do = "reingest"
    BY <1>1, <2>1
  <2>4. <<y>> \in Plan
    BY <2>3, PlanOne
  <2>5. plan' \in [Worker -> Plan]
    BY <1>2, <2>2, <2>3, <2>4 DEF ReindexOne, Starts
  <2>6. PICK s \in Seq(Chunk) : s = Without(store[w], {d})
    BY WithoutIs
  <2>7. store' \in [Worker -> Seq(Chunk)]
    BY <1>2, <2>6 DEF ReindexOne
  <2>8. issued' \in 0 .. MaxDocs
    BY <1>2, <2>2 DEF ReindexOne, DocId
  <2> QED BY <1>2, <2>5, <2>7, <2>8, TInvFrom DEF ReindexOne
<1>3. CASE ReindexAll(w)
  <2>1. PICK n \in Nat : n = Cardinality(Documents)
    BY DocumentsAreFew
  <2>2. PICK order \in [1 .. n -> Documents] :
           Starts(w, [i \in 1 .. n |-> [OfDoc("reingest", rows[order[i]], issued + i)
                                       EXCEPT !.docs = {order[i]}]]
                     \o <<Do("rebuild_keyword")>>)
    BY <1>3, <2>1 DEF ReindexAll, SetToSeqs
  <2> DEFINE reingest == [i \in 1 .. n |-> [OfDoc("reingest", rows[order[i]], issued + i)
                                           EXCEPT !.docs = {order[i]}]]
  <2>3. issued + n <= MaxDocs /\ issued' = issued + n
    BY <1>3, <2>1 DEF ReindexAll
  <2>4. \A i \in 1 .. n : reingest[i] \in GoodStep /\ reingest[i].do = "reingest"
    <3> SUFFICES ASSUME NEW i \in 1 .. n
                 PROVE  reingest[i] \in GoodStep /\ reingest[i].do = "reingest"
      OBVIOUS
    <3>1. PICK d \in Documents, m \in DocId : d = order[i] /\ m = issued + i
      BY <2>3, MaxDocsAssumption DEF DocId
    <3>2. PICK y \in GoodStep :
             y = [OfDoc("reingest", rows[d], m) EXCEPT !.docs = {d}] /\ y.do = "reingest"
      BY <1>1
    <3>3. reingest[i] = y
      BY <3>1, <3>2
    <3> QED BY <3>2, <3>3
  <2>5. DOMAIN reingest = 1 .. n
    OBVIOUS
  <2>6. \E g : reingest = [i \in 1 .. n |-> g[i]]
    <3>1. reingest = [i \in 1 .. n |-> reingest[i]]
      OBVIOUS
    <3> QED BY <3>1
  <2>7. Starts(w, reingest \o <<Do("rebuild_keyword")>>)
    BY <2>2
  <2> HIDE DEF reingest
  <2>8. reingest \in Seq(GoodStep)
    BY <2>4, <2>6
  <2>9. reingest \in Plan
    BY <2>4, <2>5, <2>8 DEF Plan
  <2>10. <<Do("rebuild_keyword")>> \in Plan
    <3>1. Do("rebuild_keyword") \in GoodStep /\ Do("rebuild_keyword").do = "rebuild_keyword"
      BY DoIs DEF Effect
    <3> QED BY <3>1, PlanOne
  <2>11. reingest \o <<Do("rebuild_keyword")>> \in Plan
    BY <2>9, <2>10, PlanConcat
  <2>12. plan' \in [Worker -> Plan]
    BY <2>7, <2>11 DEF Starts
  <2>13. store' \in [Worker -> Seq(Chunk)]
    BY <1>3 DEF ReindexAll
  <2>14. issued' \in 0 .. MaxDocs
    BY <2>3
  <2> QED BY <1>3, <2>12, <2>13, <2>14, TInvFrom DEF ReindexAll
<1> QED BY <1>2, <1>3

(* A worker that is asked to stop.                                           *)
LEMMA ShutdownTyped ==
    ASSUME TInv, NEW w \in Worker, Shutdown(w)
    PROVE  TInv'
<1> USE DEF TInv, TypeOK
<1>1. <<Do("exit")>> \in Plan
  <2>1. Do("exit") \in GoodStep /\ Do("exit").do = "exit"
    BY DoIs DEF Effect
  <2> QED BY <2>1, PlanOne
<1>2. Save(TRUE) \o <<Do("exit")>> \in Plan
  BY <1>1, PlanConcat, SaveIs
<1>3. plan' \in [Worker -> Plan]
  BY <1>2 DEF Shutdown, Starts
<1>4. crashes' \in Nat
  BY DEF Shutdown
<1> QED BY <1>3, <1>4, TInvFrom DEF Shutdown

(* Every step keeps the types.                                                *)
LEMMA TInvNext ==
    ASSUME TInv, [Next]_vars
    PROVE  TInv'
<1>1. CASE UNCHANGED vars
  BY <1>1, TInvFrom DEF vars, TInv, TypeOK
<1>2. ASSUME NEW w \in Worker, Proceed(w)
      PROVE  TInv'
  <2>1. CASE ForgetChunks(w)
    BY <2>1, ChunkForgotten
  <2>2. CASE WriteTmp(w) \/ MoveIndex(w) \/ MoveMetadata(w) \/ SaveFails(w)
    BY <2>2, SaveStepTyped
  <2>3. CASE DeleteRows(w) \/ Register(w) \/ SetStatus(w) \/ DropOldRow(w) \/ CommitApproval(w)
    BY <2>3, RowStepTyped
  <2>4. CASE Unlink(w) \/ IngestChunks(w) \/ IngestFails(w)
    BY <2>4, IngestTyped
  <2>5. CASE Reingest(w)
    BY <2>5, ReingestTyped
  <2>6. CASE RebuildKeyword(w)
    BY <2>6, RebuildTyped
  <2>7. CASE OpenDecision(w) \/ DatabaseLocked(w)
    BY <2>7, LockStepTyped
  <2>8. CASE Exit(w)
    BY <2>8, StartTyped DEF Exit, TInv, TypeOK
  <2> QED BY <1>2, <2>1, <2>2, <2>3, <2>4, <2>5, <2>6, <2>7, <2>8 DEF Proceed
<1>3. ASSUME NEW w \in Worker, Receive(w)
      PROVE  TInv'
  <2>1. CASE \E f \in File, c \in Content, role \in Uploader : Upload(w, f, c, role)
    BY <2>1, UploadTyped
  <2>2. CASE \/ \E d \in DocId : Approve(w, d) \/ Reject(w, d) \/ DeleteDocument(w, d)
             \/ \E D \in SUBSET (1 .. issued) : BatchDelete(w, D) \/ CleanupVectorStore(w, D)
    BY <2>2, RemovalTyped
  <2>3. CASE (\E d \in DocId : ReindexOne(w, d)) \/ ReindexAll(w)
    BY <2>3, ReindexTyped
  <2>4. CASE Shutdown(w)
    BY <2>4, ShutdownTyped
  <2> QED BY <1>3, <2>1, <2>2, <2>3, <2>4 DEF Receive
<1>4. ASSUME NEW w \in Worker, Restart(w)
      PROVE  TInv'
  <2>1. crashes' \in Nat
    BY <1>4 DEF Restart, TInv, TypeOK
  <2> QED BY <1>4, <2>1, StartTyped DEF Restart
<1> QED BY <1>1, <1>2, <1>3, <1>4 DEF Next

(* Every state the program reaches is of the types declared: rows, files,     *)
(* indexes and the plans of the workers, whatever their number.               *)
THEOREM DocumentsAreTyped == Spec => []TypeOK
<1>1. TInv => TypeOK
  BY DEF TInv
<1> QED BY <1>1, TInvInit, TInvNext, PTL DEF Spec

-----------------------------------------------------------------------------
(* The keyword index covers the vector store *)

LEMMA KeywordsNext ==
    ASSUME TInv, KeywordsCoverStore, [Next]_vars
    PROVE  KeywordsCoverStore'
<1>1. \A w \in Worker : store[w] \in Seq(Chunk) /\ Owners(store[w]) \subseteq keyword[w]
  BY DEF TInv, TypeOK, KeywordsCoverStore
<1>2. /\ store \in [Worker -> Seq(Chunk)] /\ DOMAIN store = Worker
      /\ keyword \in [Worker -> SUBSET DocId] /\ DOMAIN keyword = Worker
  BY DEF TInv, TypeOK
<1>3. CASE UNCHANGED <<store, keyword>>
  BY <1>1, <1>3 DEF KeywordsCoverStore
(* A step of one worker that leaves it covered leaves all covered. *)
<1>4. ASSUME NEW w \in Worker, NEW s, NEW k, Owners(s) \subseteq k,
             store' = [store EXCEPT ![w] = s],
             keyword' = [keyword EXCEPT ![w] = k] \/ (keyword' = keyword /\ k = keyword[w])
      PROVE  KeywordsCoverStore'
  <2>1. \A v \in Worker : /\ store'[v] = IF v = w THEN s ELSE store[v]
                          /\ keyword'[v] = IF v = w THEN k ELSE keyword[v]
    BY <1>2, <1>4
  <2>2. \A v \in Worker : Owners(store'[v]) \subseteq keyword'[v]
    BY <1>1, <1>4, <2>1
  <2> QED BY <2>2 DEF KeywordsCoverStore
<1>5. ASSUME NEW w \in Worker, Proceed(w)
      PROVE  KeywordsCoverStore'
  <2>1. CASE ForgetChunks(w)
    <3>1. PICK kept : kept = Without(store[w], Next1(w).docs)
      OBVIOUS
    <3>2. \/ store' = [store EXCEPT ![w] = kept] /\ keyword' = [keyword EXCEPT ![w] = Owners(kept)]
          \/ UNCHANGED <<store, keyword>>
      BY <2>1, <3>1 DEF ForgetChunks
    <3> QED BY <3>2, <1>3, <1>4
  <2>2. CASE IngestChunks(w)
    <3>1. PICK s \in GoodStep : s = Next1(w) /\ s.do = "ingest"
      BY <2>2, NextStep DEF TInv, IngestChunks, Doing
    <3>2. PICK d \in DocId : d = s.id
      BY <3>1 DEF GoodStep
    <3>3. PICK t : t = Append(store[w], <<d, d>>) /\ Owners(t) = Owners(store[w]) \cup {d}
      BY <1>1, OwnersAppend
    <3>4. PICK k : k = keyword[w] \cup {d}
      OBVIOUS
    <3>5. store' = [store EXCEPT ![w] = t] /\ keyword' = [keyword EXCEPT ![w] = k]
      BY <2>2, <3>1, <3>2, <3>3, <3>4 DEF IngestChunks
    <3>6. Owners(t) \subseteq k
      BY <1>1, <3>3, <3>4
    <3> QED BY <3>5, <3>6, <1>4
  <2>3. CASE RebuildKeyword(w)
    <3>1. PICK s : s = store[w]
      OBVIOUS
    <3>2. store' = [store EXCEPT ![w] = s] /\ keyword' = [keyword EXCEPT ![w] = Owners(s)]
      BY <1>2, <2>3, <3>1 DEF RebuildKeyword
    <3> QED BY <3>2, <1>4
  <2>4. CASE Exit(w)
    BY <2>4, <1>4 DEF Exit, Start
  <2>5. CASE ~(ForgetChunks(w) \/ IngestChunks(w) \/ RebuildKeyword(w) \/ Exit(w))
    <3>1. UNCHANGED <<store, keyword>>
      BY <1>5, <2>5 DEF Proceed, WriteTmp, MoveIndex, MoveMetadata, SaveFails, DeleteRows, Unlink,
         IngestFails, Register, SetStatus, Reingest, DropOldRow, OpenDecision, CommitApproval,
         DatabaseLocked
    <3> QED BY <3>1, <1>3
  <2> QED BY <2>1, <2>2, <2>3, <2>4, <2>5
<1>6. ASSUME NEW w \in Worker, Receive(w)
      PROVE  KeywordsCoverStore'
  <2>1. ASSUME NEW d \in DocId, ReindexOne(w, d)
        PROVE  KeywordsCoverStore'
    <3>1. PICK s : s = Without(store[w], {d}) /\ Owners(s) = Owners(store[w]) \ {d}
      BY <1>1, OwnersWithout
    <3>2. store' = [store EXCEPT ![w] = s] /\ keyword' = keyword
      BY <2>1, <3>1 DEF ReindexOne
    <3>3. Owners(s) \subseteq keyword[w]
      BY <1>1, <3>1
    <3> QED BY <3>2, <3>3, <1>4
  <2>2. CASE ReindexAll(w)
    <3>1. store' = [store EXCEPT ![w] = <<>>] /\ keyword' = keyword
      BY <2>2 DEF ReindexAll
    <3>2. Owners(<<>>) \subseteq keyword[w]
      BY DEF Owners
    <3> QED BY <3>1, <3>2, <1>4
  <2>3. CASE ~((\E d \in DocId : ReindexOne(w, d)) \/ ReindexAll(w))
    <3>1. UNCHANGED <<store, keyword>>
      BY <1>6, <2>3 DEF Receive, Upload, Approve, Reject, DeleteDocument, BatchDelete,
         CleanupVectorStore, Shutdown, vars
    <3> QED BY <3>1, <1>3
  <2> QED BY <2>1, <2>2, <2>3
<1>7. ASSUME NEW w \in Worker, Restart(w)
      PROVE  KeywordsCoverStore'
  BY <1>7, <1>4 DEF Restart, Start
<1>8. CASE UNCHANGED vars
  BY <1>8, <1>3 DEF vars
<1> QED BY <1>5, <1>6, <1>7, <1>8 DEF Next

(* Whatever a worker finds by meaning it finds by keyword as well, after any   *)
(* upload, deletion, reindex, crash or restart.                               *)
THEOREM KeywordsStayComplete == Spec => []KeywordsCoverStore
<1>1. Init => KeywordsCoverStore
  <2> SUFFICES ASSUME Init, NEW w \in Worker PROVE Owners(store[w]) \subseteq keyword[w]
    BY DEF KeywordsCoverStore
  <2>1. store[w] = <<>>
    BY DEF Init
  <2> QED BY <2>1 DEF Owners
<1>2. (TInv /\ KeywordsCoverStore) /\ [Next]_vars => (TInv /\ KeywordsCoverStore)'
  BY TInvNext, KeywordsNext
<1> QED BY <1>1, <1>2, TInvInit, PTL DEF Spec

-----------------------------------------------------------------------------
(* Nothing comes back *)

LEMMA RowsReturnByRegister ==
    ASSUME TInv, [Next]_vars, NEW d \in DocId, ~Exists(d), Exists(d)'
    PROVE  \E w \in Worker : Doing(w, "register") /\ Next1(w).id = d
<1>1. rows \in [DocId -> Row] /\ rows[d].status = "none" /\ rows'[d].status # "none"
  BY DEF TInv, TypeOK, Exists
<1>2. rows' # rows
  BY <1>1
<1>3. PICK w \in Worker : Proceed(w) \/ Receive(w) \/ Restart(w)
  BY <1>2 DEF Next, vars
<1>4. DeleteRows(w) \/ Register(w) \/ SetStatus(w) \/ DropOldRow(w) \/ CommitApproval(w)
  BY <1>2, <1>3 DEF Proceed, Receive, Restart, Start, Exit, ForgetChunks, WriteTmp, MoveIndex,
     MoveMetadata, SaveFails, Unlink, IngestChunks, IngestFails, Reingest, RebuildKeyword,
     OpenDecision, DatabaseLocked, Upload, Approve, Reject, DeleteDocument, BatchDelete,
     ReindexOne, ReindexAll, CleanupVectorStore, Shutdown, vars
<1>5. ~(DeleteRows(w) \/ DropOldRow(w))
  <2> SUFFICES ASSUME DeleteRows(w) \/ DropOldRow(w) PROVE FALSE
    OBVIOUS
  <2>1. PICK D : rows' = [e \in DocId |-> IF e \in D THEN NoRow ELSE rows[e]]
    BY DEF DeleteRows, DropOldRow
  <2> QED BY <1>1, <2>1, NoRowIs
<1>6. ~CommitApproval(w)
  <2> SUFFICES ASSUME CommitApproval(w) PROVE FALSE
    OBVIOUS
  <2>1. PICK D : /\ D = Next1(w).docs \cap Documents
                 /\ rows' = [e \in DocId |->
                               IF e \in D THEN [rows[e] EXCEPT !.status = "approved", !.signed = TRUE]
                                          ELSE rows[e]]
    BY DEF CommitApproval
  <2>2. d \notin D
    BY <2>1 DEF Documents
  <2> QED BY <1>1, <2>1, <2>2
<1>7. PICK s \in GoodStep : s = Next1(w)
  BY <1>4, NextStep DEF TInv, DeleteRows, Register, SetStatus, DropOldRow, CommitApproval, Doing
<1>8. PICK r \in Row : r = s.row
  BY DEF GoodStep, Step
<1>9. CASE Register(w)
  <2>1. rows' = [rows EXCEPT ![s.id] = r] /\ Doing(w, "register")
    BY <1>7, <1>8, <1>9 DEF Register
  <2>2. s.id = d
    BY <1>1, <2>1
  <2> QED BY <1>7, <2>1, <2>2
<1>10. CASE SetStatus(w)
  <2>1. rows' = IF Exists(s.id) THEN [rows EXCEPT ![s.id] = r] ELSE rows
    BY <1>7, <1>8, <1>10 DEF SetStatus
  <2>2. s.id = d /\ Exists(s.id)
    BY <1>1, <2>1
  <2> QED BY <2>2
<1> QED BY <1>4, <1>5, <1>6, <1>9, <1>10

(* A document deleted by one worker is not written back by another one, which *)
(* holds its lock, its plan or its row from before: only the registration of  *)
(* a freshly ingested document makes a row.                                   *)
THEOREM DeletedStaysAway == Spec => DeletedStaysDeleted
<1>1. TInv /\ [Next]_vars =>
        [\A d \in DocId :
            (~Exists(d) /\ Exists(d)') => \E w \in Worker : Doing(w, "register") /\ Next1(w).id = d]_rows
  BY RowsReturnByRegister
<1> QED BY <1>1, TInvInit, TInvNext, PTL DEF Spec, DeletedStaysDeleted

=============================================================================
