--------------------------- MODULE DocumentIndex ---------------------------
(***************************************************************************)
(* Uploading, approving, deleting and reindexing documents:                *)
(* backend/app/api/document_routes.py, services/ingestion_service.py,      *)
(* vectorstore/faiss_store.py and the BM25 index of retrieval_service.py.  *)
(*                                                                         *)
(* A document lives in four places that no transaction spans: a row of     *)
(* table documents, a file in upload_dir, the vector store and the keyword *)
(* index in the memory of each uvicorn worker, and the two index files     *)
(* that all workers share.  A handler never awaits after it has read its   *)
(* request, so inside a process requests run one after the other; between  *)
(* processes they interleave, and a process may die between any two of the *)
(* handler's effects.  A handler is therefore a plan: the sequence of its  *)
(* remaining effects, of which each step of the worker takes the first.    *)
(*                                                                         *)
(* A document has one chunk here: its id.  The vector store is a sequence  *)
(* of pairs <<whose vector, whose metadata>>, because FAISS keeps vectors  *)
(* and metadata in two lists that belong together by position only.        *)
(* Modelled is the FAISS backend, the only one the handlers can work with. *)
(*                                                                         *)
(* An operator X_Something beside an operator X is X with a plausible bug; *)
(* nothing uses it but the mutation checks of the properties.              *)
(***************************************************************************)
EXTENDS Integers, FiniteSets, SequencesExt

CONSTANTS
    Worker,       \* uvicorn worker processes
    File,         \* file names
    Content,      \* what a file may hold (content_hash)
    Uploader,     \* roles that upload, of "hr_team" and "hr_head" (which stands for all above)
    None,         \* SQL NULL, a missing file
    MaxDocs,      \* bound: document ids ever issued
    MaxCrashes,   \* bound: how many times worker processes are restarted
    MaxFailures   \* bound: how many ingestions fail

ASSUME MaxDocsAssumption == MaxDocs \in Nat
ASSUME UploaderAssumption == Uploader \subseteq {"hr_team", "hr_head"}
ASSUME NoneAssumption == None \notin Worker \cup File \cup Content \cup Seq(Nat)

DocId == 1 .. MaxDocs    \* uuid4: never issued twice

VARIABLES
    rows,      \* table documents
    files,     \* upload_dir
    disk,      \* index.faiss and metadata.pkl, and the .tmp file beside each
    store,     \* FAISSIndex of each worker
    keyword,   \* BM25Retriever.chunks of each worker
    plan,      \* what each worker has still to do for the request it serves
    writer,    \* the worker holding SQLite's write lock over several steps, or None
    issued,    \* how many document ids have been issued
    crashes, failures

vars == <<rows, files, disk, store, keyword, plan, writer, issued, crashes, failures>>

-----------------------------------------------------------------------------
(* Data *)

\* team: uploaded by a member of HR Team; signed: approved_by is not empty.
Row   == [file : File \cup {None}, content : Content \cup {None},
          status : {"approved", "pending", "none"}, team : BOOLEAN, signed : BOOLEAN]
NoRow == [file |-> None, content |-> None, status |-> "none", team |-> FALSE, signed |-> FALSE]

Chunk == DocId \X DocId
Disk  == [index : Seq(DocId), metadata : Seq(DocId),
          indexTmp : Seq(DocId) \cup {None}, metadataTmp : Seq(DocId) \cup {None}]

Effect == {"forget", "delete", "unlink", "ingest", "register", "set_status", "reingest",
           "drop_old", "rebuild_keyword", "write_tmp", "move_index", "move_metadata",
           "open_approval", "open_rejection", "commit_approval", "exit"}
\* docs: the documents it is about; row, id: what to ingest, and under which id;
\* caught: whether the request survives an exception of this step.
Step == [do : Effect, docs : SUBSET DocId, files : SUBSET File, row : Row, id : DocId \cup {0},
         caught : BOOLEAN]

TypeOK ==
    /\ rows \in [DocId -> Row]
    /\ files \in [File -> Content \cup {None}]
    /\ disk \in Disk
    /\ store \in [Worker -> Seq(Chunk)]
    /\ keyword \in [Worker -> SUBSET DocId]
    /\ plan \in [Worker -> Seq(Step)]
    /\ writer \in Worker \cup {None}
    /\ issued \in 0 .. MaxDocs
    /\ crashes \in Nat /\ failures \in Nat

Exists(d) == rows[d].status # "none"
Documents == {d \in DocId : Exists(d)}

Vectors(chunks)  == [i \in DOMAIN chunks |-> chunks[i][1]]
Metadata(chunks) == [i \in DOMAIN chunks |-> chunks[i][2]]
Owners(chunks)   == {chunks[i][2] : i \in DOMAIN chunks}
\* keep_indices: positions are kept or dropped by what their metadata says, and
\* those that are kept stay in their order.
Kept(chunks, D) == {i \in DOMAIN chunks : chunks[i][2] \notin D}
Without(chunks, D) ==
    LET kept == Kept(chunks, D)
    IN  [n \in 1 .. Cardinality(kept) |->
            chunks[CHOOSE i \in kept : Cardinality({j \in kept : j <= i}) = n]]

Load_Unchecked(d) == [i \in DOMAIN d.index |->
    <<d.index[i], IF i \in DOMAIN d.metadata THEN d.metadata[i] ELSE None>>]
\* FAISSIndex.load: two files of different length mean an empty start.
Load(d) == IF Len(d.index) = Len(d.metadata)
           THEN [i \in DOMAIN d.index |-> <<d.index[i], d.metadata[i]>>]
           ELSE <<>>

Do(effect)            == [do |-> effect, docs |-> {}, files |-> {}, row |-> NoRow, id |-> 0,
                          caught |-> FALSE]
DoFor(effect, D)      == [Do(effect) EXCEPT !.docs = D]
OfDoc(effect, r, id)   == [Do(effect) EXCEPT !.row = r, !.id = id]

Save(caught) ==
    [i \in 1 .. 3 |-> [Do(<<"write_tmp", "move_index", "move_metadata">>[i]) EXCEPT !.caught = caught]]

Removal_RowFirst(d) == << DoFor("delete", {d}), DoFor("forget", {d}) >>
\* _remove_document_chunks
Removal(d) == << DoFor("forget", {d}), DoFor("delete", {d}) >>

-----------------------------------------------------------------------------
(* The steps every handler shares *)

Init ==
    /\ rows = [d \in DocId |-> NoRow]
    /\ files = [f \in File |-> None]
    /\ disk = [index |-> <<>>, metadata |-> <<>>, indexTmp |-> None, metadataTmp |-> None]
    /\ store = [w \in Worker |-> <<>>]
    /\ keyword = [w \in Worker |-> {}]
    /\ plan = [w \in Worker |-> <<>>]
    /\ writer = None
    /\ issued = 0 /\ crashes = 0 /\ failures = 0

Idle(w) == plan[w] = <<>>
Starts(w, steps) == Idle(w) /\ plan' = [plan EXCEPT ![w] = steps]

Next1(w) == Head(plan[w])
Rest(w)  == Tail(plan[w])
Doing(w, effect) == ~Idle(w) /\ Next1(w).do = effect
Continue(w, steps) == plan' = [plan EXCEPT ![w] = steps]

\* An exception nobody catches: the request ends, its open transaction is rolled back.
Abort(w) ==
    /\ Continue(w, <<>>)
    /\ writer' = IF writer = w THEN None ELSE writer

\* What is left of an upload or a reindex when its ingestion reports "failed":
\* the upload gives up, the reindex goes on to delete the old row.
AfterFailure(steps) ==
    IF steps # <<>> /\ Head(steps).do = "set_status" THEN <<>> ELSE steps

-----------------------------------------------------------------------------
(* The effects *)

\* Rebuild vector store and keyword index without the documents; save if any was there.
ForgetChunks_Unsaved(w) ==
    LET kept == Without(store[w], Next1(w).docs) IN
    /\ Doing(w, "forget")
    /\ store' = [store EXCEPT ![w] = kept]
    /\ keyword' = [keyword EXCEPT ![w] = Owners(kept)]
    /\ Continue(w, Rest(w))
    /\ UNCHANGED <<rows, files, disk, writer, issued, crashes, failures>>
ForgetChunks(w) ==
    LET kept == Without(store[w], Next1(w).docs) IN
    /\ Doing(w, "forget")
    /\ IF Len(kept) < Len(store[w])
       THEN /\ store' = [store EXCEPT ![w] = kept]
            /\ keyword' = [keyword EXCEPT ![w] = Owners(kept)]
            /\ Continue(w, Save(FALSE) \o Rest(w))
       ELSE Continue(w, Rest(w)) /\ UNCHANGED <<store, keyword>>
    /\ UNCHANGED <<rows, files, disk, writer, issued, crashes, failures>>

\* FAISSIndex.save: both files are written beside the old ones, then moved over them.
WriteTmp(w) ==
    /\ Doing(w, "write_tmp")
    /\ disk' = [disk EXCEPT !.indexTmp = Vectors(store[w]), !.metadataTmp = Metadata(store[w])]
    /\ Continue(w, Rest(w))
    /\ UNCHANGED <<rows, files, store, keyword, writer, issued, crashes, failures>>

MoveIndex(w) ==
    /\ Doing(w, "move_index")
    /\ disk.indexTmp # None
    /\ disk' = [disk EXCEPT !.index = disk.indexTmp, !.indexTmp = None]
    /\ Continue(w, Rest(w))
    /\ UNCHANGED <<rows, files, store, keyword, writer, issued, crashes, failures>>

MoveMetadata(w) ==
    /\ Doing(w, "move_metadata")
    /\ disk.metadataTmp # None
    /\ disk' = [disk EXCEPT !.metadata = disk.metadataTmp, !.metadataTmp = None]
    /\ Continue(w, Rest(w))
    /\ UNCHANGED <<rows, files, store, keyword, writer, issued, crashes, failures>>

\* Another worker, saving at the same time, has moved or removed the .tmp file:
\* save cleans up and raises, which an ingestion and a shutdown survive.
SaveFails(w) ==
    /\ \/ Doing(w, "move_index") /\ disk.indexTmp = None
       \/ Doing(w, "move_metadata") /\ disk.metadataTmp = None
    /\ disk' = [disk EXCEPT !.indexTmp = None, !.metadataTmp = None]
    /\ IF Next1(w).caught
       THEN /\ Continue(w, IF Doing(w, "move_index") THEN Tail(Rest(w)) ELSE Rest(w))
            /\ UNCHANGED writer
       ELSE Abort(w)
    /\ UNCHANGED <<rows, files, store, keyword, issued, crashes, failures>>

\* The rows go, and the plan learns which files they named.
DeleteRows(w) ==
    LET D == Next1(w).docs
        named == {rows[d].file : d \in D \cap Documents}
    IN  /\ Doing(w, "delete")
        /\ writer = None
        /\ rows' = [d \in DocId |-> IF d \in D THEN NoRow ELSE rows[d]]
        /\ Continue(w, <<[Do("unlink") EXCEPT !.files = Next1(w).files \cup named]>> \o Rest(w))
        /\ UNCHANGED <<files, disk, store, keyword, writer, issued, crashes, failures>>

Unlink(w) ==
    /\ Doing(w, "unlink")
    /\ files' = [f \in File |-> IF f \in Next1(w).files THEN None ELSE files[f]]
    /\ Continue(w, Rest(w))
    /\ UNCHANGED <<rows, disk, store, keyword, writer, issued, crashes, failures>>

IngestChunks_NoKeywords(w) ==
    LET r == Next1(w).row
        d == Next1(w).id
    IN  /\ Doing(w, "ingest")
        /\ files' = [files EXCEPT ![r.file] = r.content]
        /\ store' = [store EXCEPT ![w] = Append(@, <<d, d>>)]
        /\ Continue(w, <<OfDoc("register", r, d)>> \o Save(TRUE) \o Rest(w))
        /\ UNCHANGED <<rows, disk, keyword, writer, issued, crashes, failures>>
\* IngestionPipeline.ingest up to step 8: the file, its chunks, both indexes.
IngestChunks(w) ==
    LET r == Next1(w).row
        d == Next1(w).id
    IN  /\ Doing(w, "ingest")
        /\ files' = [files EXCEPT ![r.file] = r.content]
        /\ store' = [store EXCEPT ![w] = Append(@, <<d, d>>)]
        /\ keyword' = [keyword EXCEPT ![w] = @ \cup {d}]
        /\ Continue(w, <<OfDoc("register", r, d)>> \o Save(TRUE) \o Rest(w))
        /\ UNCHANGED <<rows, disk, writer, issued, crashes, failures>>

\* "rejected" before the file is written; or no text, too many chunks, no
\* embedding after that.
IngestFails(w) ==
    LET r == Next1(w).row IN
    /\ Doing(w, "ingest")
    /\ failures < MaxFailures
    /\ failures' = failures + 1
    /\ files' \in {files, [files EXCEPT ![r.file] = r.content]}
    /\ Continue(w, AfterFailure(Rest(w)))
    /\ UNCHANGED <<rows, disk, store, keyword, writer, issued, crashes>>

\* _register: approval_status and approved_by get the column defaults.
Register(w) ==
    /\ Doing(w, "register")
    /\ writer = None
    /\ rows' = [rows EXCEPT ![Next1(w).id] = Next1(w).row]
    /\ Continue(w, Rest(w))
    /\ UNCHANGED <<files, disk, store, keyword, writer, issued, crashes, failures>>

SetStatus_Inserts(w) ==
    LET d == Next1(w).id IN
    /\ Doing(w, "set_status")
    /\ writer = None
    /\ rows' = [rows EXCEPT ![d] = Next1(w).row]
    /\ Continue(w, Rest(w))
    /\ UNCHANGED <<files, disk, store, keyword, writer, issued, crashes, failures>>
SetStatus(w) ==
    LET d == Next1(w).id IN
    /\ Doing(w, "set_status")
    /\ writer = None
    /\ rows' = IF Exists(d) THEN [rows EXCEPT ![d] = Next1(w).row] ELSE rows
    /\ Continue(w, Rest(w))
    /\ UNCHANGED <<files, disk, store, keyword, writer, issued, crashes, failures>>

\* One document of a reindex: read its file, ingest it, drop the old row.
Reingest(w) ==
    LET r == Next1(w).row IN
    /\ Doing(w, "reingest")
    /\ Continue(w,
          (IF files[r.file] = None THEN <<>>
           ELSE << OfDoc("ingest", [r EXCEPT !.content = files[r.file], !.status = "approved",
                                             !.signed = FALSE], Next1(w).id),
                   DoFor("drop_old", Next1(w).docs) >>) \o Rest(w))
    /\ UNCHANGED <<rows, files, disk, store, keyword, writer, issued, crashes, failures>>

DropOldRow(w) ==
    /\ Doing(w, "drop_old")
    /\ writer = None
    /\ rows' = [d \in DocId |-> IF d \in Next1(w).docs THEN NoRow ELSE rows[d]]
    /\ Continue(w, Rest(w))
    /\ UNCHANGED <<files, disk, store, keyword, writer, issued, crashes, failures>>

RebuildKeyword(w) ==
    /\ Doing(w, "rebuild_keyword")
    /\ keyword' = [keyword EXCEPT ![w] = Owners(store[w])]
    /\ Continue(w, Save(FALSE) \o Rest(w))
    /\ UNCHANGED <<rows, files, disk, store, writer, issued, crashes, failures>>

\* The UPDATE of a decision takes the write lock and keeps it to the end of the
\* handler.  The audit row and the notification of an approval each wait for it
\* on a connection of their own and are dropped; the DELETE of a rejection waits
\* likewise and takes the whole request down (DatabaseLocked).
OpenDecision(w) ==
    /\ Doing(w, "open_approval") \/ Doing(w, "open_rejection")
    /\ writer = None
    /\ writer' = w
    /\ Continue(w, Rest(w))
    /\ UNCHANGED <<rows, files, disk, store, keyword, issued, crashes, failures>>

CommitApproval(w) ==
    LET D == Next1(w).docs \cap Documents IN
    /\ Doing(w, "commit_approval")
    /\ rows' = [d \in DocId |-> IF d \in D
                                THEN [rows[d] EXCEPT !.status = "approved", !.signed = TRUE]
                                ELSE rows[d]]
    /\ writer' = None
    /\ Continue(w, Rest(w))
    /\ UNCHANGED <<files, disk, store, keyword, issued, crashes, failures>>

DatabaseLocked_Retries(w) ==
    /\ \E e \in {"delete", "register", "set_status", "drop_old",
                  "open_approval", "open_rejection"} : Doing(w, e)
    /\ writer \notin {None, w}
    /\ Abort(w)
    /\ UNCHANGED <<rows, files, disk, store, keyword, issued, crashes, failures>>
\* A connection waits five seconds for the lock, its own request's included, and
\* raises: an ingestion reports "failed", a full reindex goes on with the next
\* document, every other request ends.
DatabaseLocked(w) ==
    /\ \E e \in {"delete", "register", "set_status", "drop_old",
                  "open_approval", "open_rejection"} : Doing(w, e)
    /\ writer # None
    /\ CASE Doing(w, "register") ->
               /\ Continue(w, AfterFailure(SubSeq(plan[w], 5, Len(plan[w]))))
               /\ UNCHANGED writer
         [] Doing(w, "drop_old") -> Continue(w, Rest(w)) /\ UNCHANGED writer
         [] OTHER -> Abort(w)
    /\ UNCHANGED <<rows, files, disk, store, keyword, issued, crashes, failures>>

-----------------------------------------------------------------------------
(* The handlers: what each reads, and the plan that follows from it *)

Upload(w, f, c, role) ==
    LET team  == role = "hr_team"
        same  == {d \in Documents : rows[d].content = c}
        named == {d \in Documents : rows[d].file = f}
        new   == [file |-> f, content |-> c, status |-> "approved", team |-> team, signed |-> FALSE]
        decided == [new EXCEPT !.status = IF team THEN "pending" ELSE "approved", !.signed = ~team]
    IN  /\ issued < MaxDocs
        /\ issued' = issued + 1
        /\ \E old \in IF same # {} THEN same ELSE IF named # {} THEN named ELSE {0} :
              Starts(w, (IF old = 0 THEN <<>> ELSE Removal(old))
                        \o << OfDoc("ingest", new, issued + 1),
                              OfDoc("set_status", decided, issued + 1) >>)
        /\ UNCHANGED <<rows, files, disk, store, keyword, writer, crashes, failures>>

Approve(w, d) ==
    /\ rows[d].status = "pending"
    /\ Starts(w, << DoFor("open_approval", {d}), DoFor("commit_approval", {d}) >>)
    /\ UNCHANGED <<rows, files, disk, store, keyword, writer, issued, crashes, failures>>

Reject(w, d) ==
    /\ rows[d].status = "pending"
    /\ Starts(w, <<DoFor("open_rejection", {d})>> \o Removal(d))
    /\ UNCHANGED <<rows, files, disk, store, keyword, writer, issued, crashes, failures>>

DeleteDocument(w, d) ==
    /\ Exists(d)
    /\ Starts(w, Removal(d))
    /\ UNCHANGED <<rows, files, disk, store, keyword, writer, issued, crashes, failures>>

\* Chunks go for every id asked for, rows and files for those that were found.
BatchDelete(w, D) ==
    LET found == D \cap Documents IN
    /\ found # {}
    /\ Starts(w, << DoFor("forget", D),
                    [DoFor("delete", found) EXCEPT !.files = {rows[d].file : d \in found}] >>)
    /\ UNCHANGED <<rows, files, disk, store, keyword, writer, issued, crashes, failures>>

\* The old chunks leave the vector store at once, but neither the keyword index
\* nor the disk.
ReindexOne(w, d) ==
    /\ Exists(d) /\ files[rows[d].file] # None
    /\ issued < MaxDocs
    /\ issued' = issued + 1
    /\ store' = [store EXCEPT ![w] = Without(@, {d})]
    /\ Starts(w, <<[OfDoc("reingest", rows[d], issued + 1) EXCEPT !.docs = {d}]>>)
    /\ UNCHANGED <<rows, files, disk, keyword, writer, crashes, failures>>

ReindexAll(w) ==
    LET n == Cardinality(Documents) IN
    /\ n # 0 /\ issued + n <= MaxDocs
    /\ issued' = issued + n
    /\ store' = [store EXCEPT ![w] = <<>>]
    /\ \E order \in SetToSeqs(Documents) :
          Starts(w, [i \in 1 .. n |-> [OfDoc("reingest", rows[order[i]], issued + i)
                                      EXCEPT !.docs = {order[i]}]]
                    \o <<Do("rebuild_keyword")>>)
    /\ UNCHANGED <<rows, files, disk, keyword, writer, crashes, failures>>

\* cleanup_vector_store drops the documents whose title or file name looks like a
\* test, any of them here, and leaves their files.
CleanupVectorStore(w, D) ==
    /\ D # {} /\ D \subseteq Documents
    /\ Starts(w, << DoFor("forget", D), DoFor("drop_old", D) >>)
    /\ UNCHANGED <<rows, files, disk, store, keyword, writer, issued, crashes, failures>>

\* A worker asked to stop saves what it has in memory, whatever other workers have saved.
Shutdown(w) ==
    /\ crashes < MaxCrashes
    /\ crashes' = crashes + 1
    /\ Starts(w, Save(TRUE) \o <<Do("exit")>>)
    /\ UNCHANGED <<rows, files, disk, store, keyword, writer, issued, failures>>

\* Starting, a worker process loads the two index files.
Start(w) ==
    /\ store' = [store EXCEPT ![w] = Load(disk)]
    /\ keyword' = [keyword EXCEPT ![w] = Owners(Load(disk))]
    /\ Abort(w)
    /\ UNCHANGED <<rows, files, disk, issued, failures>>

Exit(w) == Doing(w, "exit") /\ Start(w) /\ UNCHANGED crashes

\* A worker process dies, in the middle of whatever it does, and is started again.
Restart(w) == crashes < MaxCrashes /\ crashes' = crashes + 1 /\ Start(w)

-----------------------------------------------------------------------------
Proceed(w) ==
    \/ ForgetChunks(w) \/ WriteTmp(w) \/ MoveIndex(w) \/ MoveMetadata(w) \/ SaveFails(w)
    \/ DeleteRows(w) \/ Unlink(w)
    \/ IngestChunks(w) \/ IngestFails(w) \/ Register(w) \/ SetStatus(w)
    \/ Reingest(w) \/ DropOldRow(w) \/ RebuildKeyword(w)
    \/ OpenDecision(w) \/ CommitApproval(w) \/ DatabaseLocked(w) \/ Exit(w)

Receive(w) ==
    \/ \E f \in File, c \in Content, role \in Uploader : Upload(w, f, c, role)
    \/ \E d \in DocId : Approve(w, d) \/ Reject(w, d) \/ DeleteDocument(w, d) \/ ReindexOne(w, d)
    \/ \E D \in SUBSET (1 .. issued) : BatchDelete(w, D) \/ CleanupVectorStore(w, D)
    \/ ReindexAll(w) \/ Shutdown(w)

Next == \E w \in Worker : Proceed(w) \/ Receive(w) \/ Restart(w)

Spec == Init /\ [][Next]_vars

(* A process runs on with the request it has. *)
FairSpec == Spec /\ \A w \in Worker : WF_vars(Proceed(w))

-----------------------------------------------------------------------------
(* Safety *)

Quiet == \A w \in Worker : Idle(w)

(* No ghosts: what the vector store answers with is a document the database  *)
(* knows, so a deleted or replaced document is never quoted.  Holds with one *)
(* worker, though it die at any point: every handler saves the index without *)
(* the document before it deletes the row.  It may die once only: a death    *)
(* between the two renames of a save leaves files that do not load, whose    *)
(* metadata no deletion then rewrites, and a second one may pair them with   *)
(* an index of the same length.  (Neither may an ingestion fail: a reindex   *)
(* then deletes the row without a save.)                                     *)
NoGhostChunks ==
    Quiet /\ (crashes = 0 \/ (crashes = 1 /\ failures = 0)) =>
        \A w \in Worker : Owners(store[w]) \subseteq Documents

(* Nothing is found by meaning that cannot be found by keyword: whatever a    *)
(* handler does to the vector store, the BM25 index of the same worker keeps *)
(* up with it.  (The other way round it may lag behind: a single reindex     *)
(* leaves the old chunks in the keyword index.)                              *)
KeywordsCoverStore ==
    \A w \in Worker : Owners(store[w]) \subseteq keyword[w]

(* A restart changes no answer: between requests the files on disk load to   *)
(* what the worker has in memory.  With one worker, unless an ingestion      *)
(* failed (a reindex then leaves the removal of the old chunks unsaved).     *)
RestartLosesNothing ==
    Quiet /\ failures = 0 => \A w \in Worker : store[w] = Load(disk)

(* A document that was deleted, replaced or reindexed away never comes back  *)
(* under its id, whatever another worker still does with it.                 *)
DeletedStaysDeleted ==
    [][\A d \in DocId :
          (~Exists(d) /\ Exists(d)') => \E w \in Worker : Doing(w, "register") /\ Next1(w).id = d]_rows

-----------------------------------------------------------------------------
(* What the documentation says and the code does not do *)

(* "Approves -> document becomes active in chatbot searches": every approved  *)
(* document is in the vector store, when no process was restarted and no     *)
(* ingestion failed.                                                         *)
ApprovedIsSearchable ==
    Quiet /\ crashes = 0 /\ failures = 0 =>
        \A w \in Worker, d \in DocId : rows[d].status = "approved" => d \in Owners(store[w])

-----------------------------------------------------------------------------
(* Every request ends, whatever lock or missing .tmp file it meets.           *)
RequestsEnd == \A w \in Worker : ~Idle(w) ~> Idle(w)
=============================================================================
